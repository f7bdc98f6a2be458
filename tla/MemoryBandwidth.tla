--------------------------- MODULE MemoryBandwidth ---------------------------
(***************************************************************************)
(* RunBandwidthBenchmarks of akbench.cc for the two benchmarks that share  *)
(* a mapping: the TYPE argument picks one, which runs as its module says.  *)
(* What both promise is stated here and in DoubleBuffer.                   *)
(***************************************************************************)
EXTENDS DoubleBuffer

VARIABLES type,                 \* the TYPE argument
          shm_name, n_created,  \* of shm
          file_size             \* of mmap

shm_only == <<shm_name, n_created>>
vars     == <<barrier, pipeline, type, shm_only, file_size>>

Shm  == INSTANCE ShmBandwidth
Mmap == INSTANCE MmapBandwidth

Init == \/ type = "shm" /\ Shm!Init /\ file_size = "none"
        \/ type = "mmap" /\ Mmap!Init /\ shm_name = 0 /\ n_created = 0

Sender ==
    /\ \/ type = "shm" /\ Shm!Sender /\ UNCHANGED file_size
       \/ type = "mmap" /\ Mmap!Sender /\ UNCHANGED shm_only
    /\ UNCHANGED type

Receiver ==
    /\ \/ type = "shm" /\ Shm!Receiver /\ UNCHANGED file_size
       \/ type = "mmap" /\ Mmap!Receiver /\ UNCHANGED shm_only
    /\ UNCHANGED type

\* waitpid returns when both are done.
AllDone == \A p \in Procs : pc[p] = "done"
Done == AllDone /\ UNCHANGED vars

Next == Sender \/ Receiver \/ Done

\* Both processes keep running, and a released Wait returns.
Spec == Init /\ [][Next]_vars /\ WF_vars(Sender) /\ WF_vars(Receiver)
-----------------------------------------------------------------------------
\* Every variable keeps its type, every loop variable its bound.
TypeOK == /\ type = "shm" => Shm!TypeOK
          /\ type = "mmap" => Mmap!TypeOK

(***************************************************************************)
(* No iteration of shm_bandwidth.cc uses the memory of the one before, nor *)
(* does one of mmap_bandwidth.cc touch a file that is being truncated,     *)
(* which is a SIGBUS (mmap_bandwidth.cc:40).                               *)
(***************************************************************************)
OwnMemory == /\ type = "shm" => Shm!FreshMapping
             /\ type = "mmap" => Mmap!NoTruncatedAccess

\* p has ended, or waits in barrier.Wait() for the other.
Blocked(p) == pc[p] \in {"done", "aborted"} \/ Barrier!Waiting(p)

(***************************************************************************)
(* No process waits for one that has ended or waits itself: both meet at   *)
(* each of the waits, of which the loop of either file makes n_pipeline,   *)
(* and each counts them alone (shm_bandwidth.cc:85 and :172).              *)
(***************************************************************************)
NoDeadlock == (\A p \in Procs : Blocked(p)) => AllDone

(***************************************************************************)
(* Both sides count the same waits in an iteration, the process that opens *)
(* finds the memory of this iteration, of full size (shm_bandwidth.cc:152, *)
(* mmap_bandwidth.cc:130), and what arrives passes its verification: all   *)
(* iterations end, and none in abort().                                    *)
(***************************************************************************)
Termination == <>AllDone
=============================================================================
