--------------------------- MODULE LatencyBenchmarks ---------------------------
(***************************************************************************)
(* The benchmarks that play ping-pong: four TYPEs of RunLatencyBenchmarks  *)
(* of akbench.cc, and the program of mpi_bandwidth.cc.  One is picked and  *)
(* runs as its module says.  What all promise is stated here once.         *)
(***************************************************************************)
EXTENDS LatencyLoop

VARIABLES type,              \* the TYPE argument, or "mpi"
          flag, pending,     \* of the two atomic benchmarks
          ready, owner,      \* of condition_variable
          count, named,      \* of semaphore
          arrived, passed, channel, recv_buffer  \* of the MPI program

atomics    == <<flag, pending>>
flags      == <<ready, owner>>
semaphores == <<count, named>>
mpi        == <<arrived, passed, channel, recv_buffer>>
vars       == <<loop, type, atomics, flags, semaphores, mpi>>

SeqCst == INSTANCE AtomicLatency WITH Relaxed <- FALSE
RelAcq == INSTANCE AtomicLatency WITH Relaxed <- TRUE
Cond   == INSTANCE ConditionVariableLatency
Sem    == INSTANCE SemaphoreLatency
Mpi    == INSTANCE MpiBandwidth

NoAtomics    == flag = FALSE /\ pending = FALSE
NoFlags      == ready = FALSE /\ owner = FALSE
NoSemaphores == count = FALSE /\ named = FALSE
NoMessages   == arrived = FALSE /\ passed = FALSE /\ channel = FALSE /\ recv_buffer = FALSE

Init == \/ type = "atomic" /\ SeqCst!Init /\ NoFlags /\ NoSemaphores /\ NoMessages
        \/ type = "atomic_rel_acq" /\ RelAcq!Init /\ NoFlags /\ NoSemaphores /\ NoMessages
        \/ type = "condition_variable" /\ Cond!Init /\ NoAtomics /\ NoSemaphores /\ NoMessages
        \/ type = "semaphore" /\ Sem!Init /\ NoAtomics /\ NoFlags /\ NoMessages
        \/ type = "mpi" /\ Mpi!Init /\ NoAtomics /\ NoFlags /\ NoSemaphores

Parent ==
    /\ \/ type = "atomic" /\ SeqCst!Parent /\ UNCHANGED <<flags, semaphores, mpi>>
       \/ type = "atomic_rel_acq" /\ RelAcq!Parent /\ UNCHANGED <<flags, semaphores, mpi>>
       \/ type = "condition_variable" /\ Cond!Parent /\ UNCHANGED <<atomics, semaphores, mpi>>
       \/ type = "semaphore" /\ Sem!Parent /\ UNCHANGED <<atomics, flags, mpi>>
       \/ type = "mpi" /\ Mpi!Parent /\ UNCHANGED <<atomics, flags, semaphores>>
    /\ UNCHANGED type

Child ==
    /\ \/ type = "atomic" /\ SeqCst!Child /\ UNCHANGED <<flags, semaphores, mpi>>
       \/ type = "atomic_rel_acq" /\ RelAcq!Child /\ UNCHANGED <<flags, semaphores, mpi>>
       \/ type = "condition_variable" /\ Cond!Child /\ UNCHANGED <<atomics, semaphores, mpi>>
       \/ type = "semaphore" /\ Sem!Child /\ UNCHANGED <<atomics, flags, mpi>>
       \/ type = "mpi" /\ Mpi!Child /\ UNCHANGED <<atomics, flags, semaphores>>
    /\ UNCHANGED type

\* A relaxed store becomes visible.
Visible == /\ type = "atomic_rel_acq" /\ RelAcq!Memory
           /\ UNCHANGED <<type, flags, semaphores, mpi>>

\* A sleeping thread wakes up without a notify.
Spurious == /\ type = "condition_variable" /\ Cond!Memory
            /\ UNCHANGED <<type, atomics, semaphores, mpi>>

Done == AllDone /\ UNCHANGED vars

Next == Parent \/ Child \/ Visible \/ Spurious \/ Done

\* Parent and child keep running, a store becomes visible in finite time, and
\* a mutex that is free again and again is not withheld from a thread for ever
\* by the spurious wake-ups of the other.
Spec == /\ Init /\ [][Next]_vars
        /\ SF_vars(Parent) /\ SF_vars(Child) /\ WF_vars(Visible)
-----------------------------------------------------------------------------
\* Every variable keeps its type, in every benchmark.
TypeOK == /\ type = "atomic" => SeqCst!TypeOK
          /\ type = "atomic_rel_acq" => RelAcq!TypeOK
          /\ type = "condition_variable" => Cond!TypeOK
          /\ type = "semaphore" => Sem!TypeOK
          /\ type = "mpi" => Mpi!TypeOK

(***************************************************************************)
(* A message is never sent while another is on its way: no store follows   *)
(* one that the other thread has not seen (the relaxed stores of           *)
(* atomic_rel_acq_latency.cc:18 could), no flag is set while one is set,   *)
(* no semaphore posted while one is up.  A trip that overlaps another      *)
(* would be counted and not be waited for.                                 *)
(***************************************************************************)
OneInFlight ==
    /\ type \in {"atomic", "atomic_rel_acq"} => RelAcq!InFlight <= 1
    /\ type = "condition_variable" => Cond!InFlight <= 1
    /\ type = "semaphore" => Sem!InFlight <= 1
    /\ type = "mpi" => Mpi!InFlight <= 1

(***************************************************************************)
(* When an iteration begins its channel is as at the first: nobody of the  *)
(* iteration before is still in its loop, and nothing it has sent is left. *)
(* The atomics are not reset between iterations; condition_variable_-      *)
(* latency.cc:89 resets its flags without the mutexes; semaphore_latency.cc*)
(* goes on at once, and with all the iterations behind it has left nothing;*)
(* a rank of mpi_bandwidth.cc:160 verifies a buffer it never clears, which *)
(* must be this iteration's message and the only one.                      *)
(***************************************************************************)
CleanIterations ==
    /\ type \notin {"semaphore", "mpi"} /\ pc["parent"] \in {"create", "done"} =>
          /\ pc["child"] \in {"none", "exit"}
          /\ IF type = "condition_variable" THEN Cond!Quiet ELSE RelAcq!Quiet
    /\ type = "semaphore" /\ pc["parent"] = "measured" => Sem!Quiet
    /\ type = "mpi" => \A p \in Procs : pc[p] = "verify" => Mpi!Quiet(p)

(***************************************************************************)
(* The two are never both waiting: no wake-up is lost between the test of  *)
(* condition_variable_latency.cc:42 and the sleep, no store or post is     *)
(* waited for that nobody will make, and the ranks of mpi_bandwidth.cc,    *)
(* one of which sends first, do not wait for each other whether or not     *)
(* MPI_Send does.                                                          *)
(***************************************************************************)
NoDeadlock ==
    /\ type \in {"atomic", "atomic_rel_acq"} /\ (\A p \in Procs : RelAcq!Blocked(p)) => AllDone
    /\ type = "condition_variable" /\ (\A p \in Procs : Cond!Blocked(p)) => AllDone
    /\ type = "semaphore" /\ (\A p \in Procs : Sem!Blocked(p)) => AllDone
    /\ type = "mpi" /\ (\A p \in Procs : Mpi!Blocked(p)) => AllDone

Pick(a, c, s, m) == CASE type = "condition_variable" -> c
                      [] type = "semaphore" -> s
                      [] type = "mpi" -> m
                      [] OTHER -> a

Abstract == INSTANCE PingPong WITH
    asked    <- Pick(RelAcq!asked, Cond!asked, Sem!asked, Mpi!asked),
    answered <- Pick(RelAcq!answered, Cond!answered, Sem!answered, Mpi!answered),
    seen     <- Pick(RelAcq!seen, Cond!seen, Sem!seen, Mpi!seen)

(***************************************************************************)
(* Each benchmark plays ping-pong: no answer without its message, no next  *)
(* message before the answer has been seen, in all the iterations, whatever*)
(* the memory order, the wake-ups and the scheduling; and every message is *)
(* answered and the answer seen.                                           *)
(***************************************************************************)
ImplementsPingPong == Abstract!FairSpec
=============================================================================
