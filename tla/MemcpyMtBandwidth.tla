--------------------------- MODULE MemcpyMtBandwidth ---------------------------
(***************************************************************************)
(* memcpy_mt_bandwidth.cc: in every iteration the main thread clears dst,  *)
(* makes n_threads threads, each of which copies its chunk of src, joins   *)
(* them and verifies dst.  Only the division into chunks keeps the threads *)
(* apart.  A memcpy goes byte by byte.                                     *)
(***************************************************************************)
EXTENDS MeasuredLoop

VARIABLES n_threads,     \* the parameter
          j,             \* threads made in this iteration
          at             \* at[t]: the byte that thread t copies next

measured == <<pc, i, durations, dst>>
threads  == <<n_threads, j, at>>
vars     == <<measured, threads>>

Ids == 0 .. n_threads - 1

chunk_size == DataSize \div n_threads

Start(t) == t * chunk_size

\* Mutant: every thread copies one byte more.
End_OneMore(t) == IF t = n_threads - 1 THEN DataSize ELSE Start(t) + chunk_size + 1

\* Mutant: the last thread, too, copies chunk_size bytes.
End_NoRest(t) == Start(t) + chunk_size

\* The last thread copies what the division leaves over.
End(t) == IF t = n_threads - 1 THEN DataSize ELSE Start(t) + chunk_size

Copying(t) == t < j /\ at[t] < End(t)

Init == /\ MeasuredInit
        /\ pc = "fill"
        /\ n_threads \in ThreadCounts
        /\ j = 0
        /\ at = [t \in Ids |-> 0]

Clear == Fill("spawn") /\ j' = 0 /\ UNCHANGED <<n_threads, at>>

\* threads.emplace_back(copy_chunk, j).
Spawn == /\ pc = "spawn"
         /\ at' = [at EXCEPT ![j] = Start(j)]
         /\ j' = j + 1
         /\ pc' = IF j + 1 < n_threads THEN "spawn" ELSE "join"
         /\ UNCHANGED <<i, durations, dst, n_threads>>

\* One byte of the memcpy of copy_chunk(t).
Copy(t) == /\ Copying(t)
           /\ dst' = dst \cup {at[t]}
           /\ at' = [at EXCEPT ![t] = @ + 1]
           /\ UNCHANGED <<pc, i, durations, n_threads, j>>

\* join of one thread after the other.
Join == /\ pc = "join"
        /\ \A t \in Ids : ~Copying(t)
        /\ pc' = "verify"
        /\ UNCHANGED <<i, durations, dst, threads>>

\* The duration is kept; what VerifyDataReceived says is only logged.
Verify == /\ pc = "verify"
          /\ EndIteration("fill", "calculate")
          /\ UNCHANGED <<dst, threads>>

Calculate == CalculateBandwidth /\ UNCHANGED threads

Main == Clear \/ Spawn \/ Join \/ Verify \/ Calculate
Worker == \E t \in Ids : Copy(t)

Next == Main \/ Worker

Spec == Init /\ [][Next]_vars
-----------------------------------------------------------------------------
\* Every variable keeps its type.
TypeOK == /\ MeasuredTypeOK
          /\ pc \in {"fill", "spawn", "join", "verify", "calculate", "done"}
          /\ n_threads \in ThreadCounts
          /\ j \in 0 .. n_threads
          /\ at \in [Ids -> 0 .. DataSize]

(***************************************************************************)
(* No two threads have the same byte left to copy, and the main thread     *)
(* fills and verifies dst when none is copying (memcpy_mt_bandwidth.cc:23).*)
(***************************************************************************)
RaceFree ==
    /\ \A s, t \in Ids :
          s # t /\ Copying(s) /\ Copying(t) =>
              \A b \in at[s] .. End(s) - 1 : b \notin at[t] .. End(t) - 1
    /\ pc \notin {"spawn", "join"} => \A t \in Ids : ~Copying(t)

(***************************************************************************)
(* The threads have copied every byte when the time is taken, however many *)
(* they are: more than the bytes, or not dividing their number.            *)
(***************************************************************************)
FullCopy == pc = "verify" => dst = Bytes

\* From fill to join the threads stand for one memcpy that is still to come.
CopyPending == pc \in {"spawn", "join"}

Abstract == INSTANCE MemcpyBandwidth WITH
    pc  <- IF CopyPending THEN "copy" ELSE pc,
    dst <- IF CopyPending THEN {} ELSE dst

(***************************************************************************)
(* memcpy_mt implements memcpy: spawn, the interleaved copies of the       *)
(* threads and join are, together, the one memcpy of memcpy_bandwidth.cc:21*)
(* in an otherwise equal benchmark.                                        *)
(***************************************************************************)
ImplementsMemcpy == Abstract!Spec
=============================================================================
