----------------------------- MODULE MeasuredLoop -----------------------------
(***************************************************************************)
(* The frame of the benchmarks that run in one process, memcpy_bandwidth,  *)
(* memcpy_mt_bandwidth and syscall_latency.cc: num_warmups + num_iterations*)
(* measurements, of which the first num_warmups are not kept, and a result *)
(* calculated from the others.                                             *)
(***************************************************************************)
EXTENDS Integers, Sequences

CONSTANTS NumWarmups, NumIterations,  \* num_warmups, num_iterations
          DataSize,                   \* data_size: bytes of src and dst
          Durations,                  \* what the clock may say of an iteration
          ThreadCounts                \* n_threads, of memcpy_mt

ASSUME MeasuredAssumption == /\ NumWarmups \in Nat
                             /\ NumIterations \in Nat \ {0}
                             /\ DataSize \in Nat
                             /\ Durations \subseteq Nat \ {0}

ASSUME ThreadAssumption == ThreadCounts \subseteq Nat \ {0}

VARIABLES pc,          \* what the main thread does next
          i,           \* the iteration it is in
          durations,   \* of the iterations kept
          dst          \* the bytes of dst that hold those of src; others hold 0

Bytes == 0 .. DataSize - 1

MeasuredInit == i = 0 /\ durations = <<>> /\ dst = {}

\* std::fill(dst.begin(), dst.end(), 0).
Fill(next) == pc = "fill" /\ dst' = {} /\ pc' = next /\ UNCHANGED <<i, durations>>

\* Mutant: num_warmups < i.
EndIteration_Late(first, end) ==
    /\ durations' \in IF NumWarmups < i THEN {Append(durations, d) : d \in Durations}
                                        ELSE {durations}
    /\ i' = i + 1
    /\ pc' = IF i + 1 < NumWarmups + NumIterations THEN first ELSE end

\* The end of an iteration: its duration is kept unless it was a warm-up.
EndIteration(first, end) ==
    /\ durations' \in IF NumWarmups <= i THEN {Append(durations, d) : d \in Durations}
                                         ELSE {durations}
    /\ i' = i + 1
    /\ pc' = IF i + 1 < NumWarmups + NumIterations THEN first ELSE end

\* CalculateBandwidth checks the number of durations against num_iterations.
CalculateBandwidth ==
    /\ pc = "calculate"
    /\ pc' = IF Len(durations) = NumIterations THEN "done" ELSE "aborted"
    /\ UNCHANGED <<i, durations, dst>>

\* CalculateOneTripDuration asks for one duration and computes with two.
CalculateOneTripDuration ==
    /\ pc = "calculate"
    /\ pc' = IF Len(durations) > 1 THEN "done" ELSE "aborted"
    /\ UNCHANGED <<i, durations, dst>>
-----------------------------------------------------------------------------
MeasuredTypeOK == /\ i \in 0 .. NumWarmups + NumIterations
                  /\ durations \in Seq(Durations)
                  /\ Len(durations) <= NumIterations
                  /\ dst \subseteq Bytes
-----------------------------------------------------------------------------
(***************************************************************************)
(* What the inductive invariants of the benchmarks say of their loop.      *)
(***************************************************************************)
\* A duration is kept for every iteration that is over and was no warm-up.
Kept == Len(durations) = IF i <= NumWarmups THEN 0 ELSE i - NumWarmups

\* Running: in an iteration.  Over: after the last one.
Running == i < NumWarmups + NumIterations
Over    == i = NumWarmups + NumIterations
=============================================================================
