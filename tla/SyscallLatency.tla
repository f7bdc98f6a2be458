---------------------------- MODULE SyscallLatency ----------------------------
(***************************************************************************)
(* syscall_latency.cc: statfs and getpid, which only measure, and fstatfs, *)
(* which opens the current directory first and may fail to.                *)
(***************************************************************************)
EXTENDS MeasuredLoop

VARIABLE fd      \* the descriptor of fstatfs: "none", "open", "closed"

vars == <<pc, i, durations, dst, fd>>

Init(first) == MeasuredInit /\ pc = first /\ fd = "none"

\* open("."); when it fails {-1.0, 0.0} is returned and nothing measured.
Open == /\ pc = "open"
        /\ \/ fd' = "open" /\ pc' = "measure"
           \/ fd' = "none" /\ pc' = "failed"
        /\ UNCHANGED <<i, durations, dst>>

\* loop_size calls, whose results nobody looks at.
Measure(end) ==
    /\ pc = "measure"
    /\ EndIteration("measure", end)
    /\ UNCHANGED <<dst, fd>>

Close == /\ pc = "close"
         /\ fd' = "closed"
         /\ pc' = "calculate"
         /\ UNCHANGED <<i, durations, dst>>

Calculate == CalculateOneTripDuration /\ UNCHANGED fd

Fstatfs == Open \/ Measure("close") \/ Close \/ Calculate
Direct  == Measure("calculate") \/ Calculate
-----------------------------------------------------------------------------
\* Every variable keeps its type, and no descriptor stays open.
TypeOK == /\ MeasuredTypeOK
          /\ pc \in {"open", "measure", "close", "calculate", "done", "failed"}
          /\ fd \in {"none", "open", "closed"}
          /\ pc \in {"done", "failed"} => fd # "open"
=============================================================================
