-------------------------- MODULE InProcessBenchmarks --------------------------
(***************************************************************************)
(* The benchmarks of akbench.cc that fork no process: the TYPE argument    *)
(* picks one, which runs as its module says, and the result it reports is  *)
(* calculated as Statistics says.                                          *)
(***************************************************************************)
EXTENDS MeasuredLoop, Statistics

VARIABLES type,                 \* the TYPE argument
          n_threads, j, at,     \* of memcpy_mt
          fd                    \* of fstatfs

measured == <<pc, i, durations, dst>>
threads  == <<n_threads, j, at>>
vars     == <<measured, type, threads, fd>>

Memcpy   == INSTANCE MemcpyBandwidth
MemcpyMt == INSTANCE MemcpyMtBandwidth
Syscall  == INSTANCE SyscallLatency

NoThreads == n_threads = FALSE /\ j = FALSE /\ at = FALSE
NoFile    == fd = "none"

Bandwidths == {"bandwidth_memcpy", "bandwidth_memcpy_mt"}

Init == \/ type = "bandwidth_memcpy" /\ Memcpy!Init /\ NoThreads /\ NoFile
        \/ type = "bandwidth_memcpy_mt" /\ MemcpyMt!Init /\ NoFile
        \/ type = "latency_fstatfs" /\ Syscall!Init("open") /\ NoThreads
        \/ type \in {"latency_statfs", "latency_getpid"} /\ Syscall!Init("measure") /\ NoThreads

Main ==
    /\ \/ type = "bandwidth_memcpy" /\ Memcpy!Main /\ UNCHANGED <<threads, fd>>
       \/ type = "bandwidth_memcpy_mt" /\ MemcpyMt!Main /\ UNCHANGED fd
       \/ type = "latency_fstatfs" /\ Syscall!Fstatfs /\ UNCHANGED threads
       \/ /\ type \in {"latency_statfs", "latency_getpid"}
          /\ Syscall!Direct /\ UNCHANGED threads
    /\ UNCHANGED type

\* A thread that copy_chunk runs in.
Worker == type = "bandwidth_memcpy_mt" /\ MemcpyMt!Worker /\ UNCHANGED <<type, fd>>

Done == pc \in {"done", "failed"} /\ UNCHANGED vars

Next == Main \/ Worker \/ Done

\* The threads are scheduled, and their memcpys are finite.
Spec == Init /\ [][Next]_vars /\ WF_vars(Main) /\ WF_vars(Worker)
-----------------------------------------------------------------------------
\* Every variable keeps its type, in every benchmark.
TypeOK == /\ type = "bandwidth_memcpy" => Memcpy!TypeOK
          /\ type = "bandwidth_memcpy_mt" => MemcpyMt!TypeOK
          /\ type \notin Bandwidths => Syscall!TypeOK

\* No two threads of memcpy_mt have the same byte left to copy, and the main
\* thread fills and verifies dst when none is copying (memcpy_mt_bandwidth.cc:23).
RaceFree == type = "bandwidth_memcpy_mt" => MemcpyMt!RaceFree

Seen(value, initial) == IF type \in Bandwidths THEN value ELSE initial

CopyPending == type = "bandwidth_memcpy_mt" /\ MemcpyMt!CopyPending

Abstract == INSTANCE MemcpyBandwidth WITH
    pc        <- Seen(IF CopyPending THEN "copy" ELSE pc, "fill"),
    i         <- Seen(i, 0),
    durations <- Seen(durations, <<>>),
    dst       <- Seen(IF CopyPending THEN {} ELSE dst, {})

(***************************************************************************)
(* memcpy_mt implements memcpy: whatever the threads do between fill and   *)
(* join, what is timed is the copy of every byte, though neither           *)
(* memcpy_bandwidth.cc:25, which verifies src, nor memcpy_mt_bandwidth.cc: *)
(* 51, which only logs, would stop if it were not.                         *)
(***************************************************************************)
ImplementsMemcpy == Abstract!Spec

(***************************************************************************)
(* The bandwidth reported is one the benchmark has seen: not lower than in *)
(* the slowest and not higher than in the fastest iteration it has kept;   *)
(* and its deviation is 0 only if these took the same time (common.cc:105).*)
(***************************************************************************)
BandwidthWithinRange ==
    type \in Bandwidths /\ pc = "done" =>
        /\ Between(Bandwidth(durations, DataSize),
                   {Fraction(DataSize, durations[k]) : k \in DOMAIN durations})
        /\ BandwidthVariance(durations, DataSize).num = 0 <=>
              \A k \in DOMAIN durations : durations[k] = durations[1]

(***************************************************************************)
(* common.cc:116, "Calculate average of filtered durations": the latency   *)
(* reported is not lower than the shortest and not higher than the longest *)
(* of the durations that the filter leaves.                                *)
(***************************************************************************)
LatencyWithinRange ==
    type \notin Bandwidths /\ pc = "done" =>
        Between(OneTrip(durations),
                {Fraction(durations[k], 1) : k \in 2 .. Len(durations) - 1})

\* Every benchmark returns a result; only fstatfs may have none to return.
EveryBenchmarkEnds == <>(pc = "done" \/ (type = "latency_fstatfs" /\ pc = "failed"))
=============================================================================
