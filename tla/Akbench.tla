------------------------------- MODULE Akbench -------------------------------
(***************************************************************************)
(* The akbench program from its command line to its exit status: main of   *)
(* akbench.cc, its two dispatchers and the log filter of aklog.cc.  Of a   *)
(* benchmark only its end is kept: which one it is, and when, is what the  *)
(* modules of the benchmarks and the statements quoted here show.          *)
(***************************************************************************)
EXTENDS CommandLine, Sequences

CONSTANTS Arguments,    \* Arguments[option]: the texts it may be given
          MaxOptions    \* options on one command line

VARIABLES pc,           \* what main does next, or how the program ended
          given,        \* options getopt_long has returned
          options,      \* the g_ variables they set
          type,         \* g_type
          g_log_level,
          calls,        \* the benchmarks still to run, in order
          results,      \* the map of results
          printed,      \* the names of the results on stdout
          status,       \* the exit status
          reported      \* something was written to stderr

vars == <<pc, given, options, type, g_log_level, calls, results, printed, status, reported>>

Init == /\ pc = "options"
        /\ given = 0
        /\ options = Default
        /\ type = ""
        /\ g_log_level = "INFO"
        /\ calls = <<>>
        /\ results = {}
        /\ printed = {}
        /\ status = 0
        /\ reported = FALSE

Severity == [DEBUG |-> 0, INFO |-> 1, WARNING |-> 2, ERROR |-> 3, FATAL |-> 4]

\* AKLOG: a message below the level is dropped, before FATAL aborts.
Shown(level) == Severity[level] >= Severity[g_log_level]

Exit(n) == pc' = "exit" /\ status' = n

\* AKLOG(ERROR) and return 1.
Reject == /\ Exit(1)
          /\ reported' = (reported \/ Shown("ERROR"))
          /\ UNCHANGED <<given, options, type, g_log_level, calls, results, printed>>

\* PrintErrorAndExit, or the message of getopt_long itself.
Complain == /\ Exit(1)
            /\ reported' = TRUE
            /\ UNCHANGED <<given, options, type, g_log_level, calls, results, printed>>
-----------------------------------------------------------------------------
\* One option with its argument; given twice, the last one counts.
Option == /\ pc = "options" /\ given < MaxOptions
          /\ \E option \in DOMAIN Arguments : \E text \in Arguments[option] :
             \E value \in Parse(option, text) :
                \/ value = Invalid /\ Complain
                \/ /\ value # Invalid
                   /\ options' = [options EXCEPT ![option] = value]
                   /\ given' = given + 1
                   /\ UNCHANGED <<pc, type, g_log_level, calls, results, printed,
                                  status, reported>>

\* An unknown option; no positional argument, or more than one.
WrongUsage == pc = "options" /\ Complain

Help == /\ pc = "options"
        /\ Exit(0)
        /\ printed' = {"usage"}
        /\ UNCHANGED <<given, options, type, g_log_level, calls, results, reported>>

\* The only positional argument is the TYPE.
Positional == /\ pc = "options"
              /\ type' \in Types
              /\ pc' = "validate"
              /\ UNCHANGED <<given, options, g_log_level, calls, results, printed,
                             status, reported>>

Validate == /\ pc = "validate"
            /\ IF Rejected(type, options) THEN Reject
               ELSE /\ pc' = "log_level"
                    /\ UNCHANGED <<given, options, type, g_log_level, calls, results,
                                   printed, status, reported>>

\* Mutant: FATAL is a level, too.
SetLogLevel_Fatal ==
    /\ pc = "log_level"
    /\ IF options.log_level \in Levels \cup {"FATAL"}
       THEN /\ g_log_level' = options.log_level
            /\ pc' = "dispatch"
            /\ UNCHANGED <<given, options, type, calls, results, printed, status, reported>>
       ELSE Reject

SetLogLevel ==
    /\ pc = "log_level"
    /\ IF options.log_level \in Levels
       THEN /\ g_log_level' = options.log_level
            /\ pc' = "dispatch"
            /\ UNCHANGED <<given, options, type, calls, results, printed, status, reported>>
       ELSE Reject
-----------------------------------------------------------------------------
Call(name) == [name |-> name, n_threads |-> 0]
MemcpyMt(n) == [name |-> "bandwidth_memcpy_mt", n_threads |-> n]

OneToFour == <<MemcpyMt(1), MemcpyMt(2), MemcpyMt(3), MemcpyMt(4)>>

AllLatencies ==
    <<Call("latency_atomic"), Call("latency_atomic_rel_acq"), Call("latency_barrier"),
      Call("latency_condition_variable"), Call("latency_semaphore"), Call("latency_statfs"),
      Call("latency_fstatfs"), Call("latency_getpid")>>

AllBandwidths ==
    <<Call("bandwidth_memcpy")>> \o OneToFour \o
    <<Call("bandwidth_tcp"), Call("bandwidth_uds"), Call("bandwidth_pipe"),
      Call("bandwidth_fifo"), Call("bandwidth_mq"), Call("bandwidth_mmap"),
      Call("bandwidth_shm")>>

\* What RunLatencyBenchmarks and RunBandwidthBenchmarks call; a TYPE that only
\* begins like theirs matches none of their branches.
CallsOf(t, o) ==
    CASE t = "all" -> AllLatencies \o AllBandwidths
      [] t = "latency_all" -> AllLatencies
      [] t = "bandwidth_all" -> AllBandwidths
      [] t = "bandwidth_memcpy_mt" ->
             IF o.num_threads = Null THEN OneToFour ELSE <<MemcpyMt(o.num_threads)>>
      [] t \in Latencies \cup Transfers \cup {"bandwidth_memcpy"} -> <<Call(t)>>
      [] OTHER -> <<>>

Dispatch == /\ pc = "dispatch"
            /\ IF type \in LatencyTypes \cup BandwidthTypes \cup {"all"}
               THEN /\ calls' = CallsOf(type, options)
                    /\ pc' = "run"
                    /\ UNCHANGED <<given, options, type, g_log_level, results, printed,
                                   status, reported>>
               ELSE Reject
-----------------------------------------------------------------------------
\* num_warmups + num_iterations: beyond the range of int it is undefined, and a
\* build wraps around or computes in a wider register.
Totals(o) == LET n == o.num_warmups + o.num_iterations
             IN  {n} \cup (IF n \in Int32 THEN {} ELSE {n - 2 * (IntMax + 1)})

\* Durations kept by a loop from 0 to total that keeps those from num_warmups on.
Kept(o, total) ==
    LET first == IF o.num_warmups < 0 THEN 0 ELSE o.num_warmups
    IN  IF total > first THEN total - first ELSE 0

\* CalculateOneTripDuration: none is a failed AKCHECK, one is begin() + 1 past
\* end() - 1: the sum runs out of the vector.
LatencyEnds(o, total) ==
    CASE Kept(o, total) = 0 -> {"aborted"}
      [] Kept(o, total) = 1 -> {"crashed"}
      [] OTHER -> {"result"}

\* The verification asks for more than CHECKSUM_SIZE bytes, and CalculateBandwidth
\* for one duration per iteration.
BandwidthEnds(o, total) ==
    IF o.data_size > CHECKSUM_SIZE /\ Kept(o, total) = o.num_iterations
    THEN {"result"} ELSE {"aborted"}

\* latency_barrier counts its warm-ups and iterations apart; without a Wait its
\* processes may poll for ever.
BarrierEnds(o) == {"result"} \cup (IF o.loop_size = 0 THEN {"hung"} ELSE {})

\* fstatfs may fail to open and returns -1.
FstatfsEnds(o, total) == {"result"} \cup LatencyEnds(o, total)

\* memcpy_mt divides by its threads and compares as size_t: a negative bound is
\* never reached, and a negative num_warmups is more than any iteration.
MemcpyMtEnds(n_threads, o, total) ==
    CASE n_threads = 0 -> {"crashed"}
      [] n_threads # 0 /\ total < 0 -> {"hung"}
      [] n_threads # 0 /\ total >= 0 /\ o.num_warmups < 0 -> {"aborted"}
      [] OTHER -> BandwidthEnds(o, total)

\* A buffer of 0 bytes makes the sender of tcp, the first of the transfers, send
\* nothing for ever.
TransferEnds(o, total) ==
    IF total > 0 /\ buffer_size(o) = 0 THEN {"hung"} ELSE BandwidthEnds(o, total)

\* The retrying connect of uds may be answered by the listener of the iteration
\* before, whose close loses the connection: both processes then wait for ever.
UdsEnds(o, total) == TransferEnds(o, total) \cup (IF total > 1 THEN {"hung"} ELSE {})

\* How a call may end.
Ends(call, o, total) ==
    CASE call.name = "latency_barrier" -> BarrierEnds(o)
      [] call.name = "latency_fstatfs" -> FstatfsEnds(o, total)
      [] call.name \in Latencies \ {"latency_barrier", "latency_fstatfs"} ->
             LatencyEnds(o, total)
      [] call.name = "bandwidth_memcpy" -> BandwidthEnds(o, total)
      [] call.name = "bandwidth_memcpy_mt" -> MemcpyMtEnds(call.n_threads, o, total)
      [] call.name = "bandwidth_uds" -> UdsEnds(o, total)
      [] call.name \in Transfers \ {"bandwidth_uds"} -> TransferEnds(o, total)

Run == /\ pc = "run" /\ calls # <<>>
       /\ \E total \in Totals(options) : \E end \in Ends(Head(calls), options, total) :
             IF end = "result"
             THEN /\ results' = results \cup {Head(calls)}
                  /\ calls' = Tail(calls)
                  /\ UNCHANGED <<pc, reported>>
             ELSE /\ pc' = end
                  /\ reported' = (reported \/ (end = "aborted" /\ Shown("FATAL")))
                  /\ UNCHANGED <<results, calls>>
       /\ UNCHANGED <<given, options, type, g_log_level, printed, status>>

\* Text or JSON; of an empty map nothing is printed.
Output == /\ pc = "run" /\ calls = <<>>
          /\ printed' = {result.name : result \in results}
          /\ Exit(0)
          /\ UNCHANGED <<given, options, type, g_log_level, calls, results, reported>>

Over == pc \in {"exit", "aborted", "crashed", "hung"} /\ UNCHANGED vars

Next == \/ Option \/ WrongUsage \/ Help \/ Positional
        \/ Validate \/ SetLogLevel \/ Dispatch \/ Run \/ Output \/ Over

\* main goes on, and a command line has an end.
Spec == Init /\ [][Next]_vars /\ WF_vars(Next)
-----------------------------------------------------------------------------
\* What main lets through and a benchmark then fails on: a negative num_warmups,
\* a sum beyond int, TYPE all with a buffer of 0 bytes, and a barrier that is
\* never waited on.
Unvalidated ==
    \/ options.num_warmups < 0
    \/ options.num_warmups + options.num_iterations > IntMax
    \/ type = "all" /\ options.buffer_size = 0
    \/ type \in {"latency_barrier", "latency_all", "all"} /\ options.loop_size = 0

\* The sender of uds was answered by the listener that is about to be closed.
LostConnection == pc = "hung" /\ calls # <<>> /\ Head(calls).name = "bandwidth_uds"

(***************************************************************************)
(* Whatever the options, the program ends with an exit status of its own:  *)
(* no benchmark that main lets through aborts, crashes or hangs, but for   *)
(* the four combinations that main does not validate (akbench.cc:505-575), *)
(* and for bandwidth_uds, which hangs with any options when it loses its   *)
(* connection to an old listener (uds_bandwidth.cc:143).                   *)
(***************************************************************************)
EndsUnlessKnown ==
    <>(\/ pc = "exit"
       \/ pc \in {"aborted", "crashed", "hung"} /\ (Unvalidated \/ LostConnection))

\* The benchmarks that the usage text lists under TYPE.
Promised == CASE type = "all" -> Latencies \cup Memcpys \cup Transfers
              [] type = "latency_all" -> Latencies
              [] type = "bandwidth_all" -> Memcpys \cup Transfers
              [] type \in Latencies \cup Memcpys \cup Transfers -> {type}
              [] OTHER -> {}

(***************************************************************************)
(* The exit status is true: 0 means that the usage or every result that it *)
(* promises for this TYPE was printed (of a misspelt latency_ or bandwidth_*)
(* TYPE that is none); 1 and an abort leave a message on stderr, whatever  *)
(* --log-level filters, because FATAL is no level one can set.             *)
(***************************************************************************)
ExitStatusIsTrue ==
    /\ pc = "exit" /\ status = 0 => printed \in {{"usage"}, Promised}
    /\ pc = "aborted" \/ status = 1 => reported
=============================================================================
