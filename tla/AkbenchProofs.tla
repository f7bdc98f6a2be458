----------------------------- MODULE AkbenchProofs -----------------------------
(***************************************************************************)
(* Proofs about the program of akbench.cc, for every width of its          *)
(* integers, every set of texts on its command line and every number of    *)
(* options: its exit status is true, and it ends by an abort, a crash or a *)
(* hang only with one of the options that main does not validate, or when  *)
(* uds loses its connection.                                               *)
(***************************************************************************)
EXTENDS Akbench, TLAPS, FiniteSetTheorems

Failures == {"aborted", "crashed", "hung"}

\* Where main is: before it calls a benchmark, and where it has accepted the options.
Before   == {"options", "validate", "log_level", "dispatch"}
Accepted == {"log_level", "dispatch", "run"} \cup Failures

Benchmarks == Latencies \cup Memcpys \cup Transfers

\* The calls that main can make with these options.
Threads    == {0, 1, 2, 3, 4, options.num_threads}
CallSet    == [name : Benchmarks, n_threads : Threads]

\* The benchmarks that a list of calls names.
NamesOf(s) == {s[k].name : k \in 1 .. Len(s)}

\* memcpy_mt is called with a number of threads.
Threaded(call) == call.name = "bandwidth_memcpy_mt" => call.n_threads # 0

\* The options that are compared with other numbers are numbers.
OptionsInv ==
    /\ {"num_iterations", "num_warmups", "data_size"} \subseteq DOMAIN options
    /\ options.num_iterations \in Int /\ options.num_warmups \in Int
    /\ options.data_size \in Int

\* While the benchmarks run, what is done and what is to do make what is promised.
RunInv ==
    /\ pc \in Before => results = {}
    /\ pc = "run" =>
          /\ calls \in Seq(CallSet)
          /\ \A k \in 1 .. Len(calls) : Threaded(calls[k])
          /\ {result.name : result \in results} \cup NamesOf(calls) = Promised

\* The level never filters an ERROR, and the status is 0 until the program ends.
StatusInv ==
    /\ g_log_level \in Levels
    /\ pc \in Before \cup {"run"} \cup Failures => status = 0
    /\ ExitStatusIsTrue

\* Whoever fails has been validated, and owes it to what is not or to uds.
FailInv ==
    /\ pc \in Accepted => ~Rejected(type, options)
    /\ pc \in Failures => Unvalidated \/ LostConnection

(***************************************************************************)
(* The inductive invariant.                                                *)
(***************************************************************************)
IInv == /\ pc \in Before \cup {"run", "exit"} \cup Failures
        /\ OptionsInv
        /\ RunInv
        /\ StatusInv
        /\ FailInv
-----------------------------------------------------------------------------
\* The provers know nothing of powers, but there are as many subsets of 1 .. n.
LEMMA PowerOfTwo ==
    ASSUME NEW n \in Nat
    PROVE  2^n \in Nat \ {0}
<1> DEFINE S == 1 .. n
<1>1. IsFiniteSet(S) /\ Cardinality(S) = n
  BY FS_Interval
<1>2. IsFiniteSet(SUBSET S) /\ Cardinality(SUBSET S) = 2^n
  BY <1>1, FS_SUBSET
<1>3. SUBSET S # {}
  OBVIOUS
<1>4. Cardinality(SUBSET S) \in Nat /\ Cardinality(SUBSET S) # 0
  BY <1>2, <1>3, FS_EmptySet, FS_CardinalityType
<1> QED
  BY <1>2, <1>4

\* A shift is an integer whatever becomes of the bits above the width.
LEMMA ShiftsAreIntegers ==
    ASSUME NEW base \in Int, NEW shift \in Nat
    PROVE  ShiftLeft(base, shift) \subseteq Int
<1>1. Width \in Nat \ {0}
  BY CommandLineAssumption DEF CommandLineAssumption
<1>2. 2^Width \in Nat \ {0}
  BY <1>1, PowerOfTwo
<1>3. shift % Width \in Nat
  BY <1>1
<1>4. base * 2^(shift % Width) \in Int
  BY <1>3, PowerOfTwo
<1>5. (base * 2^(shift % Width)) % 2^Width \in Int
  BY <1>2, <1>4
<1> QED
  BY <1>5 DEF ShiftLeft

\* ParseUint64 returns a number when it returns and is not std::nullopt.
LEMMA NumbersAreIntegers ==
    ASSUME NEW text, NEW value \in ParseUint64(text), value \notin {Null, Invalid}
    PROVE  value \in Int
<1>1. CASE text.kind = "empty"
  BY <1>1 DEF ParseUint64
<1>2. CASE text.kind = "number" /\ text.value \in Uint64
  BY <1>2 DEF ParseUint64, Uint64
<1>3. CASE text.kind = "shift" /\ text.base \in Uint64 /\ text.shift \in Uint64
  <2>1. text.base \in Int /\ text.shift \in Nat
    BY <1>3 DEF Uint64
  <2>2. value \in ShiftLeft(text.base, text.shift)
    BY <1>3 DEF ParseUint64
  <2> QED
    BY <2>1, <2>2, ShiftsAreIntegers
<1> QED
  BY <1>1, <1>2, <1>3 DEF ParseUint64

\* So do the three options that must be numbers.
LEMMA ParsedAreIntegers ==
    ASSUME NEW option \in {"num_iterations", "num_warmups", "data_size"}, NEW text,
           NEW value \in Parse(option, text), value # Invalid
    PROVE  value \in Int
<1>1. CASE option \in {"num_iterations", "num_warmups"}
  BY <1>1 DEF Parse, ParseInt, Int32
<1>2. CASE option = "data_size"
  <2>1. value \in ParseSize(text)
    BY <1>2 DEF Parse
  <2>2. PICK v \in ParseUint64(text) : value = IF v = Null THEN Invalid ELSE v
    BY <2>1 DEF ParseSize
  <2> QED
    BY <2>2, NumbersAreIntegers
<1> QED
  BY <1>1, <1>2
-----------------------------------------------------------------------------
\* The names of no calls.
LEMMA NamesOfNone == NamesOf(<<>>) = {}
  BY DEF NamesOf

\* The names of two lists in a row.
LEMMA NamesOfConcat ==
    ASSUME NEW s \in Seq(CallSet), NEW t \in Seq(CallSet)
    PROVE  NamesOf(s \o t) = NamesOf(s) \cup NamesOf(t)
<1>1. ASSUME NEW n \in NamesOf(s \o t)
      PROVE  n \in NamesOf(s) \cup NamesOf(t)
  <2>1. PICK k \in 1 .. Len(s \o t) : n = (s \o t)[k].name
    BY DEF NamesOf
  <2>2. CASE k <= Len(s)
    BY <2>1, <2>2 DEF NamesOf
  <2>3. CASE k > Len(s)
    <3>1. k - Len(s) \in 1 .. Len(t) /\ (s \o t)[k] = t[k - Len(s)]
      BY <2>1, <2>3
    <3> QED
      BY <2>1, <3>1 DEF NamesOf
  <2> QED
    BY <2>2, <2>3
<1>2. ASSUME NEW n \in NamesOf(s)
      PROVE  n \in NamesOf(s \o t)
  <2>1. PICK k \in 1 .. Len(s) : n = s[k].name
    BY DEF NamesOf
  <2>2. k \in 1 .. Len(s \o t) /\ (s \o t)[k] = s[k]
    OBVIOUS
  <2> QED
    BY <2>1, <2>2 DEF NamesOf
<1>3. ASSUME NEW n \in NamesOf(t)
      PROVE  n \in NamesOf(s \o t)
  <2>1. PICK k \in 1 .. Len(t) : n = t[k].name
    BY DEF NamesOf
  <2>2. Len(s) + k \in 1 .. Len(s \o t) /\ (s \o t)[Len(s) + k] = t[k]
    OBVIOUS
  <2> QED
    BY <2>1, <2>2 DEF NamesOf
<1> QED
  BY <1>1, <1>2, <1>3

\* The name of the first call and those of the rest.
LEMMA NamesOfTail ==
    ASSUME NEW s \in Seq(CallSet), s # <<>>
    PROVE  NamesOf(s) = {Head(s).name} \cup NamesOf(Tail(s))
<1>1. ASSUME NEW n \in NamesOf(s)
      PROVE  n \in {Head(s).name} \cup NamesOf(Tail(s))
  <2>1. PICK k \in 1 .. Len(s) : n = s[k].name
    BY DEF NamesOf
  <2>2. CASE k = 1
    BY <2>1, <2>2
  <2>3. CASE k # 1
    <3>1. k - 1 \in 1 .. Len(Tail(s)) /\ Tail(s)[k - 1] = s[k]
      BY <2>3
    <3> QED
      BY <2>1, <3>1 DEF NamesOf
  <2> QED
    BY <2>2, <2>3
<1>2. Head(s).name \in NamesOf(s)
  <2>1. 1 \in 1 .. Len(s) /\ Head(s) = s[1]
    OBVIOUS
  <2> QED
    BY <2>1 DEF NamesOf
<1>3. ASSUME NEW n \in NamesOf(Tail(s))
      PROVE  n \in NamesOf(s)
  <2>1. PICK k \in 1 .. Len(Tail(s)) : n = Tail(s)[k].name
    BY DEF NamesOf
  <2>2. k + 1 \in 1 .. Len(s) /\ Tail(s)[k] = s[k + 1]
    OBVIOUS
  <2> QED
    BY <2>1, <2>2 DEF NamesOf
<1> QED
  BY <1>1, <1>2, <1>3
-----------------------------------------------------------------------------
\* What latency_all calls.
LEMMA LatencyCalls ==
    /\ AllLatencies \in Seq(CallSet)
    /\ \A k \in 1 .. Len(AllLatencies) : Threaded(AllLatencies[k])
    /\ NamesOf(AllLatencies) = Latencies
<1>1. AllLatencies \in Seq(CallSet)
  BY DEF AllLatencies, Call, CallSet, Threads, Benchmarks, Latencies
<1>2. \A k \in 1 .. Len(AllLatencies) : Threaded(AllLatencies[k])
  BY DEF AllLatencies, Call, Threaded
<1>3. NamesOf(AllLatencies) = Latencies
  BY DEF AllLatencies, Call, NamesOf, Latencies
<1> QED
  BY <1>1, <1>2, <1>3

\* What bandwidth_memcpy_mt calls without --num-threads.
LEMMA MemcpyMtCalls ==
    /\ OneToFour \in Seq(CallSet)
    /\ \A k \in 1 .. Len(OneToFour) : Threaded(OneToFour[k])
    /\ NamesOf(OneToFour) = {"bandwidth_memcpy_mt"}
<1>1. OneToFour \in Seq(CallSet)
  BY DEF OneToFour, MemcpyMt, CallSet, Threads, Benchmarks, Memcpys
<1>2. \A k \in 1 .. Len(OneToFour) : Threaded(OneToFour[k])
  BY DEF OneToFour, MemcpyMt, Threaded
<1>3. NamesOf(OneToFour) = {"bandwidth_memcpy_mt"}
  BY DEF OneToFour, MemcpyMt, NamesOf
<1> QED
  BY <1>1, <1>2, <1>3

\* Two lists of calls in a row are one.
LEMMA CallsConcat ==
    ASSUME NEW s \in Seq(CallSet), NEW t \in Seq(CallSet),
           \A k \in 1 .. Len(s) : Threaded(s[k]),
           \A k \in 1 .. Len(t) : Threaded(t[k])
    PROVE  /\ s \o t \in Seq(CallSet)
           /\ \A k \in 1 .. Len(s \o t) : Threaded((s \o t)[k])
<1>1. ASSUME NEW k \in 1 .. Len(s \o t)
      PROVE  Threaded((s \o t)[k])
  <2>1. CASE k <= Len(s)
    <3>1. (s \o t)[k] = s[k] /\ k \in 1 .. Len(s)
      BY <1>1, <2>1
    <3> QED
      BY <3>1
  <2>2. CASE k > Len(s)
    <3>1. (s \o t)[k] = t[k - Len(s)] /\ k - Len(s) \in 1 .. Len(t)
      BY <1>1, <2>2
    <3> QED
      BY <3>1
  <2> QED
    BY <2>1, <2>2
<1> QED
  BY <1>1

\* What bandwidth_all calls.
LEMMA BandwidthCalls ==
    /\ AllBandwidths \in Seq(CallSet)
    /\ \A k \in 1 .. Len(AllBandwidths) : Threaded(AllBandwidths[k])
    /\ NamesOf(AllBandwidths) = Memcpys \cup Transfers
<1> DEFINE first == <<Call("bandwidth_memcpy")>>
           last  == <<Call("bandwidth_tcp"), Call("bandwidth_uds"), Call("bandwidth_pipe"),
                      Call("bandwidth_fifo"), Call("bandwidth_mq"), Call("bandwidth_mmap"),
                      Call("bandwidth_shm")>>
<1>1. /\ first \in Seq(CallSet)
      /\ \A k \in 1 .. Len(first) : Threaded(first[k])
      /\ NamesOf(first) = {"bandwidth_memcpy"}
  BY DEF Call, CallSet, Threads, Benchmarks, Memcpys, Threaded, NamesOf
<1>2. last \in Seq(CallSet)
  BY DEF Call, CallSet, Threads, Benchmarks, Transfers
<1>3. \A k \in 1 .. Len(last) : Threaded(last[k])
  BY DEF Call, Threaded
<1>4. NamesOf(last) = Transfers
  BY DEF Call, Transfers, NamesOf
<1>5. AllBandwidths = (first \o OneToFour) \o last
  BY DEF AllBandwidths
<1>6. /\ first \o OneToFour \in Seq(CallSet)
      /\ \A k \in 1 .. Len(first \o OneToFour) : Threaded((first \o OneToFour)[k])
      /\ NamesOf(first \o OneToFour) = Memcpys
  <2> HIDE DEF first
  <2>1. NamesOf(first \o OneToFour) = {"bandwidth_memcpy"} \cup {"bandwidth_memcpy_mt"}
    BY <1>1, MemcpyMtCalls, NamesOfConcat
  <2> QED
    BY <1>1, <2>1, MemcpyMtCalls, CallsConcat DEF Memcpys
<1> HIDE DEF first, last
<1> QED
  BY <1>2, <1>3, <1>4, <1>5, <1>6, CallsConcat, NamesOfConcat

\* The dispatchers call what is promised for a TYPE, and nothing else.
LEMMA DispatchedCalls ==
    ASSUME ~Rejected(type, options), type \in LatencyTypes \cup BandwidthTypes \cup {"all"}
    PROVE  /\ CallsOf(type, options) \in Seq(CallSet)
           /\ \A k \in 1 .. Len(CallsOf(type, options)) : Threaded(CallsOf(type, options)[k])
           /\ NamesOf(CallsOf(type, options)) = Promised
<1>1. CASE type = "all"
  <2>1. CallsOf(type, options) = AllLatencies \o AllBandwidths
    BY <1>1 DEF CallsOf, Latencies, Transfers, Memcpys
  <2>2. Promised = Latencies \cup (Memcpys \cup Transfers)
    BY <1>1 DEF Promised, Latencies, Transfers, Memcpys
  <2> QED
    BY <2>1, <2>2, LatencyCalls, BandwidthCalls, CallsConcat, NamesOfConcat
<1>2. CASE type = "latency_all"
  <2>1. CallsOf(type, options) = AllLatencies /\ Promised = Latencies
    BY <1>2 DEF CallsOf, Promised, Latencies, Transfers, Memcpys
  <2> QED
    BY <2>1, LatencyCalls
<1>3. CASE type = "bandwidth_all"
  <2>1. CallsOf(type, options) = AllBandwidths /\ Promised = Memcpys \cup Transfers
    BY <1>3 DEF CallsOf, Promised, Latencies, Transfers, Memcpys
  <2> QED
    BY <2>1, BandwidthCalls
<1>4. CASE type = "bandwidth_memcpy_mt"
  <2>1. Promised = {"bandwidth_memcpy_mt"}
    BY <1>4 DEF Promised, Memcpys
  <2>2. CASE options.num_threads = Null
    <3>1. CallsOf(type, options) = OneToFour
      BY <1>4, <2>2 DEF CallsOf, Latencies, Transfers, Memcpys
    <3> QED
      BY <2>1, <3>1, MemcpyMtCalls
  <2>3. CASE options.num_threads # Null
    <3>1. CallsOf(type, options) = <<MemcpyMt(options.num_threads)>>
      BY <1>4, <2>3 DEF CallsOf, Latencies, Transfers, Memcpys
    <3>2. options.num_threads # 0
      BY DEF Rejected
    <3>3. <<MemcpyMt(options.num_threads)>> \in Seq(CallSet)
      BY DEF MemcpyMt, CallSet, Threads, Benchmarks, Memcpys
    <3>4. NamesOf(<<MemcpyMt(options.num_threads)>>) = {"bandwidth_memcpy_mt"}
      BY DEF MemcpyMt, NamesOf
    <3>5. \A k \in 1 .. Len(<<MemcpyMt(options.num_threads)>>) :
             Threaded(<<MemcpyMt(options.num_threads)>>[k])
      BY <3>2 DEF MemcpyMt, Threaded
    <3> QED
      BY <2>1, <3>1, <3>3, <3>4, <3>5
  <2> QED
    BY <2>2, <2>3
<1>5. CASE type \in Latencies \cup Transfers \cup {"bandwidth_memcpy"}
  <2>1. CallsOf(type, options) = <<Call(type)>> /\ Promised = {type}
    BY <1>5 DEF CallsOf, Promised, Latencies, Transfers, Memcpys
  <2>2. <<Call(type)>> \in Seq(CallSet)
    BY <1>5 DEF Call, CallSet, Threads, Benchmarks, Memcpys
  <2>3. NamesOf(<<Call(type)>>) = {type}
    BY DEF Call, NamesOf
  <2>4. \A k \in 1 .. Len(<<Call(type)>>) : Threaded(<<Call(type)>>[k])
    BY <1>5 DEF Call, Threaded, Latencies, Transfers
  <2> QED
    BY <2>1, <2>2, <2>3, <2>4
<1>6. CASE type \in {"latency_misspelt", "bandwidth_misspelt"}
  <2>1. CallsOf(type, options) = <<>> /\ Promised = {}
    BY <1>6 DEF CallsOf, Promised, Latencies, Transfers, Memcpys
  <2> QED
    BY <2>1, NamesOfNone
<1> QED
  BY <1>1, <1>2, <1>3, <1>4, <1>5, <1>6 DEF LatencyTypes, BandwidthTypes, Memcpys
-----------------------------------------------------------------------------
\* A benchmark returns, aborts, crashes or hangs.
LEMMA EndKinds ==
    ASSUME NEW call \in CallSet, NEW total, NEW end \in Ends(call, options, total)
    PROVE  end \in {"result"} \cup Failures
<1>1. LatencyEnds(options, total) \subseteq {"result"} \cup Failures
  BY DEF LatencyEnds, Failures
<1>2. BandwidthEnds(options, total) \subseteq {"result"} \cup Failures
  BY DEF BandwidthEnds, Failures
<1>3. TransferEnds(options, total) \subseteq {"result"} \cup Failures
  BY <1>2 DEF TransferEnds, Failures
<1>4. CASE call.name = "latency_barrier"
  BY <1>4 DEF Ends, BarrierEnds, Failures, Latencies, Transfers
<1>5. CASE call.name = "latency_fstatfs"
  BY <1>1, <1>5 DEF Ends, FstatfsEnds, Latencies, Transfers
<1>6. CASE call.name \in Latencies \ {"latency_barrier", "latency_fstatfs"}
  BY <1>1, <1>6 DEF Ends, Latencies, Transfers
<1>7. CASE call.name = "bandwidth_memcpy"
  BY <1>2, <1>7 DEF Ends, Latencies, Transfers
<1>8. CASE call.name = "bandwidth_memcpy_mt"
  <2>1. MemcpyMtEnds(call.n_threads, options, total) \subseteq {"result"} \cup Failures
    BY <1>2 DEF MemcpyMtEnds, Failures
  <2> QED
    BY <1>8, <2>1 DEF Ends, Latencies, Transfers
<1>9. CASE call.name = "bandwidth_uds"
  <2>1. UdsEnds(options, total) \subseteq {"result"} \cup Failures
    BY <1>3 DEF UdsEnds, Failures
  <2> QED
    BY <1>9, <2>1 DEF Ends, Latencies, Transfers
<1>10. CASE call.name \in Transfers \ {"bandwidth_uds"}
  BY <1>3, <1>10 DEF Ends, Latencies, Transfers
<1> QED
  BY <1>4, <1>5, <1>6, <1>7, <1>8, <1>9, <1>10 DEF CallSet, Benchmarks, Memcpys

\* With options that are validated, all of them, it returns, unless uds hangs.
LEMMA ValidatedCallsReturn ==
    ASSUME OptionsInv, ~Rejected(type, options), ~Unvalidated,
           NEW call \in CallSet, call.name \in Promised, Threaded(call),
           NEW total \in Totals(options), NEW end \in Ends(call, options, total)
    PROVE  end = "result" \/ (end = "hung" /\ call.name = "bandwidth_uds")
<1> DEFINE w == options.num_warmups
           n == options.num_iterations
<1>1. w \in Int /\ n \in Int /\ IntMax \in Nat
  BY CommandLineAssumption DEF OptionsInv, CommandLineAssumption
<1>2. w >= 0 /\ n >= 3 /\ w + n <= IntMax
  <2>1. ~(n < 3)
    BY DEF Rejected, TooFewIterations
  <2>2. ~(w < 0) /\ ~(w + n > IntMax)
    BY DEF Unvalidated
  <2> QED
    BY <1>1, <2>1, <2>2
<1>3. total = w + n
  BY <1>1, <1>2 DEF Totals, Int32
<1>4. Kept(options, total) = n
  BY <1>1, <1>2, <1>3 DEF Kept
<1>5. LatencyEnds(options, total) = {"result"}
  BY <1>1, <1>2, <1>4 DEF LatencyEnds
<1>6. CASE call.name = "latency_barrier"
  <2>1. type \in {"latency_barrier", "latency_all", "all"}
    BY <1>6 DEF Promised, Latencies, Memcpys, Transfers
  <2>2. options.loop_size # 0
    BY <2>1 DEF Unvalidated
  <2> QED
    BY <1>6, <2>2 DEF Ends, BarrierEnds, Latencies, Transfers
<1>7. CASE call.name = "latency_fstatfs"
  BY <1>5, <1>7 DEF Ends, FstatfsEnds, Latencies, Transfers
<1>8. CASE call.name \in Latencies \ {"latency_barrier", "latency_fstatfs"}
  BY <1>5, <1>8 DEF Ends, Latencies, Transfers
<1>9. CASE call.name \in Memcpys \cup Transfers
  <2>1. type \in BandwidthTypes \cup {"all"}
    BY <1>9 DEF Promised, Latencies, Memcpys, Transfers, BandwidthTypes
  <2>2. options.data_size > CHECKSUM_SIZE
    <3>1. ~(options.data_size <= CHECKSUM_SIZE)
      BY <2>1 DEF Rejected, WrongData
    <3> QED
      BY <3>1, CommandLineAssumption DEF OptionsInv, CommandLineAssumption
  <2>3. BandwidthEnds(options, total) = {"result"}
    BY <1>4, <2>2 DEF BandwidthEnds
  <2>4. CASE call.name = "bandwidth_memcpy"
    BY <2>3, <2>4 DEF Ends, Latencies, Transfers
  <2>5. CASE call.name = "bandwidth_memcpy_mt"
    <3>1. MemcpyMtEnds(call.n_threads, options, total) = {"result"}
      BY <1>1, <1>2, <1>3, <2>3, <2>5 DEF Threaded, MemcpyMtEnds
    <3> QED
      BY <2>5, <3>1 DEF Ends, Latencies, Transfers
  <2>6. CASE call.name \in Transfers
    <3>1. buffer_size(options) # 0
      <4>1. CASE type = "all"
        BY <4>1, CommandLineAssumption DEF Unvalidated, buffer_size, CommandLineAssumption
      <4>2. CASE type # "all"
        <5>1. type \in BandwidthTypes \ Memcpys
          BY <2>1, <2>6, <4>2 DEF Promised, Latencies, Memcpys, Transfers, BandwidthTypes
        <5> QED
          BY <5>1 DEF Rejected, WrongBuffer
      <4> QED
        BY <4>1, <4>2
    <3>2. TransferEnds(options, total) = {"result"}
      BY <2>3, <3>1 DEF TransferEnds
    <3>3. CASE call.name = "bandwidth_uds"
      <4>1. end \in UdsEnds(options, total)
        BY <3>3 DEF Ends, Latencies, Transfers
      <4> QED
        BY <3>2, <3>3, <4>1 DEF UdsEnds
    <3>4. CASE call.name # "bandwidth_uds"
      BY <2>6, <3>2, <3>4 DEF Ends, Latencies, Transfers
    <3> QED
      BY <3>3, <3>4
  <2> QED
    BY <1>9, <2>4, <2>5, <2>6 DEF Memcpys
<1> QED
  BY <1>6, <1>7, <1>8, <1>9 DEF CallSet, Benchmarks
-----------------------------------------------------------------------------
\* No level that one can set filters an error.
LEMMA ErrorsAreShown ==
    ASSUME g_log_level \in Levels
    PROVE  Shown("ERROR") /\ Shown("FATAL")
  BY DEF Levels, Shown, Severity

\* The program starts with defaults of the right types.
LEMMA InitIInv ==
    ASSUME Init
    PROVE  IInv
<1>1. OptionsInv
  <2>1. /\ DOMAIN Default = {"num_iterations", "num_warmups", "data_size", "loop_size",
                             "buffer_size", "num_threads", "log_level"}
        /\ Default.num_iterations \in Int32 /\ Default.num_warmups \in Int32
        /\ Default.data_size \in Uint64
    BY DefaultAssumption DEF DefaultAssumption
  <2>2. Int32 \subseteq Int /\ Uint64 \subseteq Int
    BY DEF Int32, Uint64
  <2> QED
    BY <2>1, <2>2 DEF Init, OptionsInv
<1>2. RunInv
  BY DEF Init, RunInv
<1>3. StatusInv
  <2>1. pc = "options" /\ status = 0 /\ g_log_level = "INFO"
    BY DEF Init
  <2> QED
    BY <2>1 DEF StatusInv, ExitStatusIsTrue, Levels
<1>4. FailInv
  BY DEF Init, FailInv, Accepted, Failures
<1> QED
  BY <1>1, <1>2, <1>3, <1>4 DEF Init, IInv, Before

\* The ways to end with status 1.
LEMMA RejectKeeps ==
    ASSUME IInv, Reject
    PROVE  IInv'
<1>1. reported' = TRUE
  BY ErrorsAreShown DEF IInv, StatusInv, Reject
<1>2. OptionsInv'
  BY DEF IInv, Reject, OptionsInv
<1> QED
  BY <1>1, <1>2 DEF IInv, Reject, Exit, RunInv, StatusInv, FailInv, ExitStatusIsTrue, Before,
     Accepted, Failures

\* With a message of getopt_long or PrintErrorAndExit.
LEMMA ComplainKeeps ==
    ASSUME IInv, Complain
    PROVE  IInv'
<1>1. OptionsInv'
  BY DEF IInv, Complain, OptionsInv
<1> QED
  BY <1>1 DEF IInv, Complain, Exit, RunInv, StatusInv, FailInv, ExitStatusIsTrue, Before,
     Accepted, Failures

\* An option sets a variable to a value of its type, or ends the program.
LEMMA OptionKeeps ==
    ASSUME IInv, Option
    PROVE  IInv'
<1> DEFINE Sets(option, value) ==
              /\ value # Invalid
              /\ options' = [options EXCEPT ![option] = value]
              /\ UNCHANGED <<pc, type, g_log_level, calls, results, printed, status, reported>>
<1>1. pc = "options"
  BY DEF Option
<1>2. PICK option \in DOMAIN Arguments : \E text \in Arguments[option] :
         \E value \in Parse(option, text) : Complain \/ Sets(option, value)
  BY DEF Option
<1>3. CASE Complain
  BY <1>3, ComplainKeeps
<1>4. CASE ~Complain
  <2> PICK text \in Arguments[option] : \E value \in Parse(option, text) : Sets(option, value)
    BY <1>2, <1>4
  <2>1. PICK value \in Parse(option, text) : Sets(option, value)
    OBVIOUS
  <2>2. option \in {"num_iterations", "num_warmups", "data_size"} => value \in Int
    BY <2>1, ParsedAreIntegers
  <2>3. OptionsInv'
    BY <2>1, <2>2 DEF IInv, OptionsInv
  <2> QED
    BY <1>1, <2>1, <2>3 DEF IInv, RunInv, StatusInv, FailInv, ExitStatusIsTrue, Before,
       Accepted, Failures
<1> QED
  BY <1>3, <1>4

\* A call that returns adds its result; one that does not owes it to Unvalidated or uds.
LEMMA RunKeeps ==
    ASSUME IInv, Run
    PROVE  IInv'
<1>1. pc = "run" /\ calls # <<>> /\ calls \in Seq(CallSet)
  BY DEF Run, IInv, RunInv
<1>2. PICK total \in Totals(options) : \E end \in Ends(Head(calls), options, total) :
         IF end = "result"
         THEN /\ results' = results \cup {Head(calls)}
              /\ calls' = Tail(calls)
              /\ UNCHANGED <<pc, reported>>
         ELSE /\ pc' = end
              /\ reported' = (reported \/ (end = "aborted" /\ Shown("FATAL")))
              /\ UNCHANGED <<results, calls>>
  BY DEF Run
<1> PICK end \in Ends(Head(calls), options, total) :
         IF end = "result"
         THEN /\ results' = results \cup {Head(calls)}
              /\ calls' = Tail(calls)
              /\ UNCHANGED <<pc, reported>>
         ELSE /\ pc' = end
              /\ reported' = (reported \/ (end = "aborted" /\ Shown("FATAL")))
              /\ UNCHANGED <<results, calls>>
  BY <1>2
<1>3. UNCHANGED <<given, options, type, g_log_level, printed, status>>
  BY DEF Run
<1>4. OptionsInv'
  BY <1>3 DEF IInv, OptionsInv
<1>5. /\ Head(calls) \in CallSet /\ Threaded(Head(calls)) /\ Head(calls).name \in Promised
      /\ Tail(calls) \in Seq(CallSet)
      /\ \A k \in 1 .. Len(Tail(calls)) : Threaded(Tail(calls)[k])
  <2>1. Head(calls) = calls[1] /\ 1 \in 1 .. Len(calls) /\ calls[1] \in CallSet
    BY <1>1
  <2>2. Tail(calls) \in Seq(CallSet)
    BY <1>1
  <2>3. \A k \in 1 .. Len(Tail(calls)) : k + 1 \in 1 .. Len(calls) /\ Tail(calls)[k] = calls[k + 1]
    BY <1>1
  <2>4. NamesOf(calls) \subseteq Promised
    BY <1>1 DEF IInv, RunInv
  <2>5. calls[1].name \in NamesOf(calls)
    BY <2>1 DEF NamesOf
  <2>6. \A k \in 1 .. Len(calls) : Threaded(calls[k])
    BY <1>1 DEF IInv, RunInv
  <2> QED
    BY <2>1, <2>2, <2>3, <2>4, <2>5, <2>6
<1>6. CASE end = "result"
  <2>1. /\ results' = results \cup {Head(calls)} /\ calls' = Tail(calls)
        /\ UNCHANGED <<pc, reported>>
    BY <1>6
  <2>2. {result.name : result \in results'} \cup NamesOf(calls') = Promised
    <3>1. NamesOf(calls) = {Head(calls).name} \cup NamesOf(Tail(calls))
      BY <1>1, NamesOfTail
    <3>2. {result.name : result \in results'} =
             {result.name : result \in results} \cup {Head(calls).name}
      BY <2>1
    <3>3. {result.name : result \in results} \cup NamesOf(calls) = Promised
      BY <1>1 DEF IInv, RunInv
    <3> QED
      BY <2>1, <3>1, <3>2, <3>3
  <2>3. Promised' = Promised /\ CallSet' = CallSet
    BY <1>3 DEF Promised, CallSet, Threads
  <2>4. NamesOf(calls)' = NamesOf(calls')
    BY DEF NamesOf
  <2>5. RunInv'
    BY <1>1, <1>5, <2>1, <2>2, <2>3, <2>4 DEF RunInv, Before
  <2> QED
    BY <1>1, <1>3, <1>4, <2>1, <2>5 DEF IInv, StatusInv, FailInv, ExitStatusIsTrue, Before,
       Accepted, Failures
<1>7. CASE end # "result"
  <2>1. /\ pc' = end /\ reported' = (reported \/ (end = "aborted" /\ Shown("FATAL")))
        /\ UNCHANGED <<results, calls>>
    BY <1>7
  <2>2. end \in Failures
    BY <1>5, <1>7, EndKinds
  <2>3. Unvalidated \/ (end = "hung" /\ Head(calls).name = "bandwidth_uds")
    BY <1>1, <1>5, <1>7, ValidatedCallsReturn DEF IInv, FailInv, Accepted
  <2>4. Unvalidated' \/ LostConnection'
    <3>1. Unvalidated' = Unvalidated
      BY <1>3 DEF Unvalidated
    <3>2. pc' = end /\ calls' = calls
      BY <2>1
    <3> QED
      BY <1>1, <2>3, <3>1, <3>2 DEF LostConnection
  <2>5. end = "aborted" => reported' = TRUE
    BY <2>1, ErrorsAreShown DEF IInv, StatusInv
  <2>6. status' = 0 /\ g_log_level' \in Levels
    BY <1>1, <1>3 DEF IInv, StatusInv
  <2>7. StatusInv'
    BY <2>1, <2>2, <2>5, <2>6 DEF StatusInv, ExitStatusIsTrue, Failures
  <2>8. RunInv'
    BY <2>1, <2>2 DEF RunInv, Before, Failures
  <2>9. FailInv'
    BY <1>1, <1>3, <2>1, <2>2, <2>4 DEF IInv, FailInv, Accepted
  <2> QED
    BY <1>4, <2>1, <2>2, <2>7, <2>8, <2>9 DEF IInv
<1> QED
  BY <1>6, <1>7
-----------------------------------------------------------------------------
(***************************************************************************)
(* The invariant holds in every state of the program.                      *)
(***************************************************************************)
THEOREM Invariance == Spec => []IInv
<1>1. Init => IInv
  BY InitIInv
<1>2. IInv /\ [Next]_vars => IInv'
  <2> SUFFICES ASSUME IInv, [Next]_vars
               PROVE  IInv'
    OBVIOUS
  <2> USE DEF IInv, OptionsInv, RunInv, StatusInv, FailInv, ExitStatusIsTrue, Before, Accepted,
          Failures
  <2>1. CASE Option
    BY <2>1, OptionKeeps
  <2>2. CASE WrongUsage
    BY <2>2, ComplainKeeps DEF WrongUsage
  <2>3. CASE Help
    BY <2>3 DEF Help, Exit
  <2>4. CASE Positional
    BY <2>4 DEF Positional
  <2>5. CASE Validate
    BY <2>5, RejectKeeps DEF Validate
  <2>6. CASE SetLogLevel
    BY <2>6, RejectKeeps DEF SetLogLevel
  <2>7. CASE Dispatch
    <3>1. CASE Reject
      BY <3>1, RejectKeeps
    <3>2. CASE ~Reject
      <4>1. /\ pc = "dispatch" /\ type \in LatencyTypes \cup BandwidthTypes \cup {"all"}
            /\ calls' = CallsOf(type, options) /\ pc' = "run"
            /\ UNCHANGED <<given, options, type, g_log_level, results, printed, status, reported>>
        BY <2>7, <3>2 DEF Dispatch
      <4>2. ~Rejected(type, options) /\ results = {}
        BY <4>1 DEF IInv, FailInv, RunInv, Accepted, Before
      <4>3. /\ calls' \in Seq(CallSet)
            /\ \A k \in 1 .. Len(calls') : Threaded(calls'[k])
            /\ NamesOf(calls') = Promised
        BY <4>1, <4>2, DispatchedCalls
      <4>4. Promised' = Promised /\ CallSet' = CallSet
        BY <4>1 DEF Promised, CallSet, Threads
      <4>5. {result.name : result \in results'} = {}
        BY <4>1, <4>2
      <4>6. RunInv'
        BY <4>1, <4>3, <4>4, <4>5 DEF RunInv, NamesOf, Before
      <4>7. OptionsInv'
        BY <4>1 DEF IInv, OptionsInv
      <4> QED
        BY <4>1, <4>2, <4>6, <4>7 DEF IInv, StatusInv, FailInv, ExitStatusIsTrue, Before,
           Accepted, Failures
    <3> QED
      BY <3>1, <3>2
  <2>8. CASE Run
    BY <2>8, RunKeeps
  <2>9. CASE Output
    <3>1. {result.name : result \in results} = Promised
      BY <2>9, NamesOfNone DEF Output
    <3>2. printed' = Promised'
      BY <2>9, <3>1 DEF Output, Promised
    <3> QED
      BY <2>9, <3>2 DEF Output, Exit
  <2>10. CASE UNCHANGED vars
    <3>1. /\ pc' = pc /\ options' = options /\ type' = type /\ g_log_level' = g_log_level
          /\ calls' = calls /\ results' = results /\ printed' = printed
          /\ status' = status /\ reported' = reported
      BY <2>10 DEF vars
    <3>2. /\ Promised' = Promised /\ CallSet' = CallSet /\ Unvalidated' = Unvalidated
          /\ LostConnection' = LostConnection
      BY <3>1 DEF Promised, CallSet, Threads, Unvalidated, LostConnection
    <3>3. RunInv'
      BY <3>1, <3>2 DEF RunInv, NamesOf
    <3> QED
      BY <3>1, <3>2, <3>3
  <2> QED
    BY <2>1, <2>2, <2>3, <2>4, <2>5, <2>6, <2>7, <2>8, <2>9, <2>10 DEF Next, Over
<1> QED
  BY <1>1, <1>2, PTL DEF Spec

(***************************************************************************)
(* The exit status is true: with 0 the usage or every promised result was  *)
(* printed, and with 1 or an abort a message was written to stderr.        *)
(***************************************************************************)
THEOREM StatusIsTrue == Spec => []ExitStatusIsTrue
<1>1. IInv => ExitStatusIsTrue
  BY DEF IInv, StatusInv
<1> QED
  BY <1>1, Invariance, PTL

(***************************************************************************)
(* No benchmark that main calls aborts, crashes or hangs, but for the four *)
(* combinations of options that main does not validate, and for uds, which *)
(* hangs when it loses its connection.  The safety half of EndsUnlessKnown.*)
(***************************************************************************)
THEOREM FailsOnlyAsKnown == Spec => [](pc \in Failures => Unvalidated \/ LostConnection)
<1>1. IInv => (pc \in Failures => Unvalidated \/ LostConnection)
  BY DEF IInv, FailInv
<1> QED
  BY <1>1, Invariance, PTL
=============================================================================
