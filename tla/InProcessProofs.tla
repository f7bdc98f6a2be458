---------------------------- MODULE InProcessProofs ----------------------------
(***************************************************************************)
(* Proofs about InProcessBenchmarks: what MemcpyMtProofs shows of the      *)
(* threads of memcpy_mt holds in the program that has picked it, and the   *)
(* other benchmarks keep their types, for every data_size, n_threads and   *)
(* number of iterations.                                                   *)
(***************************************************************************)
EXTENDS InProcessBenchmarks, FiniteSetTheorems, TLAPS

Mt == INSTANCE MemcpyMtProofs

\* The two facts about the loop, which is the same for all benchmarks.
LEMMA OverKeepsAll == Kept /\ Over => Len(durations) = NumIterations
  BY MeasuredAssumption DEF Kept, Over

\* The end of an iteration keeps the types and the count.
LEMMA EndIterationCounts ==
    ASSUME MeasuredTypeOK, Kept, Running,
           NEW CONSTANT first, NEW CONSTANT end, EndIteration(first, end), UNCHANGED dst
    PROVE  /\ MeasuredTypeOK' /\ Kept'
           /\ (pc' = first /\ Running') \/ (pc' = end /\ Over')
<1> USE DEF MeasuredTypeOK, Mt!MeasuredTypeOK, Bytes, Mt!Bytes, Kept, Mt!Kept,
            Running, Mt!Running, Over, Mt!Over
<1>1. Mt!EndIteration(first, end)
  BY DEF EndIteration, Mt!EndIteration
<1> QED
  BY <1>1, Mt!EndIterationCounts, MeasuredAssumption, ThreadAssumption

\* Where the other benchmarks are in their loops.
SingleInv(inside, between) == /\ MeasuredTypeOK /\ Kept
                              /\ (pc \in inside /\ Running) \/ (pc \in between /\ Over)

MemcpyInv == SingleInv({"fill", "copy", "verify"}, {"calculate", "done"})

SyscallInv == \/ /\ SingleInv({"open", "measure"}, {"close", "calculate", "done"})
                 /\ fd \in {"none", "open", "closed"}
                 /\ pc \in {"calculate", "done"} => fd # "open"
                 /\ type # "latency_fstatfs" => fd # "open" /\ pc \notin {"open", "close"}
              \/ pc = "failed" /\ MeasuredTypeOK /\ fd = "none"

(***************************************************************************)
(* The inductive invariant: that of the benchmark picked.                  *)
(***************************************************************************)
IInv == /\ type = "bandwidth_memcpy_mt" => Mt!IInv
        /\ type = "bandwidth_memcpy" => MemcpyInv
        /\ type \notin Bandwidths => SyscallInv

\* The module and its proofs speak of the same threads.
LEMMA SameInit == MemcpyMt!Init <=> Mt!Init
  BY DEF MemcpyMt!Init, Mt!Init, Mt!MeasuredInit, MemcpyMt!MeasuredInit,
         Mt!Ids, MemcpyMt!Ids

LEMMA SameMain == MemcpyMt!Main => Mt!Main
<1> USE DEF Mt!Ids, MemcpyMt!Ids, Mt!threads, MemcpyMt!threads
<1>1. MemcpyMt!Clear => Mt!Clear
  BY DEF MemcpyMt!Clear, Mt!Clear, MemcpyMt!Fill, Mt!Fill
<1>2. MemcpyMt!Spawn => Mt!Spawn
  BY DEF MemcpyMt!Spawn, Mt!Spawn, MemcpyMt!Start, Mt!Start,
         MemcpyMt!chunk_size, Mt!chunk_size
<1>3. MemcpyMt!Join => Mt!Join
  BY DEF MemcpyMt!Join, Mt!Join, MemcpyMt!Copying, Mt!Copying, MemcpyMt!End, Mt!End,
         MemcpyMt!Start, Mt!Start, MemcpyMt!chunk_size, Mt!chunk_size
<1>4. MemcpyMt!Verify => Mt!Verify
  BY DEF MemcpyMt!Verify, Mt!Verify, MemcpyMt!EndIteration, Mt!EndIteration
<1>5. MemcpyMt!Calculate => Mt!Calculate
  BY DEF MemcpyMt!Calculate, Mt!Calculate, MemcpyMt!CalculateBandwidth,
         Mt!CalculateBandwidth
<1>6. QED
  BY <1>1, <1>2, <1>3, <1>4, <1>5 DEF MemcpyMt!Main, Mt!Main

LEMMA SameWorker == MemcpyMt!Worker => Mt!Worker
<1> USE DEF Mt!Ids, MemcpyMt!Ids
<1>1. ASSUME NEW t \in Mt!Ids, MemcpyMt!Copy(t) PROVE Mt!Copy(t)
  BY <1>1 DEF MemcpyMt!Copy, Mt!Copy, MemcpyMt!Copying, Mt!Copying, MemcpyMt!End, Mt!End,
              MemcpyMt!Start, Mt!Start, MemcpyMt!chunk_size, Mt!chunk_size
<1>2. QED
  BY <1>1 DEF MemcpyMt!Worker, Mt!Worker

LEMMA InitIInv == Init => IInv
<1> SUFFICES ASSUME Init PROVE IInv
  OBVIOUS
<1>1. ASSUME type = "bandwidth_memcpy_mt" PROVE Mt!IInv
  <2>1. MemcpyMt!Init
    BY <1>1 DEF Init
  <2>2. Mt!Init
    BY <2>1, SameInit
  <2>3. QED
    BY <2>2, Mt!InitIInv, MeasuredAssumption, ThreadAssumption
<1>2. ASSUME MeasuredInit PROVE MeasuredTypeOK /\ Kept /\ Running
  <2>1. NumWarmups \in Nat /\ NumIterations \in Nat \ {0}
    BY MeasuredAssumption
  <2>2. i = 0 /\ durations = <<>> /\ dst = {}
    BY <1>2 DEF MeasuredInit
  <2>3. QED
    BY <2>1, <2>2 DEF MeasuredTypeOK, Kept, Running
<1>3. type = "bandwidth_memcpy" => MemcpyInv
  BY <1>2 DEF Init, Memcpy!Init, Memcpy!MeasuredInit, MeasuredInit, MemcpyInv, SingleInv
<1>4. type \notin Bandwidths => SyscallInv
  BY <1>2 DEF Init, Bandwidths, Syscall!Init, Syscall!MeasuredInit, MeasuredInit,
              SyscallInv, SingleInv
<1>5. QED
  BY <1>1, <1>3, <1>4 DEF IInv

\* The step of the benchmark picked preserves its part of the invariant.
LEMMA MtStep ==
    ASSUME Mt!IInv, [MemcpyMt!Next]_(MemcpyMt!vars)
    PROVE  Mt!IInv'
<1>1. [Mt!Next]_(Mt!vars)
  BY SameMain, SameWorker
  DEF MemcpyMt!Next, Mt!Next, Mt!vars, MemcpyMt!vars, Mt!measured, MemcpyMt!measured,
      Mt!threads, MemcpyMt!threads
<1>2. QED
  BY <1>1, Mt!NextIInv, MeasuredAssumption, ThreadAssumption

LEMMA MemcpyStep ==
    ASSUME MemcpyInv, [Memcpy!Main]_(Memcpy!vars)
    PROVE  MemcpyInv'
<1> USE DEF MemcpyInv, SingleInv
<1>1. CASE Memcpy!Fill("copy")
  BY <1>1 DEF Memcpy!Fill, MeasuredTypeOK, Bytes, Kept, Running
<1>2. CASE Memcpy!Copy
  BY <1>2 DEF Memcpy!Copy, Memcpy!Bytes, MeasuredTypeOK, Bytes, Kept, Running
<1>3. CASE Memcpy!Verify
  <2>1. EndIteration("fill", "calculate") /\ UNCHANGED dst /\ Running
    BY <1>3 DEF Memcpy!Verify, Memcpy!EndIteration, EndIteration
  <2>2. QED
    BY <2>1, EndIterationCounts
<1>4. CASE Memcpy!CalculateBandwidth
  <2>1. Over /\ Len(durations) = NumIterations
    BY <1>4, OverKeepsAll DEF Memcpy!CalculateBandwidth
  <2>2. QED
    BY <1>4, <2>1 DEF Memcpy!CalculateBandwidth, MeasuredTypeOK, Bytes, Kept, Over
<1>5. CASE UNCHANGED Memcpy!vars
  BY <1>5 DEF Memcpy!vars, MeasuredTypeOK, Bytes, Kept, Running, Over
<1>6. QED
  BY <1>1, <1>2, <1>3, <1>4, <1>5 DEF Memcpy!Main

LEMMA SyscallStep ==
    ASSUME SyscallInv, UNCHANGED type, NumIterations > 1,
           \/ type = "latency_fstatfs" /\ Syscall!Fstatfs
           \/ type # "latency_fstatfs" /\ Syscall!Direct
           \/ UNCHANGED Syscall!vars
    PROVE  SyscallInv'
<1> USE DEF SyscallInv, SingleInv
<1>1. CASE Syscall!Open /\ type = "latency_fstatfs"
  BY <1>1 DEF Syscall!Open, MeasuredTypeOK, Bytes, Kept, Running
<1>2. ASSUME NEW CONSTANT end \in {"close", "calculate"}, Syscall!Measure(end),
             end = IF type = "latency_fstatfs" THEN "close" ELSE "calculate"
      PROVE  SyscallInv'
  <2>1. EndIteration("measure", end) /\ UNCHANGED <<dst, fd>> /\ pc = "measure" /\ Running
    BY <1>2 DEF Syscall!Measure, Syscall!EndIteration, EndIteration
  <2>2. /\ MeasuredTypeOK' /\ Kept'
        /\ (pc' = "measure" /\ Running') \/ (pc' = end /\ Over')
    BY <2>1, EndIterationCounts
  <2>3. QED
    BY <1>2, <2>1, <2>2
<1>3. CASE Syscall!Close /\ type = "latency_fstatfs"
  BY <1>3 DEF Syscall!Close, MeasuredTypeOK, Bytes, Kept, Over
<1>4. CASE Syscall!Calculate
  <2>1. Over /\ Len(durations) = NumIterations
    BY <1>4, OverKeepsAll DEF Syscall!Calculate, Syscall!CalculateOneTripDuration
  <2>2. pc' = "done" /\ UNCHANGED <<i, durations, dst, fd>>
    BY <1>4, <2>1 DEF Syscall!Calculate, Syscall!CalculateOneTripDuration
  <2>3. QED
    BY <1>4, <2>1, <2>2
    DEF Syscall!Calculate, Syscall!CalculateOneTripDuration, MeasuredTypeOK, Bytes, Kept, Over
<1>5. CASE UNCHANGED Syscall!vars
  BY <1>5 DEF Syscall!vars, MeasuredTypeOK, Bytes, Kept, Running, Over
<1>6. QED
  BY <1>1, <1>2, <1>3, <1>4, <1>5 DEF Syscall!Fstatfs, Syscall!Direct

LEMMA NextIInv ==
    ASSUME NumIterations > 1, IInv, [Next]_vars
    PROVE  IInv'
<1> USE DEF IInv
<1>1. UNCHANGED type
  BY DEF Next, Main, Worker, Done, vars
<1>2. CASE type = "bandwidth_memcpy_mt"
  <2>1. [MemcpyMt!Next]_(MemcpyMt!vars)
    BY <1>2 DEF Next, Main, Worker, Done, vars, measured, threads, MemcpyMt!Next,
                MemcpyMt!vars, MemcpyMt!measured, MemcpyMt!threads
  <2>2. QED
    BY <1>1, <1>2, <2>1, MtStep DEF Bandwidths
<1>3. CASE type = "bandwidth_memcpy"
  <2>1. [Memcpy!Main]_(Memcpy!vars)
    BY <1>3 DEF Next, Main, Worker, Done, vars, measured, Memcpy!vars
  <2>2. QED
    BY <1>1, <1>3, <2>1, MemcpyStep DEF Bandwidths
<1>4. CASE type \notin Bandwidths
  <2>1. \/ type = "latency_fstatfs" /\ Syscall!Fstatfs
        \/ type # "latency_fstatfs" /\ Syscall!Direct
        \/ UNCHANGED Syscall!vars
    BY <1>4 DEF Bandwidths, Next, Main, Worker, Done, vars, measured, Syscall!vars
  <2>2. SyscallInv'
    BY <1>1, <1>4, <2>1, SyscallStep
  <2>3. QED
    BY <1>1, <1>4, <2>2 DEF Bandwidths
<1>5. QED
  BY <1>2, <1>3, <1>4 DEF Bandwidths
-----------------------------------------------------------------------------
\* The invariant holds in every state of every run.
THEOREM Invariance == ASSUME NumIterations > 1 PROVE Spec => []IInv
<1>1. QED
  BY InitIInv, NextIInv, PTL DEF Spec

\* The types are part of the invariant of each benchmark.
LEMMA InvTypeOK == IInv => TypeOK
<1> SUFFICES ASSUME IInv PROVE TypeOK
  OBVIOUS
<1>1. ASSUME type = "bandwidth_memcpy_mt" PROVE MemcpyMt!TypeOK
  BY <1>1 DEF IInv, Mt!IInv, Mt!TypeOK, MemcpyMt!TypeOK, Mt!MeasuredTypeOK,
              MemcpyMt!MeasuredTypeOK, Mt!Bytes, MemcpyMt!Bytes, Mt!Ids, MemcpyMt!Ids
<1>2. ASSUME type = "bandwidth_memcpy" PROVE Memcpy!TypeOK
  BY <1>2 DEF IInv, MemcpyInv, SingleInv, MeasuredTypeOK, Bytes, Memcpy!TypeOK,
              Memcpy!MeasuredTypeOK, Memcpy!Bytes
<1>3. ASSUME type \notin Bandwidths PROVE Syscall!TypeOK
  BY <1>3 DEF IInv, SyscallInv, SingleInv, MeasuredTypeOK, Bytes, Syscall!TypeOK,
              Syscall!MeasuredTypeOK, Syscall!Bytes
<1>4. QED
  BY <1>1, <1>2, <1>3 DEF TypeOK

(***************************************************************************)
(* Every variable keeps its type in all five benchmarks: no descriptor of  *)
(* fstatfs stays open, and neither CalculateBandwidth nor CalculateOneTrip-*)
(* Duration is given too few durations, if main has rejected one iteration.*)
(***************************************************************************)
THEOREM TypeCorrect == ASSUME NumIterations > 1 PROVE Spec => []TypeOK
<1>1. QED
  BY InvTypeOK, Invariance, PTL

\* No two threads of memcpy_mt have the same byte left to copy, whatever their
\* number, and dst is filled and verified when none is copying.
THEOREM ThreadsDoNotRace == ASSUME NumIterations > 1 PROVE Spec => []RaceFree
<1>1. IInv => RaceFree
  <2>1. Mt!IInv => Mt!RaceFree
    BY Mt!InvIsRaceFree, MeasuredAssumption, ThreadAssumption
  <2>2. Mt!RaceFree => MemcpyMt!RaceFree
    BY DEF Mt!RaceFree, MemcpyMt!RaceFree, Mt!Ids, MemcpyMt!Ids, Mt!Copying,
           MemcpyMt!Copying, Mt!End, MemcpyMt!End, Mt!Start, MemcpyMt!Start,
           Mt!chunk_size, MemcpyMt!chunk_size
  <2>3. QED
    BY <2>1, <2>2 DEF IInv, RaceFree
<1>2. QED
  BY <1>1, Invariance, PTL

\* When the time is taken the threads have copied every byte.
FullCopy == type = "bandwidth_memcpy_mt" => Mt!FullCopy

LEMMA CopyIsFull == IInv => FullCopy
  BY Mt!CopyIsFull, MeasuredAssumption, ThreadAssumption DEF IInv, FullCopy

\* A step of either is a step of memcpy or a stutter, and so is one of a system
\* call, which the mapping does not see.
LEMMA StepImplements ==
    ASSUME IInv, FullCopy', [Next]_vars
    PROVE  [Abstract!Main]_(Abstract!vars)
<1>1. UNCHANGED type
  BY DEF Next, Main, Worker, Done, vars
<1> USE DEF Abstract!vars, Seen, CopyPending
<1>2. CASE type = "bandwidth_memcpy_mt"
  <2>1. [Mt!Next]_(Mt!vars)
    BY <1>2, SameMain, SameWorker
    DEF Next, Main, Worker, Done, vars, measured, threads,
        Mt!Next, Mt!vars, Mt!measured, Mt!threads
  <2>2. Mt!IInv /\ Mt!FullCopy'
    BY <1>1, <1>2 DEF IInv, FullCopy
  <2>3. [Mt!Abstract!Main]_(Mt!Abstract!vars)
    BY <2>1, <2>2, Mt!StepImplements, MeasuredAssumption, ThreadAssumption
  <2>4. QED
    BY <1>1, <1>2, <2>3
    DEF Bandwidths, MemcpyMt!CopyPending, Mt!CopyPending, Mt!Abstract!vars,
        Mt!Abstract!Main, Mt!Abstract!Fill, Mt!Abstract!Copy, Mt!Abstract!Bytes, Mt!Abstract!Verify,
        Mt!Abstract!EndIteration, Mt!Abstract!CalculateBandwidth,
        Abstract!Main, Abstract!Fill, Abstract!Copy, Abstract!Bytes, Abstract!Verify,
        Abstract!EndIteration, Abstract!CalculateBandwidth
<1>3. CASE type = "bandwidth_memcpy"
  <2>1. [Memcpy!Main]_(Memcpy!vars)
    BY <1>3 DEF Next, Main, Worker, Done, vars, measured, Memcpy!vars
  <2>2. QED
    BY <1>1, <1>3, <2>1
    DEF Bandwidths, Memcpy!vars, Memcpy!Main, Memcpy!Fill, Memcpy!Copy, Memcpy!Bytes, Memcpy!Verify,
        Memcpy!EndIteration, Memcpy!CalculateBandwidth,
        Abstract!Main, Abstract!Fill, Abstract!Copy, Abstract!Bytes, Abstract!Verify,
        Abstract!EndIteration, Abstract!CalculateBandwidth
<1>4. CASE type \notin Bandwidths
  BY <1>1, <1>4 DEF Bandwidths
<1>5. QED
  BY <1>2, <1>3, <1>4 DEF Bandwidths

(***************************************************************************)
(* memcpy_mt implements memcpy, whatever the number of threads: join is the*)
(* step that copies, and what comes before it, from spawn on, are stutters.*)
(***************************************************************************)
THEOREM Implementation == ASSUME NumIterations > 1 PROVE Spec => ImplementsMemcpy
<1>1. Init => Abstract!Init
  BY DEF Init, Abstract!Init, Abstract!MeasuredInit, Seen, CopyPending, Bandwidths,
         MemcpyMt!CopyPending, MemcpyMt!Init, MemcpyMt!MeasuredInit,
         Memcpy!Init, Memcpy!MeasuredInit
<1>2. QED
  BY <1>1, StepImplements, CopyIsFull, Invariance, PTL
  DEF Spec, ImplementsMemcpy, Abstract!Spec
-----------------------------------------------------------------------------
\* Products of sums.
LEMMA Distribution ==
    ASSUME NEW a \in Nat, NEW b \in Nat, NEW c \in Nat
    PROVE  /\ a * (b + c) = a * b + a * c /\ (b + c) * a = b * a + c * a
           /\ a * b \in Nat /\ a * c \in Nat
  BY SMT

\* A product is monotone in its second factor.
LEMMA Monotone ==
    ASSUME NEW a \in Nat, NEW b \in Nat, NEW c \in Nat, b <= c
    PROVE  a * b <= a * c
  BY SMT

\* A common factor cancels.
LEMMA Cancels ==
    ASSUME NEW a \in Nat, NEW b \in Nat, NEW c \in Nat \ {0}, a * c = b * c
    PROVE  a = b
  BY SMT

\* A set of numbers has a smallest one.
LEMMA Least ==
    ASSUME NEW T \in SUBSET Nat, T # {}
    PROVE  \E x \in T : \A y \in T : x <= y
<1> DEFINE F == {0 .. x : x \in T}
           R == StrictSubsetOrdering(Nat)
<1>1. IsWellFoundedOn(R, FiniteSubsetsOf(Nat))
  BY FS_StrictSubsetOrderingWellFounded
<1>2. \A x \in T : 0 .. x \subseteq Nat /\ IsFiniteSet(0 .. x)
  BY FS_Interval
<1>3. F \subseteq FiniteSubsetsOf(Nat) /\ F # {}
  BY <1>2 DEF FiniteSubsetsOf
<1>4. PICK I \in F : \A J \in F : ~(<<J, I>> \in R)
  <2> HIDE DEF F, R
  <2> QED
    BY <1>1, <1>3, WFMin
<1>5. PICK x \in T : I = 0 .. x
  OBVIOUS
<1>6. ASSUME NEW y \in T, y < x
      PROVE  FALSE
  <2>1. 0 .. y \in F /\ 0 .. y \subseteq Nat /\ 0 .. x \subseteq Nat
    OBVIOUS
  <2>2. 0 .. y \subseteq 0 .. x /\ x \in 0 .. x /\ x \notin 0 .. y
    BY <1>6
  <2>3. <<0 .. y, I>> \in R
    BY <2>1, <2>2, <1>5 DEF StrictSubsetOrdering
  <2> QED
    BY <2>1, <2>3, <1>4
<1> QED
  BY <1>6

\* Induction up to n, over a set: the numbers that have the property.
LEMMA UpTo ==
    ASSUME NEW n \in Nat, NEW S \in SUBSET (0 .. n), 0 \in S,
           \A p \in 1 .. n : p - 1 \in S => p \in S
    PROVE  S = 0 .. n
<1> DEFINE T == (0 .. n) \ S
<1> SUFFICES ASSUME T # {}
             PROVE  FALSE
  OBVIOUS
<1>1. T \in SUBSET Nat
  OBVIOUS
<1>2. PICK p \in T : \A x \in T : p <= x
  <2> HIDE DEF T
  <2> QED
    BY <1>1, Least
<1>3. p \in 1 .. n /\ p - 1 \in 0 .. n /\ p - 1 \notin T
  BY <1>2
<1> QED
  BY <1>3

\* s adds up the values from the first one on.
Sums(s, values, n) == /\ s \in [0 .. n -> Nat]
                      /\ s[0] = 0
                      /\ \A k \in 1 .. n : s[k] = s[k - 1] + values[k]

\* std::accumulate returns the last of these sums.
LEMMA Accumulates ==
    ASSUME NEW n \in Nat, NEW values, \A k \in 1 .. n : values[k] \in Nat
    PROVE  \E s : Sums(s, values, n) /\ Accumulate(values, 1, n) = s[n]
<1> DEFINE S == {m \in 0 .. n : \E s : Sums(s, values, m)}
<1>1. 0 \in S
  <2>1. Sums([k \in 0 .. 0 |-> 0], values, 0)
    BY DEF Sums
  <2> QED
    BY <2>1
<1>2. ASSUME NEW p \in 1 .. n, p - 1 \in S
      PROVE  p \in S
  <2>1. PICK s : Sums(s, values, p - 1)
    BY <1>2
  <2> DEFINE more == [k \in 0 .. p |-> IF k < p THEN s[k] ELSE s[p - 1] + values[p]]
  <2>2. Sums(more, values, p)
    <3>1. s \in [0 .. p - 1 -> Nat] /\ s[0] = 0
          /\ \A k \in 1 .. p - 1 : s[k] = s[k - 1] + values[k]
      BY <2>1 DEF Sums
    <3>2. more \in [0 .. p -> Nat]
      BY <3>1
    <3>3. more[0] = 0
      BY <3>1
    <3>4. ASSUME NEW k \in 1 .. p
          PROVE  more[k] = more[k - 1] + values[k]
      <4>1. CASE k = p
        BY <4>1
      <4>2. CASE k # p
        <5>1. k \in 1 .. p - 1 /\ k < p /\ k - 1 < p /\ k \in 0 .. p /\ k - 1 \in 0 .. p
          BY <4>2
        <5> QED
          BY <5>1, <3>1
      <4> QED
        BY <4>1, <4>2
    <3> QED
      BY <3>2, <3>3, <3>4 DEF Sums
  <2> QED
    BY <2>2
<1>3. S = 0 .. n
  <2> HIDE DEF S
  <2>1. S \in SUBSET (0 .. n)
    BY DEF S
  <2> QED
    BY <1>1, <1>2, <2>1, UpTo
<1>4. PICK s : Sums(s, values, n)
  BY <1>3
<1> DEFINE sum[k \in 1 - 1 .. n] == IF k < 1 THEN 0 ELSE sum[k - 1] + values[k]
           Solves(f) == f = [k \in 1 - 1 .. n |-> IF k < 1 THEN 0 ELSE f[k - 1] + values[k]]
<1>5. Solves(s)
  <2>1. s \in [0 .. n -> Nat] /\ s[0] = 0 /\ \A k \in 1 .. n : s[k] = s[k - 1] + values[k]
    BY <1>4 DEF Sums
  <2>2. \A k \in 0 .. n : s[k] = IF k < 1 THEN 0 ELSE s[k - 1] + values[k]
    BY <2>1
  <2>3. s = [k \in 0 .. n |-> IF k < 1 THEN 0 ELSE s[k - 1] + values[k]]
    BY <2>1, <2>2
  <2> QED
    BY <2>3
<1>6. sum = CHOOSE f : Solves(f)
  OBVIOUS
<1>7. Solves(sum)
  <2> HIDE DEF sum, Solves
  <2> QED
    BY <1>5, <1>6
<1>8. Accumulate(values, 1, n) = sum[n]
  BY DEF Accumulate
<1> HIDE DEF sum
<1>9. \A k \in 0 .. n : sum[k] = IF k < 1 THEN 0 ELSE sum[k - 1] + values[k]
  BY <1>7
<1> DEFINE E == {k \in 0 .. n : sum[k] = s[k]}
<1>10. 0 \in E /\ \A p \in 1 .. n : p - 1 \in E => p \in E
  BY <1>4, <1>9 DEF Sums
<1>11. E = 0 .. n
  <2> HIDE DEF E
  <2>1. E \in SUBSET (0 .. n)
    BY DEF E
  <2> QED
    BY <1>10, <2>1, UpTo
<1>12. sum[n] = s[n]
  BY <1>11
<1> QED
  BY <1>4, <1>8, <1>12

\* Some value is not above the mean, and some is not below it.
LEMMA Mean ==
    ASSUME NEW n \in Nat \ {0}, NEW values, \A k \in 1 .. n : values[k] \in Nat,
           NEW s, Sums(s, values, n)
    PROVE  /\ \E k \in 1 .. n : n * values[k] <= s[n]
           /\ \E k \in 1 .. n : s[n] <= n * values[k]
<1>1. s \in [0 .. n -> Nat] /\ s[0] = 0 /\ \A k \in 1 .. n : s[k] = s[k - 1] + values[k]
  BY DEF Sums
<1>2. s[n] \in Nat /\ n \in 0 .. n
  BY <1>1
<1>3. ASSUME NEW k \in 1 .. n
      PROVE  /\ n * s[k] = n * s[k - 1] + n * values[k]
             /\ k * s[n] = (k - 1) * s[n] + s[n]
             /\ n * s[k] \in Nat /\ n * s[k - 1] \in Nat /\ n * values[k] \in Nat
             /\ k * s[n] \in Nat /\ (k - 1) * s[n] \in Nat
  <2>1. k \in Nat /\ k - 1 \in Nat /\ s[k] \in Nat /\ s[k - 1] \in Nat /\ values[k] \in Nat
        /\ s[k] = s[k - 1] + values[k]
    BY <1>1
  <2> QED
    BY <2>1, <1>2, Distribution
<1>4. ASSUME \A k \in 1 .. n : n * values[k] > s[n]
      PROVE  FALSE
  <2> DEFINE S == {p \in 0 .. n : n * s[p] >= p * s[n] + p}
  <2>1. 0 \in S
    BY <1>1, <1>2
  <2>2. \A p \in 1 .. n : p - 1 \in S => p \in S
    BY <1>2, <1>3, <1>4
  <2>3. S = 0 .. n
    <3>1. S \in SUBSET (0 .. n)
      OBVIOUS
    <3> HIDE DEF S
    <3> QED
      BY <2>1, <2>2, <3>1, UpTo
  <2>4. n * s[n] >= n * s[n] + n /\ n * s[n] \in Nat
    BY <1>2, <1>3, <2>3
  <2> QED
    BY <2>4
<1>5. ASSUME \A k \in 1 .. n : n * values[k] < s[n]
      PROVE  FALSE
  <2> DEFINE S == {p \in 0 .. n : n * s[p] + p <= p * s[n]}
  <2>1. 0 \in S
    BY <1>1, <1>2
  <2>2. \A p \in 1 .. n : p - 1 \in S => p \in S
    BY <1>2, <1>3, <1>5
  <2>3. S = 0 .. n
    <3>1. S \in SUBSET (0 .. n)
      OBVIOUS
    <3> HIDE DEF S
    <3> QED
      BY <2>1, <2>2, <3>1, UpTo
  <2>4. n * s[n] + n <= n * s[n] /\ n * s[n] \in Nat
    BY <1>2, <1>3, <2>3
  <2> QED
    BY <2>4
<1>6. \A k \in 1 .. n : n * values[k] \in Nat
  BY <1>3
<1> QED
  BY <1>2, <1>4, <1>5, <1>6

\* The sums of naturals grow, and are 0 only as long as the values are.
LEMMA ZeroSums ==
    ASSUME NEW n \in Nat, NEW values, \A k \in 1 .. n : values[k] \in Nat,
           NEW s, Sums(s, values, n)
    PROVE  s[n] = 0 <=> \A k \in 1 .. n : values[k] = 0
<1> DEFINE S == {p \in 0 .. n : /\ s[p] = 0 => \A k \in 1 .. p : values[k] = 0
                                /\ (\A k \in 1 .. p : values[k] = 0) => s[p] = 0}
<1>1. s \in [0 .. n -> Nat] /\ s[0] = 0 /\ \A k \in 1 .. n : s[k] = s[k - 1] + values[k]
  BY DEF Sums
<1>2. 0 \in S
  BY <1>1
<1>3. ASSUME NEW p \in 1 .. n, p - 1 \in S
      PROVE  p \in S
  <2>1. s[p] = s[p - 1] + values[p] /\ s[p - 1] \in Nat /\ values[p] \in Nat
    BY <1>1
  <2>2. s[p] = 0 <=> s[p - 1] = 0 /\ values[p] = 0
    BY <2>1
  <2>3. \A k \in 1 .. p : k \in 1 .. p - 1 \/ k = p
    OBVIOUS
  <2> QED
    BY <2>2, <2>3, <1>3
<1>4. S = 0 .. n
  <2>1. S \in SUBSET (0 .. n)
    OBVIOUS
  <2> HIDE DEF S
  <2> QED
    BY <1>2, <1>3, <2>1, UpTo
<1> QED
  BY <1>4

\* The sum of equal values is a product.
LEMMA EqualSums ==
    ASSUME NEW n \in Nat, NEW values, NEW v \in Nat, \A k \in 1 .. n : values[k] = v,
           NEW s, Sums(s, values, n)
    PROVE  s[n] = n * v
<1> DEFINE S == {p \in 0 .. n : s[p] = p * v}
<1>1. s \in [0 .. n -> Nat] /\ s[0] = 0 /\ \A k \in 1 .. n : s[k] = s[k - 1] + values[k]
  BY DEF Sums
<1>2. 0 \in S
  BY <1>1
<1>3. ASSUME NEW p \in 1 .. n, p - 1 \in S
      PROVE  p \in S
  <2>1. s[p] = (p - 1) * v + v
    BY <1>1, <1>3
  <2>2. p * v = (p - 1) * v + v
    BY SMT
  <2> QED
    BY <2>1, <2>2
<1>4. S = 0 .. n
  <2>1. S \in SUBSET (0 .. n)
    OBVIOUS
  <2> HIDE DEF S
  <2> QED
    BY <1>2, <1>3, <2>1, UpTo
<1> QED
  BY <1>4

\* A square is a natural number, and 0 only of 0.
LEMMA Squares ==
    ASSUME NEW x \in Int
    PROVE  Square(x) \in Nat /\ (Square(x) = 0 <=> x = 0)
<1>1. x * x \in Int /\ x * x >= 0 /\ (x * x = 0 <=> x = 0)
  BY SMT
<1> QED
  BY <1>1 DEF Square

\* A product of naturals is a natural number, and 0 only with a factor that is.
LEMMA Products ==
    ASSUME NEW a \in Nat, NEW b \in Nat
    PROVE  a * b \in Nat /\ (a * b = 0 <=> a = 0 \/ b = 0)
  BY SMT

\* CalculateBandwidth of any durations is between the smallest and the largest of
\* their bandwidths.
LEMMA BandwidthIsMean ==
    ASSUME NEW d \in Seq(Nat \ {0}), Len(d) # 0, NEW size \in Nat
    PROVE  Between(Bandwidth(d, size), {Fraction(size, d[k]) : k \in DOMAIN d})
<1> DEFINE n == Len(d)
<1>1. n \in Nat \ {0} /\ DOMAIN d = 1 .. n /\ \A k \in 1 .. n : d[k] \in Nat \ {0}
  OBVIOUS
<1>2. PICK s : Sums(s, d, n) /\ Accumulate(d, 1, n) = s[n]
  <2> HIDE DEF n
  <2> QED
    BY <1>1, Accumulates
<1>3. /\ \E k \in 1 .. n : n * d[k] <= s[n]
      /\ \E k \in 1 .. n : s[n] <= n * d[k]
  <2> HIDE DEF n
  <2> QED
    BY <1>1, <1>2, Mean
<1>4. s[n] \in Nat
  BY <1>1, <1>2 DEF Sums
<1> DEFINE b == Bandwidth(d, size)
<1>5. b.num = size * n /\ b.den = s[n]
  BY <1>2 DEF Bandwidth, Fraction
<1> HIDE DEF n, b
<1>6. \E k \in 1 .. n : Fraction(size, d[k]) \preceq b
  <2>1. PICK k \in 1 .. n : s[n] <= n * d[k]
    BY <1>3
  <2>2. d[k] \in Nat
    BY <1>1
  <2>3. size * s[n] <= (size * n) * d[k]
    <3>1. size * s[n] <= size * (n * d[k])
      <4>1. n * d[k] \in Nat
        BY <1>1, <2>2, Products
      <4> QED
        BY <4>1, <2>1, <1>4, Monotone
    <3>2. size * (n * d[k]) = (size * n) * d[k]
      BY <1>1, <2>2, SMT
    <3> QED
      BY <3>1, <3>2
  <2> QED
    BY <2>3, <1>5 DEF Fraction, \preceq
<1>7. \E k \in 1 .. n : b \preceq Fraction(size, d[k])
  <2>1. PICK k \in 1 .. n : n * d[k] <= s[n]
    BY <1>3
  <2>2. d[k] \in Nat
    BY <1>1
  <2>3. (size * n) * d[k] <= size * s[n]
    <3>1. size * (n * d[k]) <= size * s[n]
      <4>1. n * d[k] \in Nat
        BY <1>1, <2>2, Products
      <4> QED
        BY <4>1, <2>1, <1>4, Monotone
    <3>2. size * (n * d[k]) = (size * n) * d[k]
      BY <1>1, <2>2, SMT
    <3> QED
      BY <3>1, <3>2
  <2> QED
    BY <2>3, <1>5 DEF Fraction, \preceq
<1> QED
  BY <1>1, <1>6, <1>7 DEF Between, b

\* Its deviation is 0 exactly when all durations are the same.
LEMMA DeviationOfEqual ==
    ASSUME NEW d \in Seq(Nat \ {0}), Len(d) # 0, NEW size \in Nat \ {0}
    PROVE  BandwidthVariance(d, size).num = 0 <=> \A k \in DOMAIN d : d[k] = d[1]
<1> DEFINE n == Len(d)
<1>1. n \in Nat \ {0} /\ DOMAIN d = 1 .. n /\ \A k \in 1 .. n : d[k] \in Nat \ {0}
  OBVIOUS
<1>2. PICK s : Sums(s, d, n) /\ Accumulate(d, 1, n) = s[n]
  <2> HIDE DEF n
  <2> QED
    BY <1>1, Accumulates
<1>3. s[n] \in Nat
  BY <1>1, <1>2 DEF Sums
<1> DEFINE squares == [k \in DOMAIN d |-> Square(d[k] * n - s[n])]
<1>4. \A k \in 1 .. n : d[k] * n - s[n] \in Int
  <2>1. \A k \in 1 .. n : d[k] * n \in Nat
    BY <1>1, Products
  <2> QED
    BY <2>1, <1>3
<1>5. \A k \in 1 .. n : squares[k] \in Nat /\ (squares[k] = 0 <=> d[k] * n - s[n] = 0)
  BY <1>1, <1>4, Squares
<1>6. PICK q : Sums(q, squares, n) /\ Accumulate(squares, 1, n) = q[n]
  <2> HIDE DEF n, squares
  <2> QED
    BY <1>1, <1>5, Accumulates
<1>7. q[n] \in Nat
  BY <1>1, <1>6 DEF Sums
<1>8. BandwidthVariance(d, size).num = (Square(size) * q[n]) * Square(Square(n))
  BY <1>2, <1>6 DEF BandwidthVariance, Variance, Fraction
<1>9. q[n] = 0 <=> \A k \in 1 .. n : squares[k] = 0
  <2> HIDE DEF n, squares
  <2>1. \A k \in 1 .. n : squares[k] \in Nat
    BY <1>5
  <2>2. n \in Nat
    BY <1>1
  <2> QED
    BY <2>1, <2>2, <1>6, ZeroSums
<1> HIDE DEF squares
<1>10. BandwidthVariance(d, size).num = 0 <=> q[n] = 0
  <2> HIDE DEF n
  <2>1. Square(size) \in Nat /\ Square(size) # 0
    BY Squares
  <2>2. Square(n) \in Nat /\ Square(n) # 0
    BY <1>1, Squares
  <2>3. Square(Square(n)) \in Nat /\ Square(Square(n)) # 0
    BY <2>2, Squares
  <2>4. Square(size) * q[n] \in Nat /\ (Square(size) * q[n] = 0 <=> q[n] = 0)
    BY <2>1, <1>7, Products
  <2> QED
    BY <2>3, <2>4, <1>8, Products
<1>11. ASSUME \A k \in 1 .. n : d[k] = d[1]
       PROVE  \A k \in 1 .. n : squares[k] = 0
  <2>1. d[1] \in Nat
    BY <1>1
  <2>2. s[n] = n * d[1]
    <3> HIDE DEF n
    <3> QED
      BY <1>1, <1>2, <1>11, <2>1, EqualSums
  <2>3. \A k \in 1 .. n : d[k] * n = s[n]
    BY <1>1, <1>11, <2>1, <2>2
  <2> QED
    BY <2>3, <1>3, <1>5
<1>12. ASSUME \A k \in 1 .. n : squares[k] = 0, NEW k \in 1 .. n
       PROVE  d[k] = d[1]
  <2>1. d[k] \in Nat /\ d[1] \in Nat /\ 1 \in 1 .. n
    BY <1>1
  <2>2. d[k] * n = d[1] * n
    <3>1. d[k] * n \in Nat /\ d[1] * n \in Nat
      BY <2>1, <1>1, Products
    <3>2. d[k] * n - s[n] = 0 /\ d[1] * n - s[n] = 0
      BY <2>1, <1>5, <1>12
    <3> QED
      BY <3>1, <3>2, <1>3
  <2> HIDE DEF n
  <2> QED
    BY <2>1, <2>2, <1>1, Cancels
<1> QED
  BY <1>1, <1>9, <1>10, <1>11, <1>12
-----------------------------------------------------------------------------
\* What CalculateBandwidth is given: num_iterations durations, none of them 0.
AllCounted == type \in Bandwidths /\ pc = "done" =>
                  durations \in Seq(Nat \ {0}) /\ Len(durations) = NumIterations

LEMMA InvAllCounted == IInv => AllCounted
<1> SUFFICES ASSUME IInv, type \in Bandwidths, pc = "done"
             PROVE  durations \in Seq(Nat \ {0}) /\ Len(durations) = NumIterations
  BY DEF AllCounted
<1>1. durations \in Seq(Durations) /\ Len(durations) = NumIterations
  <2>1. CASE type = "bandwidth_memcpy"
    <3>1. MeasuredTypeOK /\ Kept /\ Over
      BY <2>1 DEF IInv, MemcpyInv, SingleInv
    <3>2. QED
      BY <3>1, OverKeepsAll DEF MeasuredTypeOK
  <2>2. CASE type = "bandwidth_memcpy_mt"
    <3>1. Mt!TypeOK /\ Mt!Counted
      BY <2>2 DEF IInv, Mt!IInv
    <3>2. Mt!Kept /\ Mt!Over /\ durations \in Seq(Durations)
      BY <3>1 DEF Mt!TypeOK, Mt!MeasuredTypeOK, Mt!Counted
    <3>3. QED
      BY <3>2, Mt!OverKeepsAll, MeasuredAssumption, ThreadAssumption
  <2>3. QED
    BY <2>1, <2>2 DEF Bandwidths
<1>2. Durations \subseteq Nat \ {0}
  BY MeasuredAssumption
<1>3. durations \in Seq(Nat \ {0})
  <2>1. Len(durations) \in Nat /\ durations \in [1 .. Len(durations) -> Durations]
    BY <1>1
  <2>2. durations \in [1 .. Len(durations) -> Nat \ {0}]
    BY <2>1, <1>2
  <2>3. QED
    BY <2>1, <2>2
<1>4. QED
  BY <1>1, <1>3

(***************************************************************************)
(* The bandwidth that memcpy and memcpy_mt report is between the lowest and*)
(* the highest of the iterations they have kept, whatever their number and *)
(* whatever the clock has said of them, and its deviation is 0 exactly if  *)
(* the clock has said the same of all.  main rejects data_size 0, of which *)
(* the deviation is always 0.                                              *)
(***************************************************************************)
THEOREM BandwidthIsInRange ==
    ASSUME NumIterations > 1, DataSize > 0
    PROVE  Spec => []BandwidthWithinRange
<1>1. AllCounted => BandwidthWithinRange
  <2> SUFFICES ASSUME AllCounted, type \in Bandwidths, pc = "done"
               PROVE  /\ Between(Bandwidth(durations, DataSize),
                                 {Fraction(DataSize, durations[k]) : k \in DOMAIN durations})
                      /\ BandwidthVariance(durations, DataSize).num = 0 <=>
                            \A k \in DOMAIN durations : durations[k] = durations[1]
    BY DEF BandwidthWithinRange
  <2>1. durations \in Seq(Nat \ {0}) /\ Len(durations) # 0 /\ DataSize \in Nat \ {0}
    BY MeasuredAssumption DEF AllCounted
  <2>2. QED
    BY <2>1, BandwidthIsMean, DeviationOfEqual
<1>2. QED
  BY <1>1, InvAllCounted, Invariance, PTL
=============================================================================
