---------------------------- MODULE MemcpyMtProofs ----------------------------
(***************************************************************************)
(* Proofs about memcpy_mt_bandwidth.cc, for every data_size, n_threads and *)
(* number of iterations: the chunks are a partition of the bytes, no two   *)
(* threads ever meet, and when they are joined every byte is copied.       *)
(***************************************************************************)
EXTENDS MemcpyMtBandwidth, TLAPS

\* After the last iteration exactly num_iterations durations are kept.
LEMMA OverKeepsAll == Kept /\ Over => Len(durations) = NumIterations
  BY MeasuredAssumption DEF Kept, Over

\* The end of an iteration keeps the types and the count, and goes back to the
\* first line only if there is another iteration.
LEMMA EndIterationCounts ==
    ASSUME MeasuredTypeOK, Kept, Running,
           NEW CONSTANT first, NEW CONSTANT end, EndIteration(first, end), UNCHANGED dst
    PROVE  /\ MeasuredTypeOK' /\ Kept'
           /\ (pc' = first /\ Running') \/ (pc' = end /\ Over')
<1> USE DEF EndIteration
<1>1. /\ NumWarmups \in Nat /\ NumIterations \in Nat \ {0} /\ i \in Nat
      /\ durations \in Seq(Durations) /\ Len(durations) \in Nat
      /\ i < NumWarmups + NumIterations
  BY MeasuredAssumption DEF MeasuredTypeOK, Running
<1>2. (pc' = first /\ Running') \/ (pc' = end /\ Over')
  BY <1>1 DEF Running, Over
<1>3. ASSUME NumWarmups <= i PROVE MeasuredTypeOK' /\ Kept'
  <2>1. PICK d \in Durations : durations' = Append(durations, d)
    BY <1>3
  <2>2. durations' \in Seq(Durations) /\ Len(durations') = Len(durations) + 1
    BY <1>1, <2>1
  <2>3. Len(durations) = i - NumWarmups
    BY <1>1, <1>3 DEF Kept
  <2>4. Len(durations') = i' - NumWarmups /\ i' > NumWarmups
    BY <1>1, <1>3, <2>2, <2>3
  <2>5. MeasuredTypeOK'
    BY <1>1, <2>2, <2>4 DEF MeasuredTypeOK, Bytes
  <2>6. Kept'
    BY <1>1, <2>4 DEF Kept
  <2>7. QED
    BY <2>5, <2>6
<1>4. ASSUME i < NumWarmups PROVE MeasuredTypeOK' /\ Kept'
  <2>1. durations' = durations /\ Len(durations) = 0 /\ i' <= NumWarmups
    BY <1>1, <1>4 DEF Kept
  <2>2. QED
    BY <1>1, <2>1 DEF MeasuredTypeOK, Kept, Bytes
<1>5. QED
  BY <1>1, <1>2, <1>3, <1>4
-----------------------------------------------------------------------------
\* What integer division is: the one fact about chunk_size that is used.
LEMMA Division ==
    ASSUME NEW a \in Nat, NEW n \in Nat \ {0}
    PROVE  a \div n \in Nat /\ n * (a \div n) <= a /\ a < n * (a \div n) + n
  BY SMT

\* A product is monotone in its first factor.
LEMMA Monotone ==
    ASSUME NEW a \in Nat, NEW b \in Nat, NEW c \in Nat, a <= b
    PROVE  a * c \in Nat /\ b * c \in Nat /\ a * c <= b * c
  BY SMT

\* The successor of a factor.
LEMMA Successor ==
    ASSUME NEW a \in Nat, NEW c \in Nat
    PROVE  (a + 1) * c = a * c + c
  BY SMT

\* A chunk is a range of bytes, possibly empty.
LEMMA ChunkInBytes ==
    ASSUME n_threads \in Nat \ {0}, NEW t \in Ids
    PROVE  /\ t \in Nat /\ chunk_size \in Nat
           /\ Start(t) \in Nat /\ End(t) \in Nat
           /\ Start(t) <= End(t) /\ End(t) <= DataSize
<1>1. DataSize \in Nat
  BY MeasuredAssumption
<1>2. chunk_size \in Nat /\ n_threads * chunk_size <= DataSize
  BY <1>1, Division DEF chunk_size
<1>3. t \in Nat /\ t + 1 \in Nat /\ t + 1 <= n_threads
  BY DEF Ids
<1>4. (t + 1) * chunk_size <= n_threads * chunk_size
  BY <1>2, <1>3, Monotone
<1>5. (t + 1) * chunk_size = t * chunk_size + chunk_size /\ t * chunk_size \in Nat
  BY <1>2, <1>3, Successor, Monotone
<1>6. Start(t) \in Nat /\ Start(t) + chunk_size <= DataSize
  BY <1>1, <1>2, <1>4, <1>5 DEF Start
<1>7. QED
  BY <1>1, <1>2, <1>3, <1>6 DEF End

\* The chunk of a thread ends before that of any later thread begins.
LEMMA ChunksInOrder ==
    ASSUME n_threads \in Nat \ {0}, NEW s \in Ids, NEW t \in Ids, s < t
    PROVE  End(s) <= Start(t)
<1>1. chunk_size \in Nat
  BY ChunkInBytes
<1>2. s \in Nat /\ t \in Nat /\ s + 1 \in Nat /\ s + 1 <= t /\ s # n_threads - 1
  BY DEF Ids
<1>3. (s + 1) * chunk_size <= t * chunk_size
  BY <1>1, <1>2, Monotone
<1>4. (s + 1) * chunk_size = s * chunk_size + chunk_size
  BY <1>1, <1>2, Successor
<1>5. QED
  BY <1>2, <1>3, <1>4 DEF End, Start

\* Every byte is in some chunk: of those the division leaves over, the last.
LEMMA BytesCovered ==
    ASSUME n_threads \in Nat \ {0}, NEW b \in Bytes
    PROVE  \E t \in Ids : Start(t) <= b /\ b < End(t)
<1>1. DataSize \in Nat /\ b \in Nat /\ b < DataSize
  BY MeasuredAssumption DEF Bytes
<1> DEFINE last == n_threads - 1
           q == b \div chunk_size
<1>2. last \in Ids /\ last \in Nat /\ chunk_size \in Nat /\ End(last) = DataSize
  BY ChunkInBytes, <1>1 DEF Ids, End, chunk_size
<1>3. CASE chunk_size = 0
  <2>1. Start(last) = 0
    BY <1>2, <1>3, SMT DEF Start
  <2>2. QED
    BY <2>1, <1>1, <1>2
<1>4. CASE chunk_size # 0
  <2>1. q \in Nat /\ chunk_size * q <= b /\ b < chunk_size * q + chunk_size
    BY <1>1, <1>2, <1>4, Division
  <2>2. chunk_size * q = q * chunk_size
    BY <2>1, <1>2, SMT
  <2>3. CASE last <= q
    <3>1. last * chunk_size <= q * chunk_size /\ last * chunk_size \in Nat /\ q * chunk_size \in Nat
      BY <2>1, <2>3, <1>2, Monotone
    <3>2. Start(last) <= b
      BY <3>1, <2>1, <2>2, <1>1 DEF Start
    <3>3. QED
      BY <3>2, <1>1, <1>2
  <2>4. CASE q < last
    <3>1. q \in Ids /\ q # last
      BY <2>1, <2>4, <1>2 DEF Ids
    <3>2. Start(q) = q * chunk_size /\ End(q) = q * chunk_size + chunk_size
      BY <3>1 DEF Start, End
    <3>3. Start(q) <= b /\ b < End(q)
      BY <3>2, <2>1, <2>2
    <3>4. QED
      BY <3>1, <3>3
  <2>5. QED
    BY <2>1, <2>3, <2>4, <1>2
<1>5. QED
  BY <1>3, <1>4

(***************************************************************************)
(* copy_chunk divides the bytes: each is copied by exactly one thread, also*)
(* with more threads than bytes or a number that does not divide theirs.   *)
(***************************************************************************)
THEOREM Partition ==
    ASSUME n_threads \in Nat \ {0}, NEW b \in Bytes
    PROVE  \E t \in Ids : /\ b \in Start(t) .. End(t) - 1
                          /\ \A s \in Ids \ {t} : b \notin Start(s) .. End(s) - 1
<1>1. PICK t \in Ids : Start(t) <= b /\ b < End(t)
  BY BytesCovered
<1>2. b \in Int /\ t \in Int /\ Start(t) \in Int /\ End(t) \in Int
  BY ChunkInBytes DEF Bytes
<1>3. ASSUME NEW s \in Ids \ {t}  PROVE b \notin Start(s) .. End(s) - 1
  <2>1. s \in Int /\ Start(s) \in Int /\ End(s) \in Int
    BY ChunkInBytes
  <2>2. CASE s < t
    BY <2>1, <2>2, <1>1, <1>2, ChunksInOrder
  <2>3. CASE t < s
    BY <2>1, <2>3, <1>1, <1>2, ChunksInOrder
  <2>4. QED
    BY <2>1, <2>2, <2>3, <1>2
<1>4. QED
  BY <1>1, <1>2, <1>3
-----------------------------------------------------------------------------
\* Where main is in the loop, and what it has kept.
Counted == /\ Kept
           /\ pc \in {"fill", "spawn", "join", "verify"} => Running
           /\ pc \in {"calculate", "done"} => Over

\* The threads of an iteration are made before they are joined.
Spawned == /\ pc = "spawn" => j < n_threads
           /\ pc \in {"join", "verify"} => j = n_threads

\* A thread stays in its chunk.
Within == \A t \in Ids : t < j => Start(t) <= at[t] /\ at[t] <= End(t)

\* What a thread has behind it is copied.
Copied == pc \in {"spawn", "join", "verify"} =>
              \A t \in Ids : t < j => \A b \in Start(t) .. at[t] - 1 : b \in dst

\* Outside of spawn and join no thread is left.
Joined == pc \notin {"spawn", "join"} => \A t \in Ids : ~Copying(t)

(***************************************************************************)
(* The inductive invariant.  RaceFree and FullCopy are not inductive: they *)
(* do not say where in its chunk a thread is, nor what it has copied.      *)
(***************************************************************************)
IInv == TypeOK /\ Counted /\ Spawned /\ Within /\ Copied /\ Joined

LEMMA InitIInv == Init => IInv
<1> SUFFICES ASSUME Init PROVE IInv
  OBVIOUS
<1> USE DEF Init, MeasuredInit
<1>1. n_threads \in ThreadCounts /\ n_threads \in Nat \ {0} /\ DataSize \in Nat
  BY ThreadAssumption, MeasuredAssumption
<1>2. TypeOK
  BY <1>1, MeasuredAssumption DEF TypeOK, MeasuredTypeOK, Ids
<1>3. Counted
  BY MeasuredAssumption DEF Counted, Kept, Running, Over
<1>4. Spawned /\ Copied
  BY DEF Spawned, Copied
<1>5. \A t \in Ids : ~(t < j)
  BY <1>1 DEF Ids
<1>6. Within /\ Joined
  BY <1>5 DEF Within, Joined, Copying
<1>7. QED
  BY <1>2, <1>3, <1>4, <1>6 DEF IInv

\* The chunks do not change in a step that leaves n_threads alone.
LEMMA SameChunks ==
    ASSUME UNCHANGED n_threads
    PROVE  /\ Ids' = Ids
           /\ \A t : Start(t)' = Start(t) /\ End(t)' = End(t)
  BY DEF Ids, Start, End, chunk_size

LEMMA NextIInv == IInv /\ [Next]_vars => IInv'
<1> SUFFICES ASSUME IInv, [Next]_vars PROVE IInv'
  OBVIOUS
<1> USE DEF IInv
<1>1. /\ n_threads \in Nat \ {0} /\ DataSize \in Nat
      /\ NumWarmups \in Nat /\ NumIterations \in Nat \ {0}
      /\ j \in Nat /\ i \in Nat
  BY ThreadAssumption, MeasuredAssumption DEF TypeOK, MeasuredTypeOK
<1>2. UNCHANGED n_threads
  BY DEF Next, Main, Worker, Clear, Spawn, Join, Verify, Calculate, Copy, vars, threads
<1>3. /\ Ids' = Ids
      /\ \A t : Start(t)' = Start(t) /\ End(t)' = End(t)
  BY <1>2, SameChunks
<1>4. CASE Clear
  <2> USE <1>4 DEF Clear, Fill
  <2>1. TypeOK'
    BY <1>1, <1>3 DEF TypeOK, MeasuredTypeOK
  <2>2. Counted' /\ Spawned'
    BY <1>1 DEF Counted, Kept, Running, Over, Spawned
  <2>3. \A t \in Ids' : ~(t < j')
    BY <1>1, <1>3 DEF Ids
  <2>4. Within' /\ Copied' /\ Joined'
    BY <2>3 DEF Within, Copied, Joined, Copying
  <2>5. QED
    BY <2>1, <2>2, <2>4
<1>5. CASE Spawn
  <2> USE <1>5 DEF Spawn
  <2>1. j < n_threads /\ j \in Ids
    BY <1>1 DEF Spawned, Ids
  <2>2. Start(j) \in Nat /\ End(j) \in Nat /\ Start(j) <= End(j) /\ End(j) <= DataSize
    BY <2>1, <1>1, ChunkInBytes
  <2>3. TypeOK'
    BY <2>1, <2>2, <1>1, <1>2, <1>3 DEF TypeOK, MeasuredTypeOK
  <2>4. Counted' /\ Spawned'
    BY <2>1, <1>1, <1>2 DEF Counted, Kept, Running, Over, Spawned
  <2>5. ASSUME NEW t \in Ids, t < j'
        PROVE  \/ t < j /\ at'[t] = at[t]
               \/ t = j /\ at'[t] = Start(t)
    BY <2>1, <2>5, <1>1 DEF TypeOK, Ids
  <2>6. Within'
    BY <2>2, <2>5, <1>3 DEF Within
  <2>7. ASSUME NEW t \in Ids, t < j', NEW b \in Start(t) .. at'[t] - 1
        PROVE  b \in dst'
    <3>1. CASE t < j /\ at'[t] = at[t]
      BY <3>1, <2>7 DEF Copied
    <3>2. CASE t = j /\ at'[t] = Start(t)
      BY <3>2, <2>2, <2>7
    <3>3. QED
      BY <2>5, <2>7, <3>1, <3>2
  <2>8. Copied'
    BY <2>7, <1>3 DEF Copied
  <2>9. Joined'
    BY DEF Joined
  <2>10. QED
    BY <2>3, <2>4, <2>6, <2>8, <2>9
<1>6. CASE Join
  <2> USE <1>6 DEF Join, threads
  <2>1. TypeOK'
    BY <1>3 DEF TypeOK, MeasuredTypeOK
  <2>2. Counted' /\ Spawned'
    BY <1>1 DEF Counted, Kept, Running, Over, Spawned
  <2>3. Within' /\ Copied'
    BY <1>3 DEF Within, Copied
  <2>4. Joined'
    BY <1>3 DEF Joined, Copying
  <2>5. QED
    BY <2>1, <2>2, <2>3, <2>4
<1>7. CASE Verify
  <2> USE <1>7 DEF Verify, threads
  <2>1. MeasuredTypeOK' /\ Kept' /\ ((pc' = "fill" /\ Running') \/ (pc' = "calculate" /\ Over'))
    BY EndIterationCounts DEF Counted, TypeOK
  <2>2. TypeOK' /\ Counted'
    BY <2>1, <1>3 DEF TypeOK, Counted
  <2>3. Spawned' /\ Copied'
    BY <2>1 DEF Spawned, Copied
  <2>4. Within' /\ Joined'
    BY <2>1, <1>3 DEF Within, Joined, Copying
  <2>5. QED
    BY <2>2, <2>3, <2>4
<1>8. CASE Calculate
  <2> USE <1>8 DEF Calculate, CalculateBandwidth, threads
  <2>1. Len(durations) = NumIterations
    BY OverKeepsAll DEF Counted
  <2>2. TypeOK'
    BY <2>1, <1>3 DEF TypeOK, MeasuredTypeOK
  <2>3. Counted' /\ Spawned' /\ Copied'
    BY <2>1, <1>1 DEF Counted, Kept, Running, Over, Spawned, Copied
  <2>4. Within' /\ Joined'
    BY <2>1, <1>3 DEF Within, Joined, Copying
  <2>5. QED
    BY <2>2, <2>3, <2>4
<1>9. CASE Worker
  <2>1. PICK t \in Ids : Copy(t)
    BY <1>9 DEF Worker
  <2>2. /\ UNCHANGED <<pc, i, durations, n_threads, j>>
        /\ dst' = dst \cup {at[t]}
        /\ at' = [at EXCEPT ![t] = @ + 1]
    BY <2>1 DEF Copy
  <2>3. /\ at \in [Ids -> 0 .. DataSize] /\ at[t] \in Nat
        /\ t < j /\ at[t] < End(t) /\ Start(t) <= at[t]
        /\ Start(t) \in Nat /\ End(t) \in Nat /\ End(t) <= DataSize
    BY <1>1, <2>1, ChunkInBytes DEF TypeOK, Within, Copying, Copy
  <2>4. TypeOK'
    <3>1. at' \in [Ids -> 0 .. DataSize]
      BY <2>2, <2>3, <1>1
    <3>2. dst' \subseteq Bytes
      <4>1. at[t] \in Bytes
        BY <2>3, <1>1 DEF Bytes
      <4>2. dst \subseteq Bytes
        BY DEF TypeOK, MeasuredTypeOK
      <4>3. QED
        BY <4>1, <4>2, <2>2
    <3>3. UNCHANGED <<pc, i, durations, n_threads, j>>
      BY <2>2
    <3>4. /\ i \in 0 .. NumWarmups + NumIterations
          /\ durations \in Seq(Durations)
          /\ Len(durations) <= NumIterations
      BY DEF TypeOK, MeasuredTypeOK
    <3>5. MeasuredTypeOK'
      BY <3>2, <3>3, <3>4 DEF MeasuredTypeOK
    <3>6. QED
      BY <3>1, <3>3, <3>5, <1>3 DEF TypeOK
  <2>5. Counted' /\ Spawned'
    BY <2>2 DEF Counted, Kept, Running, Over, Spawned
  <2>6. Within'
    BY <2>2, <2>3, <1>3 DEF Within
  <2>7. ASSUME pc \in {"spawn", "join", "verify"},
               NEW s \in Ids, s < j, NEW b \in Start(s) .. at'[s] - 1
        PROVE  b \in dst'
    <3>1. CASE b = at[t]
      BY <3>1, <2>2
    <3>2. CASE b # at[t]
      <4>1. Start(s) \in Int
        BY <1>1, ChunkInBytes
      <4>2. b \in Start(s) .. at[s] - 1
        BY <4>1, <3>2, <2>2, <2>3, <2>7
      <4>3. QED
        BY <4>2, <2>2, <2>7 DEF Copied
    <3>3. QED
      BY <3>1, <3>2
  <2>8. Copied'
    BY <2>2, <2>7, <1>3 DEF Copied
  <2>9. Joined'
    <3>1. \A s \in Ids : at'[s] >= at[s]
      BY <2>2, <2>3 DEF TypeOK
    <3>2. pc \notin {"spawn", "join"} => ~Copying(t)
      BY DEF Joined
    <3>3. QED
      BY <3>2, <2>2, <2>3 DEF Joined, Copying
  <2>10. QED
    BY <2>4, <2>5, <2>6, <2>8, <2>9
<1>10. CASE UNCHANGED vars
  <2> USE <1>10 DEF vars, measured, threads
  <2>1. TypeOK' /\ Counted' /\ Spawned'
    BY <1>3 DEF TypeOK, MeasuredTypeOK, Counted, Kept, Running, Over, Spawned
  <2>2. Within' /\ Copied' /\ Joined'
    BY <1>3 DEF Within, Copied, Joined, Copying
  <2>3. QED
    BY <2>1, <2>2
<1>11. QED
  BY <1>4, <1>5, <1>6, <1>7, <1>8, <1>9, <1>10 DEF Next, Main

\* The invariant holds in every state of every run.
THEOREM Invariance == Spec => []IInv
<1>1. QED
  BY InitIInv, NextIInv, PTL DEF Spec

\* Every variable keeps its type; in particular the check of CalculateBandwidth
\* on the number of durations never ends the program.
THEOREM TypeCorrect == Spec => []TypeOK
<1>1. IInv => TypeOK
  BY DEF IInv
<1>2. QED
  BY <1>1, Invariance, PTL

LEMMA InvIsRaceFree == IInv => RaceFree
<1> SUFFICES ASSUME IInv PROVE RaceFree
  OBVIOUS
<1>1. n_threads \in Nat \ {0} /\ j \in Nat
  BY ThreadAssumption DEF IInv, TypeOK
<1>2. ASSUME NEW s \in Ids, NEW t \in Ids, s < t, Copying(s), Copying(t),
             NEW b \in at[s] .. End(s) - 1
      PROVE  b \notin at[t] .. End(t) - 1
  <2>1. End(s) <= Start(t)
    BY <1>1, <1>2, ChunksInOrder
  <2>2. Start(t) <= at[t] /\ at[s] \in Int /\ at[t] \in Int
    BY <1>2 DEF IInv, Within, TypeOK, Copying
  <2>3. End(s) \in Int /\ End(t) \in Int /\ Start(t) \in Int
    BY <1>1, ChunkInBytes
  <2>4. QED
    BY <2>1, <2>2, <2>3
<1>3. ASSUME NEW s \in Ids, NEW t \in Ids, s # t, Copying(s), Copying(t),
             NEW b \in at[s] .. End(s) - 1
      PROVE  b \notin at[t] .. End(t) - 1
  <2>1. s < t \/ t < s
    BY <1>1, <1>3 DEF Ids
  <2>2. QED
    BY <1>2, <1>3, <2>1
<1>4. QED
  BY <1>3 DEF RaceFree, IInv, Joined

\* No two threads have the same byte left to copy, whatever their number, and
\* the main thread touches dst when none is copying.
THEOREM ThreadsDoNotRace == Spec => []RaceFree
<1>1. QED
  BY InvIsRaceFree, Invariance, PTL

LEMMA CopyIsFull == IInv => FullCopy
<1> SUFFICES ASSUME IInv, pc = "verify", NEW b \in Bytes PROVE b \in dst
  BY DEF FullCopy, IInv, TypeOK, MeasuredTypeOK
<1>1. n_threads \in Nat \ {0} /\ j = n_threads
  BY ThreadAssumption DEF IInv, TypeOK, Spawned
<1>2. PICK t \in Ids : Start(t) <= b /\ b < End(t)
  BY <1>1, BytesCovered
<1>3. t < j /\ at[t] \in Int /\ b \in Int /\ Start(t) \in Int /\ End(t) \in Int
  BY <1>1, <1>2, ChunkInBytes DEF IInv, TypeOK, Ids, Bytes
<1>4. End(t) <= at[t]
  BY <1>3 DEF IInv, Joined, Copying
<1>5. b \in Start(t) .. at[t] - 1
  BY <1>2, <1>3, <1>4
<1>6. QED
  BY <1>3, <1>5 DEF IInv, Copied

\* When the time is taken every byte is copied, whatever the number of threads.
THEOREM EveryByteIsCopied == Spec => []FullCopy
<1>1. QED
  BY CopyIsFull, Invariance, PTL

LEMMA InitImplements == Init => Abstract!Init
  BY DEF Init, MeasuredInit, Abstract!Init, Abstract!MeasuredInit, CopyPending

\* Join is the step that copies; the others are steps of memcpy or stutters.
LEMMA StepImplements ==
    ASSUME IInv, FullCopy', [Next]_vars
    PROVE  [Abstract!Main]_Abstract!vars
<1> USE DEF Abstract!vars, CopyPending
<1>1. CASE Clear
  BY <1>1 DEF Clear, Fill, Abstract!Main, Abstract!Fill
<1>2. CASE Spawn
  BY <1>2 DEF Spawn
<1>3. CASE Join
  <2>1. dst' = Bytes
    BY <1>3 DEF Join, FullCopy, Bytes
  <2>2. Abstract!Copy
    BY <2>1, <1>3 DEF Join, Abstract!Copy, Abstract!Bytes, Bytes
  <2>3. QED
    BY <2>2 DEF Abstract!Main
<1>4. CASE Verify
  BY <1>4 DEF Verify, EndIteration, Abstract!Main, Abstract!Verify, Abstract!EndIteration
<1>5. CASE Calculate
  BY <1>5 DEF Calculate, CalculateBandwidth, Abstract!Main, Abstract!CalculateBandwidth
<1>6. CASE Worker
  <2>1. PICK t \in Ids : Copy(t)
    BY <1>6 DEF Worker
  <2>2. Copying(t) /\ UNCHANGED <<pc, i, durations>>
    BY <2>1 DEF Copy
  <2>3. pc \in {"spawn", "join"}
    BY <2>2 DEF IInv, Joined
  <2>4. QED
    BY <2>2, <2>3
<1>7. CASE UNCHANGED vars
  BY <1>7 DEF vars, measured
<1>8. QED
  BY <1>1, <1>2, <1>3, <1>4, <1>5, <1>6, <1>7 DEF Next, Main

(***************************************************************************)
(* memcpy_mt implements memcpy: join is the step that copies, and what     *)
(* comes before it, from spawn on, are stutters.                           *)
(***************************************************************************)
THEOREM Implementation == Spec => ImplementsMemcpy
<1>1. QED
  BY InitImplements, StepImplements, Invariance, EveryByteIsCopied, PTL
  DEF Spec, ImplementsMemcpy, Abstract!Spec
=============================================================================
