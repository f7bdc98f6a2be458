------------------------- MODULE MemoryBandwidthProofs -------------------------
(***************************************************************************)
(* Proofs about the pipelines of shm_bandwidth.cc and mmap_bandwidth.cc,   *)
(* for every data_size, buffer_size and number of iterations: while both   *)
(* processes copy they use different slots of the same memory, the receiver*)
(* gets the bytes in order and all of them, no memcpy overruns, and no     *)
(* iteration touches the memory of another or a truncated file.            *)
(***************************************************************************)
EXTENDS MemoryBandwidth, TLAPS

Peer(p) == IF p = "sender" THEN "receiver" ELSE "sender"

Waits == {"w_start", "w_open", "w_map", "w_slot", "w_end"}
Loop  == {"w_slot", "start", "copy", "w_end"}

\* The lines of both, and of each process: all but "aborted".
Labels == {"w_start", "w_open", "w_map", "w_slot", "start", "copy", "w_end", "open", "create",
           "resize", "clear", "verify", "unlink", "unmap", "done"}

Lines(p) ==
    Loop \cup {"w_open", "w_map", "done"} \cup
    (IF type = "shm"
     THEN IF p = "sender" THEN {"open", "unmap"} ELSE {"create", "clear", "verify", "unlink"}
     ELSE IF p = "sender" THEN {"w_start", "open", "resize", "clear", "unmap"}
                          ELSE {"w_start", "open", "verify"})

\* Bytes in the first j chunks, and bytes the receiver has before step j: it is
\* one chunk behind, and at step 0 its slot is empty.
Offset(j) == Smaller(j * BufferSize, DataSize)
Before(j) == IF j = 0 THEN 0 ELSE Offset(j - 1)

\* Slot s of memory o holds what the receiver takes in step j.
Holds(o, s, j) ==
    /\ size[o][s] = Before(j + 1) - Before(j)
    /\ \A b \in 1 .. size[o][s] : bytes[o][s][b] = Before(j) + b
-----------------------------------------------------------------------------
\* Where p is among the waits: the iteration, which ends with the return from
\* w_end, and how many returns from waits it is into it (one more for w_start).
It(p) == IF pc[p] \in {"verify", "unlink", "unmap"} THEN iter[p] + 1 ELSE iter[p]

Opening(p) == IF type = "mmap" /\ p = "sender" THEN "clear" ELSE "open"

Stage(p) ==
    IF pc[p] = "w_start" THEN 0
    ELSE IF pc[p] \in {"w_slot", "w_end"} THEN 3 + i[p]
    ELSE IF pc[p] \in {"start", "copy"} THEN 4 + i[p]
    ELSE IF pc[p] \in {"w_map", Opening(p)} THEN 2
    ELSE 1

\* p has returned from the wait that q is at.
Follows(p, q) ==
    IF pc[q] = "w_end" THEN It(p) = iter[q] + 1 /\ Stage(p) = 1
                       ELSE It(p) = iter[q] /\ Stage(p) = Stage(q) + 1

\* Both processes make the same waits: with as many returns behind them they
\* are at the same place, and who is ahead is by one, the other being counted.
SyncInv ==
    \A p \in Procs : LET q == Peer(p) IN
        /\ arrived[p] \in {passed[p], passed[p] + 1}
        /\ arrived[p] # passed[p] => pc[p] \in Waits
        /\ passed[p] = passed[q] => It(p) = It(q) /\ Stage(p) = Stage(q)
        /\ passed[p] <= passed[q] + 1
        /\ passed[p] = passed[q] + 1 => arrived[q] = passed[p] /\ Follows(p, q)

\* Where each process is in its loops, and the lengths of its memcpy.
LoopAt(p) ==
    /\ pc[p] \in Lines(p)
    /\ IF pc[p] = "done" THEN iter[p] = Iterations ELSE iter[p] < Iterations
    /\ pc[p] \in {"w_slot", "start", "copy"} => i[p] < NPipeline
    /\ pc[p] = "w_end" => i[p] = NPipeline
    /\ pc[p] \in Loop =>
          count[p] = IF p = "sender" THEN Offset(i[p]) ELSE Before(i[p])
    /\ pc[p] = "copy" =>
          /\ k[p] <= len[p]
          /\ len[p] = IF p = "sender" THEN Offset(i[p] + 1) - Offset(i[p])
                                      ELSE Before(i[p] + 1) - Before(i[p])

LoopInv == pc \in [Procs -> Labels] /\ \A p \in Procs : LoopAt(p)

\* The lines at which p has a mapping, and the memory it is of.
Mapped(p) ==
    {"w_map", "w_slot", "start", "copy", "w_end", "unmap", "verify"} \cup
    (IF type = "shm"
     THEN IF p = "sender" THEN {} ELSE {"clear", "w_open", "unlink"}
     ELSE IF p = "sender" THEN {"w_open", "clear"} ELSE {})

Object(p) == IF type = "shm" THEN iter[p] + 1 ELSE 1

MapInv ==
    /\ \A p \in Procs : map[p] = IF pc[p] \in Mapped(p) THEN Object(p) ELSE 0
    /\ type = "shm" =>
          /\ shm_name = map["receiver"]
          /\ n_created = IF map["receiver"] = 0 THEN iter["receiver"]
                                                ELSE iter["receiver"] + 1
    /\ type = "mmap" =>
          /\ file_size \in {"none", "empty", "full"}
          /\ map["sender"] # 0 => file_size = "full"

\* Before the pipeline the receiver's first slot is empty; in it the sender has
\* filled the slots of this step and of the one before.
ContentInv ==
    /\ type = "shm" /\ pc["receiver"] \in {"w_open", "w_map"} => size[map["receiver"]][1] = 0
    /\ pc["sender"] = "w_map" => size[map["sender"]][1] = 0
    /\ pc["sender"] \in {"w_slot", "start", "copy"} =>
          Holds(map["sender"], (i["sender"] + 1) % 2, i["sender"])
    /\ pc["sender"] \in {"w_slot", "w_end"} /\ i["sender"] # 0 =>
          Holds(map["sender"], i["sender"] % 2, i["sender"] - 1)
    /\ pc["sender"] = "copy" =>
          \A b \in 1 .. k["sender"] :
              bytes[map["sender"]][i["sender"] % 2][b] = Offset(i["sender"]) + b

\* What the receiver has counted and copied is the data.
ReceivedInv ==
    /\ pc["receiver"] \in Loop => \A b \in 1 .. count["receiver"] : received[b] = b
    /\ pc["receiver"] = "copy" =>
          \A b \in 1 .. k["receiver"] : received[count["receiver"] + b] = count["receiver"] + b
    /\ pc["receiver"] = "verify" => received = DataToSend

(***************************************************************************)
(* The inductive invariant.                                                *)
(***************************************************************************)
IInv == /\ type \in {"shm", "mmap"}
        /\ PipelineTypeOK
        /\ LoopInv
        /\ SyncInv
        /\ MapInv
        /\ ContentInv
        /\ ReceivedInv
-----------------------------------------------------------------------------
\* Multiplication and division by the size of a slot: all that is used of them.
LEMMA Successor ==
    ASSUME NEW a \in Nat, NEW c \in Nat
    PROVE  a * c \in Nat /\ (a + 1) * c = a * c + c
  BY SMT

LEMMA Division ==
    ASSUME NEW a \in Nat, NEW n \in Nat \ {0}
    PROVE  /\ a \div n \in Nat /\ a < (a \div n) * n + n
           /\ a >= n => a \div n # 0
<1>1. a \div n \in Nat /\ a < n * (a \div n) + n
  BY SMT
<1>2. n * (a \div n) = (a \div n) * n
  BY <1>1, SMT
<1>3. ASSUME a >= n, a \div n = 0 PROVE FALSE
  BY <1>1, <1>3, SMT
<1>4. QED
  BY <1>1, <1>2, <1>3

\* The slots of a step are different, and each is the other's of the next step.
LEMMA Parity ==
    ASSUME NEW n \in Nat
    PROVE  /\ n % 2 \in Slots /\ (n + 1) % 2 \in Slots
           /\ n % 2 # (n + 1) % 2 /\ (n + 2) % 2 = n % 2
  BY SMT DEF Slots

\* The chunks follow each other without a gap, none is longer than a slot, and
\* all but the last step of the pipeline take the sender to the end.
LEMMA Chunks ==
    /\ Offset(0) = 0
    /\ \A n \in Nat : /\ Offset(n) \in 0 .. DataSize
                      /\ Offset(n + 1) = Offset(n) + Smaller(DataSize - Offset(n), BufferSize)
    /\ NPipeline \in Nat /\ NPipeline >= 2 /\ Offset(NPipeline - 1) = DataSize
<1>1. DataSize \in Nat \ {0} /\ BufferSize \in Nat \ {0}
  BY SizeAssumption
<1>2. Offset(0) = 0
  BY <1>1 DEF Offset, Smaller
<1>3. ASSUME NEW n \in Nat
      PROVE  /\ Offset(n) \in 0 .. DataSize
             /\ Offset(n + 1) = Offset(n) + Smaller(DataSize - Offset(n), BufferSize)
  BY <1>1, Successor DEF Offset, Smaller
<1>4. NPipeline \in Nat /\ NPipeline >= 2 /\ Offset(NPipeline - 1) = DataSize
  <2> DEFINE a == DataSize + BufferSize - 1
             n == a \div BufferSize
  <2>1. a \in Nat /\ a >= BufferSize
    BY <1>1
  <2>2. n \in Nat /\ n # 0 /\ a < n * BufferSize + BufferSize
    BY <1>1, <2>1, Division
  <2>3. n * BufferSize \in Nat
    BY <1>1, <2>2, Successor
  <2>4. NPipeline = n + 1
    BY DEF NPipeline
  <2>5. NPipeline - 1 = n
    BY <2>2, <2>4
  <2>6. DataSize <= n * BufferSize
    BY <1>1, <2>2, <2>3
  <2>7. Offset(n) = DataSize
    BY <1>1, <2>3, <2>6 DEF Offset, Smaller
  <2>8. QED
    BY <2>2, <2>4, <2>5, <2>7
<1>5. QED
  BY <1>2, <1>3, <1>4

\* The same of the receiver, a chunk behind.
LEMMA ChunksBehind ==
    /\ Before(0) = 0 /\ Before(1) = 0 /\ Before(NPipeline) = DataSize
    /\ \A n \in Nat : /\ Before(n) \in 0 .. DataSize
                      /\ Before(n + 1) = Offset(n)
                      /\ Before(n + 1) - Before(n) \in 0 .. BufferSize
                      /\ Offset(n + 1) - Offset(n) \in 0 .. BufferSize
<1>1. DataSize \in Nat \ {0} /\ BufferSize \in Nat \ {0}
  BY SizeAssumption
<1>2. ASSUME NEW n \in Nat PROVE Before(n) \in 0 .. DataSize /\ Before(n + 1) = Offset(n)
  <2>1. CASE n = 0
    BY <1>1, <2>1 DEF Before
  <2>2. CASE n # 0
    <3>1. n - 1 \in Nat
      BY <2>2
    <3>2. QED
      BY <2>2, <3>1, Chunks DEF Before
  <2>3. QED
    BY <2>1, <2>2
<1>3. ASSUME NEW n \in Nat PROVE Offset(n + 1) - Offset(n) \in 0 .. BufferSize
  <2>1. /\ Offset(n) \in 0 .. DataSize
        /\ Offset(n + 1) = Offset(n) + Smaller(DataSize - Offset(n), BufferSize)
    BY Chunks
  <2>2. Smaller(DataSize - Offset(n), BufferSize) \in 0 .. BufferSize
    BY <1>1, <2>1 DEF Smaller
  <2>3. QED
    BY <1>1, <2>1, <2>2
<1>4. ASSUME NEW n \in Nat PROVE Before(n + 1) - Before(n) \in 0 .. BufferSize
  <2>1. CASE n = 0
    <3>1. Before(n + 1) = 0 /\ Before(n) = 0
      BY <1>2, <2>1, Chunks DEF Before
    <3>2. QED
      BY <1>1, <3>1
  <2>2. CASE n # 0
    <3>1. n - 1 \in Nat /\ (n - 1) + 1 = n
      BY <2>2
    <3>2. Before(n + 1) = Offset((n - 1) + 1) /\ Before(n) = Offset(n - 1)
      BY <1>2, <2>2, <3>1 DEF Before
    <3>3. QED
      BY <1>3, <3>1, <3>2
  <2>3. QED
    BY <2>1, <2>2
<1>5. Before(0) = 0 /\ Before(1) = 0 /\ Before(NPipeline) = DataSize
  BY <1>1, Chunks DEF Before
<1>6. QED
  BY <1>2, <1>3, <1>4, <1>5
-----------------------------------------------------------------------------
\* What the other process and the places of both are left as.
Stays(q) == pc'[q] = pc[q] /\ iter'[q] = iter[q] /\ i'[q] = i[q]

LEMMA StaysInPlace ==
    ASSUME NEW q \in Procs, Stays(q), UNCHANGED type
    PROVE  It(q)' = It(q) /\ Stage(q)' = Stage(q)
  BY DEF Stays, It, Stage, Opening

LEMMA Peers ==
    ASSUME NEW p \in Procs
    PROVE  /\ Peer(p) \in Procs /\ Peer(p) # p /\ Peer(Peer(p)) = p
           /\ \A q \in Procs : q = p \/ q = Peer(p)
  BY DEF Procs, Peer

\* The places of the processes are numbers.
LEMMA Places ==
    ASSUME PipelineTypeOK, NEW p \in Procs
    PROVE  /\ iter[p] \in Nat /\ i[p] \in Nat /\ It(p) \in Nat /\ Stage(p) \in Nat
           /\ arrived[p] \in Nat /\ passed[p] \in Nat
<1>1. /\ iter[p] \in Nat /\ i[p] \in Nat /\ arrived[p] \in Nat /\ passed[p] \in Nat
  BY SizeAssumption, Chunks DEF PipelineTypeOK
<1>2. It(p) \in Nat
  BY <1>1 DEF It
<1>3. Stage(p) \in Nat
  BY <1>1 DEF Stage
<1>4. QED
  BY <1>1, <1>2, <1>3

\* Who is not at a wait is not waited past: the other is at the same place, or
\* at the wait that p has returned from.
LEMMA Together ==
    ASSUME PipelineTypeOK, SyncInv, NEW p \in Procs, arrived[p] = passed[p]
    PROVE  LET q == Peer(p) IN
           \/ passed[p] = passed[q] /\ It(p) = It(q) /\ Stage(p) = Stage(q)
           \/ passed[p] = passed[q] + 1 /\ pc[q] \in Waits /\ Follows(p, q)
<1> DEFINE q == Peer(p)
<1>1. q \in Procs /\ Peer(q) = p
  BY Peers
<1>2. /\ arrived[p] \in Nat /\ passed[p] \in Nat
      /\ arrived[q] \in Nat /\ passed[q] \in Nat
  BY <1>1, Places
<1>3. /\ passed[q] <= passed[p] + 1 /\ passed[p] <= passed[q] + 1
      /\ passed[q] # passed[p] + 1
  BY <1>1, <1>2 DEF SyncInv
<1>4. passed[p] = passed[q] \/ passed[p] = passed[q] + 1
  BY <1>2, <1>3
<1>5. passed[p] = passed[q] + 1 => pc[q] \in Waits /\ Follows(p, q)
  BY <1>1, <1>2 DEF SyncInv
<1>6. passed[p] = passed[q] => It(p) = It(q) /\ Stage(p) = Stage(q)
  BY DEF SyncInv
<1>7. QED
  BY <1>4, <1>5, <1>6

\* A step between two waits.
LEMMA SyncKept ==
    ASSUME PipelineTypeOK, SyncInv, NEW p \in Procs, pc[p] \notin Waits,
           UNCHANGED <<barrier, type>>, Stays(Peer(p)),
           It(p)' = It(p), Stage(p)' = Stage(p)
    PROVE  SyncInv'
<1> DEFINE q == Peer(p)
<1>1. q \in Procs /\ Peer(q) = p /\ \A r \in Procs : r = p \/ r = q
  BY Peers
<1>2. It(q)' = It(q) /\ Stage(q)' = Stage(q)
  BY <1>1, StaysInPlace
<1>3. arrived[p] = passed[p] /\ passed[p] \in Nat /\ passed[q] \in Nat
  BY <1>1, Places DEF SyncInv
<1>4. passed[q] # passed[p] + 1
  BY <1>1, <1>3 DEF SyncInv
<1>5. Follows(p, q) => Follows(p, q)'
  BY <1>2 DEF Follows, Stays
<1>6. arrived' = arrived /\ passed' = passed /\ pc'[q] = pc[q]
  BY DEF barrier, Stays
<1>7. SyncInv!(p)' /\ SyncInv!(q)'
  BY <1>1, <1>2, <1>3, <1>4, <1>5, <1>6 DEF SyncInv
<1>8. QED
  BY <1>1, <1>7 DEF SyncInv

\* barrier.Wait() counts the caller.
LEMMA SyncArrive ==
    ASSUME PipelineTypeOK, SyncInv, NEW p \in Procs, NEW line \in Waits,
           ArriveAt(p, line), UNCHANGED type
    PROVE  SyncInv'
<1> DEFINE q == Peer(p)
<1>1. q \in Procs /\ q # p /\ Peer(q) = p /\ \A r \in Procs : r = p \/ r = q
  BY Peers
<1>2. /\ arrived[p] = passed[p] /\ passed[p] \in Nat /\ passed[q] \in Nat
      /\ arrived[q] \in Nat
  BY <1>1, Places DEF ArriveAt, Barrier!Arrive
<1>3. /\ arrived'[p] = arrived[p] + 1 /\ arrived'[q] = arrived[q]
      /\ passed' = passed /\ pc' = pc /\ iter' = iter /\ i' = i
  BY <1>1 DEF ArriveAt, Barrier!Arrive, pipeline, PipelineTypeOK
<1>4. \A r \in Procs : It(r)' = It(r) /\ Stage(r)' = Stage(r)
  BY <1>3 DEF It, Stage, Opening
<1>5. pc[p] \in Waits
  BY DEF ArriveAt
<1>6. passed[q] # passed[p] + 1
  BY <1>1, <1>2 DEF SyncInv
<1>7. Follows(p, q) => Follows(p, q)'
  BY <1>1, <1>3, <1>4 DEF Follows
<1>8. SyncInv!(p)' /\ SyncInv!(q)'
  BY <1>1, <1>2, <1>3, <1>4, <1>5, <1>6, <1>7 DEF SyncInv
<1>9. QED
  BY <1>1, <1>8 DEF SyncInv

\* barrier.Wait() returns: p is now where who has returned before it is, or one
\* wait ahead of who has not.
LEMMA SyncPass ==
    ASSUME PipelineTypeOK, LoopInv, SyncInv, NEW p \in Procs, pc[p] \in Waits,
           Barrier!Pass(p), UNCHANGED type, Stays(Peer(p)),
           IF pc[p] = "w_end" THEN It(p)' = iter[p] + 1 /\ Stage(p)' = 1
                              ELSE It(p)' = iter[p] /\ Stage(p)' = Stage(p) + 1
    PROVE  SyncInv'
<1> DEFINE q == Peer(p)
<1>1. q \in Procs /\ q # p /\ Peer(q) = p /\ \A r \in Procs : r = p \/ r = q
  BY Peers
<1>2. It(q)' = It(q) /\ Stage(q)' = Stage(q)
  BY <1>1, StaysInPlace
<1>3. /\ arrived[p] \in Nat /\ arrived[q] \in Nat /\ passed[p] \in Nat /\ passed[q] \in Nat
      /\ iter[p] \in Nat /\ i[p] \in Nat /\ iter[q] \in Nat /\ i[q] \in Nat
  BY <1>1, Places
<1>4. /\ arrived[p] = passed[p] + 1 /\ arrived[p] <= arrived[q] /\ arrived' = arrived
      /\ passed'[p] = passed[p] + 1 /\ passed'[q] = passed[q]
  BY <1>1, <1>3 DEF Barrier!Pass, SyncInv, PipelineTypeOK
<1>5. passed[p] # passed[q] + 1
  BY <1>1, <1>3, <1>4 DEF SyncInv
<1>6. passed[p] = passed[q] \/ passed[q] = passed[p] + 1
  BY <1>1, <1>3, <1>5 DEF SyncInv
<1>7. CASE passed[p] = passed[q]
  <2>1. arrived[q] = passed'[p] /\ pc[q] \in Waits
    BY <1>1, <1>3, <1>4, <1>7 DEF SyncInv
  <2>2. It(p) = It(q) /\ Stage(p) = Stage(q) /\ It(p) = iter[p] /\ It(q) = iter[q]
    BY <1>7, <2>1 DEF SyncInv, It, Waits
  <2>3. pc[p] = "w_end" <=> pc[q] = "w_end"
    <3>1. \A r \in Procs : pc[r] \in Waits =>
             (pc[r] = "w_end" <=> Stage(r) = 3 + NPipeline)
      BY Places, Chunks DEF Stage, Waits, LoopInv, LoopAt, Opening
    <3>2. QED
      BY <1>1, <2>1, <2>2, <3>1
  <2>4. Follows(p, q)'
    BY <1>2, <2>2, <2>3 DEF Follows, Stays
  <2>5. SyncInv!(p)' /\ SyncInv!(q)'
    BY <1>1, <1>2, <1>3, <1>4, <1>7, <2>1, <2>4 DEF SyncInv, Stays
  <2>6. QED
    BY <1>1, <2>5 DEF SyncInv
<1>8. CASE passed[q] = passed[p] + 1
  <2>1. Follows(q, p)
    BY <1>1, <1>8 DEF SyncInv
  <2>2. It(p)' = It(q)' /\ Stage(p)' = Stage(q)'
    BY <1>2, <2>1 DEF Follows
  <2>3. SyncInv!(p)' /\ SyncInv!(q)'
    BY <1>1, <1>2, <1>3, <1>4, <1>8, <2>2 DEF SyncInv, Stays
  <2>4. QED
    BY <1>1, <2>3 DEF SyncInv
<1>9. QED
  BY <1>6, <1>7, <1>8
-----------------------------------------------------------------------------
\* Where p goes when its wait at line is over (from w_map it enters its loop).
After(p, line) ==
    CASE line = "w_start" -> IF p = "sender" THEN "open" ELSE "w_open"
      [] line = "w_open" -> IF type = "shm" /\ p = "receiver" THEN "w_map" ELSE Opening(p)
      [] line = "w_slot" -> "start"
      [] line = "w_end" -> IF p = "sender" THEN "unmap" ELSE "verify"

world == <<type, shm_name, n_created, file_size>>

\* The steps that both benchmarks take.
Arrives(p)  == (\E line \in Waits : ArriveAt(p, line)) /\ UNCHANGED world
Returns(p)  == /\ \E line \in Waits \ {"w_map"} : ReturnFrom(p, line, After(p, line))
               /\ UNCHANGED world
Enters(p)   == EnterLoop(p, "w_map") /\ UNCHANGED world
Sends       == PipelineSend /\ UNCHANGED world
Advance     == ReceiveAdvance(IF type = "shm" THEN size[map["receiver"]][Slot("receiver")]
                                              ELSE len["receiver"])
Receives    == (ReceiveSize \/ ReceiveByte \/ Advance) /\ UNCHANGED world

\* The steps of one of them.
ShmStep  == /\ type = "shm" /\ UNCHANGED <<type, file_size>>
            /\ \/ Shm!Create \/ Shm!Clear \/ Shm!Verify \/ Shm!Unlink
               \/ Shm!Open \/ Shm!Unmap
MmapStep == /\ type = "mmap" /\ UNCHANGED <<type, shm_name, n_created>>
            /\ \/ Mmap!Truncate \/ Mmap!Resize \/ Mmap!Clear \/ Mmap!Unmap
               \/ Mmap!Open \/ Mmap!Verify

Step == \/ \E p \in Procs : Arrives(p) \/ Returns(p) \/ Enters(p)
        \/ Sends \/ Receives \/ ShmStep \/ MmapStep

\* Every step of the specification is one of these.
LEMMA StepForms ==
    ASSUME Next PROVE Step \/ UNCHANGED vars
<1> USE DEF Shm!barrier, Shm!pipeline, Mmap!barrier, Mmap!pipeline, barrier, pipeline,
            Shm!Goto, Mmap!Goto, Goto, Shm!Procs, Mmap!Procs, Procs, Step
<1> USE DEF Shm!Barrier!Arrive, Mmap!Barrier!Arrive, Barrier!Arrive,
            Shm!Barrier!Pass, Mmap!Barrier!Pass, Barrier!Pass
<1>1. ASSUME NEW p \in Procs, NEW line, NEW next
      PROVE  /\ Shm!ArriveAt(p, line) <=> ArriveAt(p, line)
             /\ Mmap!ArriveAt(p, line) <=> ArriveAt(p, line)
             /\ Shm!ReturnFrom(p, line, next) <=> ReturnFrom(p, line, next)
             /\ Mmap!ReturnFrom(p, line, next) <=> ReturnFrom(p, line, next)
             /\ Shm!EnterLoop(p, line) <=> EnterLoop(p, line)
             /\ Mmap!EnterLoop(p, line) <=> EnterLoop(p, line)
  BY DEF Shm!ArriveAt, Mmap!ArriveAt, ArriveAt, Shm!ReturnFrom, Mmap!ReturnFrom,
         ReturnFrom, Shm!EnterLoop, Mmap!EnterLoop, EnterLoop
<1>2. /\ Shm!PipelineSend <=> PipelineSend
      /\ Mmap!PipelineSend <=> PipelineSend
  BY DEF Shm!PipelineSend, Mmap!PipelineSend, PipelineSend, Shm!SendStart, Mmap!SendStart,
         SendStart, Shm!SendByte, Mmap!SendByte, SendByte, Shm!SendSize, Mmap!SendSize,
         SendSize, Shm!Slot, Mmap!Slot, Slot, Shm!Smaller, Mmap!Smaller, Smaller,
         Shm!DataToSend, Mmap!DataToSend, DataToSend, Shm!NextStep, Mmap!NextStep, NextStep,
         Shm!NPipeline, Mmap!NPipeline, NPipeline
<1>3. /\ Shm!ReceiveSize <=> ReceiveSize
      /\ Mmap!ReceiveSize <=> ReceiveSize
      /\ Shm!ReceiveByte <=> ReceiveByte
      /\ Mmap!ReceiveByte <=> ReceiveByte
      /\ \A n : Shm!ReceiveAdvance(n) <=> ReceiveAdvance(n)
      /\ \A n : Mmap!ReceiveAdvance(n) <=> ReceiveAdvance(n)
      /\ Shm!Slot("receiver") = Slot("receiver")
  BY DEF Shm!ReceiveSize, Mmap!ReceiveSize, ReceiveSize, Shm!ReceiveByte,
         Mmap!ReceiveByte, ReceiveByte, Shm!ReceiveAdvance, Mmap!ReceiveAdvance,
         ReceiveAdvance, Shm!Slot, Mmap!Slot, Slot, Shm!NextStep, Mmap!NextStep, NextStep,
         Shm!NPipeline, Mmap!NPipeline, NPipeline
<1>4. CASE Sender /\ type = "shm"
  <2>1. "sender" \in Procs
    OBVIOUS
  <2> USE <1>4, <2>1 DEF Sender, Shm!Sender, world, Shm!names, Opening
  <2>2. Shm!Open \/ Shm!Unmap => ShmStep
    BY DEF ShmStep, Sender
  <2>3. Shm!SenderWaits /\ UNCHANGED Shm!names =>
            Arrives("sender") \/ Returns("sender") \/ Enters("sender")
    <3> HIDE DEF Shm!barrier, Shm!pipeline, Mmap!barrier, Mmap!pipeline, barrier, pipeline,
                 Shm!Goto, Mmap!Goto, Goto, Shm!Procs, Mmap!Procs, Procs, Step,
                 Shm!Barrier!Arrive, Mmap!Barrier!Arrive, Barrier!Arrive,
                 Shm!Barrier!Pass, Mmap!Barrier!Pass, Barrier!Pass
    <3>1. SUFFICES ASSUME Shm!SenderWaits, UNCHANGED Shm!names
                   PROVE  Arrives("sender") \/ Returns("sender") \/ Enters("sender")
      OBVIOUS
    <3>2. UNCHANGED world
      BY <3>1
    <3>3. /\ After("sender", "w_open") = "open"
          /\ After("sender", "w_slot") = "start"
          /\ After("sender", "w_end") = "unmap"
      BY DEF After
    <3>4. \/ \E line \in Waits : ArriveAt("sender", line)
          \/ ReturnFrom("sender", "w_open", "open")
          \/ ReturnFrom("sender", "w_slot", "start")
          \/ ReturnFrom("sender", "w_end", "unmap")
          \/ EnterLoop("sender", "w_map")
      BY <1>1, <3>1 DEF Shm!SenderWaits, Waits
    <3>5. {"w_open", "w_slot", "w_end"} \subseteq Waits \ {"w_map"}
      BY DEF Waits
    <3>6. CASE \E line \in Waits : ArriveAt("sender", line)
      BY <3>2, <3>6 DEF Arrives
    <3>7. CASE EnterLoop("sender", "w_map")
      BY <3>2, <3>7 DEF Enters
    <3>8. ASSUME NEW line \in Waits \ {"w_map"}, ReturnFrom("sender", line, After("sender", line))
          PROVE  Returns("sender")
      BY <3>2, <3>8 DEF Returns
    <3> QED
      BY <3>3, <3>4, <3>5, <3>6, <3>7, <3>8
  <2>4. Shm!PipelineSend /\ UNCHANGED Shm!names => Sends
    BY <1>2 DEF Sends
  <2>5. QED
    BY <2>2, <2>3, <2>4
<1>5. CASE Sender /\ type = "mmap"
  <2>1. "sender" \in Procs
    OBVIOUS
  <2> USE <1>5, <2>1 DEF Sender, Mmap!Sender, world, Opening, shm_only
  <2>2. Mmap!Truncate \/ Mmap!Resize \/ Mmap!Clear \/ Mmap!Unmap => MmapStep
    BY DEF MmapStep
  <2>3. Mmap!SenderWaits /\ UNCHANGED file_size =>
            Arrives("sender") \/ Returns("sender") \/ Enters("sender")
    <3> HIDE DEF Shm!barrier, Shm!pipeline, Mmap!barrier, Mmap!pipeline, barrier, pipeline,
                 Shm!Goto, Mmap!Goto, Goto, Shm!Procs, Mmap!Procs, Procs, Step,
                 Shm!Barrier!Arrive, Mmap!Barrier!Arrive, Barrier!Arrive,
                 Shm!Barrier!Pass, Mmap!Barrier!Pass, Barrier!Pass
    <3>1. SUFFICES ASSUME Mmap!SenderWaits, UNCHANGED file_size
                   PROVE  Arrives("sender") \/ Returns("sender") \/ Enters("sender")
      OBVIOUS
    <3>2. UNCHANGED world
      BY <3>1
    <3>3. /\ After("sender", "w_start") = "open"
          /\ After("sender", "w_open") = "clear"
          /\ After("sender", "w_slot") = "start"
          /\ After("sender", "w_end") = "unmap"
      BY DEF After
    <3>4. \/ \E line \in Waits : ArriveAt("sender", line)
          \/ ReturnFrom("sender", "w_start", "open")
          \/ ReturnFrom("sender", "w_open", "clear")
          \/ ReturnFrom("sender", "w_slot", "start")
          \/ ReturnFrom("sender", "w_end", "unmap")
          \/ EnterLoop("sender", "w_map")
      BY <1>1, <3>1 DEF Mmap!SenderWaits, Waits
    <3>5. {"w_start", "w_open", "w_slot", "w_end"} \subseteq Waits \ {"w_map"}
      BY DEF Waits
    <3>6. CASE \E line \in Waits : ArriveAt("sender", line)
      BY <3>2, <3>6 DEF Arrives
    <3>7. CASE EnterLoop("sender", "w_map")
      BY <3>2, <3>7 DEF Enters
    <3>8. ASSUME NEW line \in Waits \ {"w_map"}, ReturnFrom("sender", line, After("sender", line))
          PROVE  Returns("sender")
      BY <3>2, <3>8 DEF Returns
    <3> QED
      BY <3>3, <3>4, <3>5, <3>6, <3>7, <3>8
  <2>4. Mmap!PipelineSend /\ UNCHANGED file_size => Sends
    BY <1>2 DEF Sends
  <2>5. QED
    BY <2>2, <2>3, <2>4
<1>6. CASE Receiver /\ type = "shm"
  <2>1. "receiver" \in Procs
    OBVIOUS
  <2> USE <1>6, <2>1 DEF Receiver, Shm!Receiver, world, Shm!names, Opening
  <2>2. Shm!Create \/ Shm!Clear \/ Shm!Verify \/ Shm!Unlink => ShmStep
    BY DEF ShmStep
  <2>3. Shm!ReceiverWaits /\ UNCHANGED Shm!names =>
            Arrives("receiver") \/ Returns("receiver") \/ Enters("receiver")
    <3> HIDE DEF Shm!barrier, Shm!pipeline, Mmap!barrier, Mmap!pipeline, barrier, pipeline,
                 Shm!Goto, Mmap!Goto, Goto, Shm!Procs, Mmap!Procs, Procs, Step,
                 Shm!Barrier!Arrive, Mmap!Barrier!Arrive, Barrier!Arrive,
                 Shm!Barrier!Pass, Mmap!Barrier!Pass, Barrier!Pass
    <3>1. SUFFICES ASSUME Shm!ReceiverWaits, UNCHANGED Shm!names
                   PROVE  Arrives("receiver") \/ Returns("receiver") \/ Enters("receiver")
      OBVIOUS
    <3>2. UNCHANGED world
      BY <3>1
    <3>3. /\ After("receiver", "w_open") = "w_map"
          /\ After("receiver", "w_slot") = "start"
          /\ After("receiver", "w_end") = "verify"
      BY DEF After
    <3>4. \/ \E line \in Waits : ArriveAt("receiver", line)
          \/ ReturnFrom("receiver", "w_open", "w_map")
          \/ ReturnFrom("receiver", "w_slot", "start")
          \/ ReturnFrom("receiver", "w_end", "verify")
          \/ EnterLoop("receiver", "w_map")
      BY <1>1, <3>1 DEF Shm!ReceiverWaits, Waits
    <3>5. {"w_open", "w_slot", "w_end"} \subseteq Waits \ {"w_map"}
      BY DEF Waits
    <3>6. CASE \E line \in Waits : ArriveAt("receiver", line)
      BY <3>2, <3>6 DEF Arrives
    <3>7. CASE EnterLoop("receiver", "w_map")
      BY <3>2, <3>7 DEF Enters
    <3>8. ASSUME NEW line \in Waits \ {"w_map"}, ReturnFrom("receiver", line, After("receiver", line))
          PROVE  Returns("receiver")
      BY <3>2, <3>8 DEF Returns
    <3> QED
      BY <3>3, <3>4, <3>5, <3>6, <3>7, <3>8
  <2>4. /\ \/ Shm!ReceiveSize \/ Shm!ReceiveByte
           \/ Shm!ReceiveAdvance(size[map["receiver"]][Shm!Slot("receiver")])
        /\ UNCHANGED Shm!names
        => Receives
    BY <1>3 DEF Receives, Advance
  <2>5. QED
    BY <2>2, <2>3, <2>4
<1>7. CASE Receiver /\ type = "mmap"
  <2>1. "receiver" \in Procs
    OBVIOUS
  <2> USE <1>7, <2>1 DEF Receiver, Mmap!Receiver, world, Opening, shm_only
  <2>2. Mmap!Open \/ Mmap!Verify => MmapStep
    BY DEF MmapStep
  <2>3. Mmap!ReceiverWaits /\ UNCHANGED file_size =>
            Arrives("receiver") \/ Returns("receiver") \/ Enters("receiver")
    <3> HIDE DEF Shm!barrier, Shm!pipeline, Mmap!barrier, Mmap!pipeline, barrier, pipeline,
                 Shm!Goto, Mmap!Goto, Goto, Shm!Procs, Mmap!Procs, Procs, Step,
                 Shm!Barrier!Arrive, Mmap!Barrier!Arrive, Barrier!Arrive,
                 Shm!Barrier!Pass, Mmap!Barrier!Pass, Barrier!Pass
    <3>1. SUFFICES ASSUME Mmap!ReceiverWaits, UNCHANGED file_size
                   PROVE  Arrives("receiver") \/ Returns("receiver") \/ Enters("receiver")
      OBVIOUS
    <3>2. UNCHANGED world
      BY <3>1
    <3>3. /\ After("receiver", "w_start") = "w_open"
          /\ After("receiver", "w_open") = "open"
          /\ After("receiver", "w_slot") = "start"
          /\ After("receiver", "w_end") = "verify"
      BY DEF After
    <3>4. \/ \E line \in Waits : ArriveAt("receiver", line)
          \/ ReturnFrom("receiver", "w_start", "w_open")
          \/ ReturnFrom("receiver", "w_open", "open")
          \/ ReturnFrom("receiver", "w_slot", "start")
          \/ ReturnFrom("receiver", "w_end", "verify")
          \/ EnterLoop("receiver", "w_map")
      BY <1>1, <3>1 DEF Mmap!ReceiverWaits, Waits
    <3>5. {"w_start", "w_open", "w_slot", "w_end"} \subseteq Waits \ {"w_map"}
      BY DEF Waits
    <3>6. CASE \E line \in Waits : ArriveAt("receiver", line)
      BY <3>2, <3>6 DEF Arrives
    <3>7. CASE EnterLoop("receiver", "w_map")
      BY <3>2, <3>7 DEF Enters
    <3>8. ASSUME NEW line \in Waits \ {"w_map"}, ReturnFrom("receiver", line, After("receiver", line))
          PROVE  Returns("receiver")
      BY <3>2, <3>8 DEF Returns
    <3> QED
      BY <3>3, <3>4, <3>5, <3>6, <3>7, <3>8
  <2>4. /\ \/ Mmap!ReceiveSize \/ Mmap!ReceiveByte
           \/ Mmap!ReceiveAdvance(len["receiver"])
        /\ UNCHANGED file_size
        => Receives
    BY <1>3 DEF Receives, Advance
  <2>5. QED
    BY <2>2, <2>3, <2>4
<1>8. QED
  BY <1>4, <1>5, <1>6, <1>7 DEF Next, Sender, Receiver, Done
-----------------------------------------------------------------------------
\* Facts about a state in which the invariant holds, one for each place where
\* what a process does rests on where the other is.

\* The slot the receiver reads is the one it takes in this step, in the memory
\* the sender has mapped too.
LEMMA ReceiverHolds ==
    ASSUME IInv, InStep("receiver")
    PROVE  LET n == i["receiver"]  o == map["receiver"] IN
           /\ o = map["sender"] /\ o = Object("receiver")
           /\ Holds(o, (n + 1) % 2, n)
           /\ count["receiver"] = Before(n)
           /\ \/ pc["sender"] \in {"w_slot", "start", "copy"} /\ i["sender"] = n
              \/ pc["sender"] \in {"w_slot", "w_end"} /\ i["sender"] = n + 1
<1> DEFINE n == i["receiver"]
<1> USE DEF IInv
<1>1. "sender" \in Procs /\ "receiver" \in Procs /\ Peer("receiver") = "sender"
  BY DEF Procs, Peer
<1>2. /\ i["sender"] \in Nat /\ n \in Nat /\ iter["receiver"] \in Nat
      /\ iter["sender"] \in Nat
  BY <1>1, Places
<1>3. arrived["receiver"] = passed["receiver"]
  BY <1>1 DEF SyncInv, InStep, Waits
<1>4. Stage("receiver") = 4 + n /\ It("receiver") = iter["receiver"]
  BY DEF Stage, It, InStep
<1>5. \/ It("sender") = iter["receiver"] /\ Stage("sender") = 4 + n
      \/ pc["sender"] \in Waits /\ iter["sender"] = iter["receiver"] /\ Stage("sender") = 3 + n
         /\ pc["sender"] # "w_end"
  <2>1. CASE It("receiver") = It("sender") /\ Stage("receiver") = Stage("sender")
    BY <1>4, <2>1
  <2>2. CASE pc["sender"] \in Waits /\ Follows("receiver", "sender")
    <3>1. Stage("sender") \in Nat
      BY <1>1, Places
    <3>2. pc["sender"] # "w_end"
      BY <1>2, <1>4, <2>2 DEF Follows
    <3>3. QED
      BY <1>2, <1>4, <2>2, <3>1, <3>2 DEF Follows
  <2>3. QED
    BY <1>1, <1>3, <2>1, <2>2, Together
<1>6. /\ \/ pc["sender"] \in {"w_slot", "start", "copy"} /\ i["sender"] = n
         \/ pc["sender"] \in {"w_slot", "w_end"} /\ i["sender"] = n + 1
      /\ iter["sender"] = iter["receiver"]
  BY <1>2, <1>5 DEF Stage, It, Waits, Opening
<1>7. /\ map["sender"] = Object("sender") /\ map["receiver"] = Object("receiver")
      /\ Object("sender") = Object("receiver")
  BY <1>1, <1>6 DEF MapInv, Mapped, InStep, Object
<1>8. Holds(map["sender"], (n + 1) % 2, n)
  <2>1. CASE pc["sender"] \in {"w_slot", "start", "copy"} /\ i["sender"] = n
    BY <2>1 DEF ContentInv
  <2>2. CASE pc["sender"] \in {"w_slot", "w_end"} /\ i["sender"] = n + 1
    <3>1. i["sender"] # 0 /\ i["sender"] - 1 = n
      BY <1>2, <2>2
    <3>2. QED
      BY <2>2, <3>1 DEF ContentInv
  <2>3. QED
    BY <1>6, <2>1, <2>2
<1>9. count["receiver"] = Before(n)
  BY <1>1 DEF LoopInv, LoopAt, InStep, Loop
<1>10. QED
  BY <1>6, <1>7, <1>8, <1>9

\* What is still to be copied fits the vectors and the slot.
LEMMA CopyFits ==
    ASSUME IInv, NEW p \in Procs, pc[p] = "copy"
    PROVE  /\ count[p] \in 0 .. DataSize /\ len[p] \in 0 .. BufferSize
           /\ k[p] \in 0 .. len[p] /\ count[p] + len[p] \in 0 .. DataSize
           /\ count[p] + len[p] = IF p = "sender" THEN Offset(i[p] + 1) ELSE Before(i[p] + 1)
           /\ i[p] \in Nat /\ i[p] < NPipeline
<1> USE DEF IInv
<1>1. /\ DataSize \in Nat /\ BufferSize \in Nat
      /\ count[p] \in 0 .. DataSize /\ len[p] \in 0 .. BufferSize /\ k[p] \in 0 .. BufferSize
  BY SizeAssumption DEF PipelineTypeOK
<1>2. /\ i[p] \in Nat /\ i[p] + 1 \in Nat /\ i[p] < NPipeline
      /\ k[p] <= len[p]
      /\ count[p] = IF p = "sender" THEN Offset(i[p]) ELSE Before(i[p])
      /\ len[p] = IF p = "sender" THEN Offset(i[p] + 1) - Offset(i[p])
                                  ELSE Before(i[p] + 1) - Before(i[p])
  BY Places DEF LoopInv, LoopAt, Loop
<1>3. /\ Offset(i[p]) \in 0 .. DataSize /\ Offset(i[p] + 1) \in 0 .. DataSize
      /\ Before(i[p]) \in 0 .. DataSize /\ Before(i[p] + 1) \in 0 .. DataSize
  BY <1>2, Chunks, ChunksBehind
<1>4. QED
  BY <1>1, <1>2, <1>3

\* A mapping is one of the memories.
LEMMA MappedMemory ==
    ASSUME IInv, NEW p \in Procs, pc[p] \in Mapped(p)
    PROVE  map[p] = Object(p) /\ Object(p) \in Memories /\ Object(p) # 0
<1> USE DEF IInv
<1>1. pc[p] # "done" /\ map[p] = Object(p)
  BY DEF MapInv, Mapped
<1>2. iter[p] \in Nat /\ iter[p] < Iterations /\ Iterations \in Nat \ {0}
  BY <1>1, SizeAssumption, Places DEF LoopInv, LoopAt
<1>3. QED
  BY <1>1, <1>2 DEF Object, Memories

\* The sender of shm opens the cleared memory of its own iteration.
LEMMA ShmOpenFinds ==
    ASSUME IInv, type = "shm", pc["sender"] = "open"
    PROVE  /\ shm_name = iter["sender"] + 1 /\ shm_name # 0
           /\ shm_name \in Memories /\ size[shm_name][1] = 0
<1> USE DEF IInv
<1>1. "sender" \in Procs /\ "receiver" \in Procs /\ Peer("sender") = "receiver"
  BY DEF Procs, Peer
<1>2. /\ iter["sender"] \in Nat /\ iter["receiver"] \in Nat /\ i["receiver"] \in Nat
      /\ Stage("receiver") \in Nat
  BY <1>1, Places
<1>3. arrived["sender"] = passed["sender"]
  BY <1>1 DEF SyncInv, Waits
<1>4. Stage("sender") = 2 /\ It("sender") = iter["sender"]
  BY DEF Stage, It, Opening
<1>5. /\ pc["receiver"] \in {"w_open", "w_map"}
      /\ iter["receiver"] = iter["sender"]
  <2>1. pc["receiver"] \in Lines("receiver")
    BY <1>1 DEF LoopInv, LoopAt
  <2>2. CASE It("receiver") = iter["sender"] /\ Stage("receiver") = 2
    <3>1. pc["receiver"] \in {"w_map", "open"}
      BY <1>2, <2>2 DEF Stage, Opening
    <3>2. "open" \notin Lines("receiver")
      BY DEF Lines, Loop
    <3>3. QED
      BY <2>1, <2>2, <3>1, <3>2 DEF It
  <2>3. CASE pc["receiver"] \in Waits /\ Follows("sender", "receiver")
    <3>1. pc["receiver"] # "w_end" /\ iter["sender"] = iter["receiver"]
          /\ Stage("receiver") = 1
      BY <1>2, <1>4, <2>3 DEF Follows
    <3>2. QED
      BY <1>2, <2>3, <3>1 DEF Stage, Waits
  <2>4. QED
    BY <1>1, <1>3, <1>4, <2>2, <2>3, Together
<1>6. pc["receiver"] \in Mapped("receiver")
  BY <1>5 DEF Mapped
<1>7. shm_name = iter["sender"] + 1 /\ shm_name \in Memories /\ shm_name # 0
  BY <1>1, <1>5, <1>6, MappedMemory DEF MapInv, Object
<1>8. QED
  BY <1>1, <1>5, <1>6, <1>7, MappedMemory DEF MapInv, ContentInv

\* The receiver of mmap opens the file when it has its size.
LEMMA MmapOpenFinds ==
    ASSUME IInv, type = "mmap", pc["receiver"] = "open"
    PROVE  file_size = "full"
<1> USE DEF IInv
<1>1. "sender" \in Procs /\ "receiver" \in Procs /\ Peer("receiver") = "sender"
  BY DEF Procs, Peer
<1>2. /\ iter["sender"] \in Nat /\ iter["receiver"] \in Nat /\ i["sender"] \in Nat
      /\ Stage("sender") \in Nat
  BY <1>1, Places
<1>3. arrived["receiver"] = passed["receiver"]
  BY <1>1 DEF SyncInv, Waits
<1>4. Stage("receiver") = 2 /\ It("receiver") = iter["receiver"]
  BY DEF Stage, It, Opening
<1>5. pc["sender"] \in {"w_open", "w_map", "clear"}
  <2>1. CASE Stage("sender") = 2
    BY <1>2, <2>1 DEF Stage, Opening
  <2>2. CASE pc["sender"] \in Waits /\ Follows("receiver", "sender")
    <3>1. pc["sender"] # "w_end" /\ Stage("sender") = 1
      BY <1>2, <1>4, <2>2 DEF Follows
    <3>2. QED
      BY <1>2, <2>2, <3>1 DEF Stage, Waits
  <2>3. QED
    BY <1>1, <1>3, <1>4, <2>1, <2>2, Together
<1>6. map["sender"] # 0
  BY <1>1, <1>5, MappedMemory DEF Mapped
<1>7. QED
  BY <1>6 DEF MapInv

\* All of the data passes the verification.
LEMMA DataIsVerified ==
    ASSUME IInv, pc["receiver"] = "verify"
    PROVE  Verified /\ Shm!Verified /\ Mmap!Verified
  BY DEF IInv, ReceivedInv, Verified, Shm!Verified, Mmap!Verified, DataToSend,
         Shm!DataToSend, Mmap!DataToSend
-----------------------------------------------------------------------------
\* Nobody aborts: what is opened is there, and what is verified is the data.
LEMMA NoAbort ==
    ASSUME IInv
    PROVE  /\ ShmStep /\ Shm!Open => shm_name # 0
           /\ MmapStep /\ Mmap!Open => file_size = "full"
           /\ ShmStep /\ Shm!Verify => Shm!Verified
           /\ MmapStep /\ Mmap!Verify => Mmap!Verified
  BY ShmOpenFinds, MmapOpenFinds, DataIsVerified
     DEF ShmStep, MmapStep, Shm!Open, Mmap!Open, Shm!Verify, Mmap!Verify

LEMMA TypeKept ==
    ASSUME Step PROVE type' = type
  BY DEF Step, Arrives, Returns, Enters, Sends, Receives, ShmStep, MmapStep, world

\* The types of what is not in the memory, and of what is.
ScalarTypes ==
    /\ arrived \in [Procs -> Nat]
    /\ passed \in [Procs -> Nat]
    /\ iter \in [Procs -> 0 .. Iterations]
    /\ i \in [Procs -> 0 .. NPipeline]
    /\ count \in [Procs -> 0 .. DataSize]
    /\ len \in [Procs -> 0 .. BufferSize]
    /\ k \in [Procs -> 0 .. BufferSize]
    /\ map \in [Procs -> {0} \cup Memories]

Sizes == size \in [Memories -> [Slots -> 0 .. BufferSize]]
Contents == bytes \in [Memories -> [Slots -> [1 .. BufferSize -> 0 .. DataSize]]]
ReceivedType == received \in [1 .. DataSize -> 0 .. DataSize]

LEMMA TypeSplit ==
    PipelineTypeOK <=> ScalarTypes /\ Sizes /\ Contents /\ ReceivedType
  BY DEF PipelineTypeOK, ScalarTypes, Sizes, Contents, ReceivedType

LEMMA Constants ==
    /\ DataSize \in Nat \ {0} /\ BufferSize \in Nat \ {0} /\ Iterations \in Nat \ {0}
    /\ NPipeline \in Nat /\ NPipeline >= 2
    /\ "sender" \in Procs /\ "receiver" \in Procs
  BY SizeAssumption, Chunks DEF Procs

LEMMA ZeroTypes ==
    /\ ZeroSizes \in [Slots -> 0 .. BufferSize]
    /\ ZeroBytes \in [Slots -> [1 .. BufferSize -> 0 .. DataSize]]
    /\ Nothing \in [1 .. DataSize -> 0 .. DataSize]
<1>1. 0 \in 0 .. BufferSize /\ 0 \in 0 .. DataSize
  BY SizeAssumption
<1>2. QED
  BY <1>1 DEF ZeroSizes, ZeroBytes, Nothing

\* The constants of the two benchmarks are those of the pipeline.
LEMMA SameConstants ==
    /\ Shm!ZeroSizes = ZeroSizes /\ Mmap!ZeroSizes = ZeroSizes
    /\ Shm!ZeroBytes = ZeroBytes /\ Mmap!ZeroBytes = ZeroBytes
    /\ Shm!Nothing = Nothing /\ Mmap!Nothing = Nothing
    /\ Mmap!File = 1 /\ 1 \in Memories
<1>1. 1 \in Memories
  BY SizeAssumption DEF Memories
<1>2. QED
  BY <1>1 DEF Shm!ZeroSizes, Mmap!ZeroSizes, ZeroSizes, Shm!ZeroBytes, Mmap!ZeroBytes,
              ZeroBytes, Shm!Nothing, Mmap!Nothing, Nothing, Shm!Slots, Mmap!Slots, Slots,
              Mmap!File

\* The length that ends the memcpy of the receiver, read again or kept.
LEMMA AdvanceLength ==
    ASSUME IInv, pc["receiver"] = "copy"
    PROVE  /\ size[map["receiver"]][Slot("receiver")] = len["receiver"]
           /\ Advance => ReceiveAdvance(len["receiver"])
<1>1. size[map["receiver"]][Slot("receiver")] = len["receiver"]
  BY Constants, ReceiverHolds DEF IInv, InStep, Holds, Slot, LoopInv, LoopAt
<1>2. QED
  BY <1>1 DEF Advance

LEMMA TypeStep ==
    ASSUME IInv, Step PROVE PipelineTypeOK'
<1>1. ScalarTypes /\ Sizes /\ Contents /\ ReceivedType
  BY TypeSplit DEF IInv
<1>2. \A p \in Procs : Slot(p) \in Slots
  BY Places, Parity DEF Slot, IInv
<1>3. SUFFICES ScalarTypes' /\ Sizes' /\ Contents' /\ ReceivedType'
  BY TypeSplit, PTL
<1>4. \A p \in Procs : pc[p] # "done" => iter[p] \in Nat /\ iter[p] + 1 \in 0 .. Iterations
  BY Constants, Places DEF LoopInv, LoopAt, IInv
<1>5. ASSUME NEW p \in Procs, Arrives(p) \/ Returns(p) \/ Enters(p)
      PROVE  ScalarTypes' /\ Sizes' /\ Contents' /\ ReceivedType'
  <2>1. arrived' \in [Procs -> Nat] /\ passed' \in [Procs -> Nat]
    BY <1>1, <1>5 DEF Arrives, Returns, Enters, ArriveAt, ReturnFrom, EnterLoop,
                      Barrier!Arrive, Barrier!Pass, ScalarTypes
  <2>2. UNCHANGED <<iter, len, k, map, size, bytes, received>>
    BY <1>5 DEF Arrives, Returns, Enters, ArriveAt, ReturnFrom, EnterLoop, pipeline
  <2>3. \/ UNCHANGED <<i, count>>
        \/ i' = [i EXCEPT ![p] = 0] /\ count' = [count EXCEPT ![p] = 0]
    BY <1>5 DEF Arrives, Returns, Enters, ArriveAt, ReturnFrom, EnterLoop, pipeline
  <2>4. i' \in [Procs -> 0 .. NPipeline] /\ count' \in [Procs -> 0 .. DataSize]
    BY <1>1, <2>3, Constants DEF ScalarTypes
  <2>5. QED
    BY <1>1, <2>1, <2>2, <2>4 DEF ScalarTypes, Sizes, Contents, ReceivedType
<1>6. CASE Sends /\ SendStart
  <2>1. Smaller(DataSize - count["sender"], BufferSize) \in 0 .. BufferSize
    BY <1>1, Constants DEF Smaller, ScalarTypes
  <2>2. ScalarTypes'
    BY <1>1, <1>6, <2>1, Constants DEF SendStart, barrier, ScalarTypes
  <2>3. QED
    BY <1>1, <1>6, <2>2 DEF SendStart, Sizes, Contents, ReceivedType
<1>7. CASE Sends /\ SendByte
  <2>1. /\ k["sender"] + 1 \in 1 .. BufferSize
        /\ count["sender"] + k["sender"] + 1 \in 1 .. DataSize
    BY <1>7, Constants, CopyFits DEF SendByte
  <2>2. map["sender"] \in Memories
    BY <1>7, Constants, MappedMemory DEF SendByte, Mapped
  <2>3. DataToSend[count["sender"] + k["sender"] + 1] \in 0 .. DataSize
    BY <2>1, Constants DEF DataToSend
  <2>4. Contents'
    BY <1>1, <1>2, <1>7, <2>1, <2>2, <2>3, Constants DEF SendByte, Contents
  <2>5. ScalarTypes'
    BY <1>1, <1>7, <2>1, Constants DEF SendByte, barrier, ScalarTypes
  <2>6. QED
    BY <1>1, <1>7, <2>4, <2>5 DEF SendByte, Sizes, ReceivedType
<1>8. CASE Sends /\ SendSize
  <2>1. /\ len["sender"] \in 0 .. BufferSize
        /\ count["sender"] + len["sender"] \in 0 .. DataSize
        /\ i["sender"] + 1 \in 0 .. NPipeline
    BY <1>8, Constants, CopyFits DEF SendSize
  <2>2. map["sender"] \in Memories
    BY <1>8, Constants, MappedMemory DEF SendSize, Mapped
  <2>3. Sizes'
    BY <1>1, <1>2, <1>8, <2>1, <2>2, Constants DEF SendSize, Sizes
  <2>4. ScalarTypes'
    BY <1>1, <1>8, <2>1, Constants DEF SendSize, NextStep, barrier, ScalarTypes
  <2>5. QED
    BY <1>1, <1>8, <2>3, <2>4 DEF SendSize, Contents, ReceivedType
<1>9. CASE Receives /\ ReceiveSize
  <2>1. map["receiver"] \in Memories
    BY <1>9, Constants, MappedMemory DEF ReceiveSize, Mapped
  <2>2. size[map["receiver"]][Slot("receiver")] \in 0 .. BufferSize
    BY <1>1, <1>2, <2>1, Constants DEF Sizes
  <2>3. ScalarTypes'
    BY <1>1, <1>9, <2>2, Constants DEF ReceiveSize, barrier, ScalarTypes
  <2>4. QED
    BY <1>1, <1>9, <2>3 DEF ReceiveSize, Sizes, Contents, ReceivedType
<1>10. CASE Receives /\ ReceiveByte
  <2>1. /\ k["receiver"] + 1 \in 1 .. BufferSize
        /\ count["receiver"] + k["receiver"] + 1 \in 1 .. DataSize
        /\ map["receiver"] \in Memories
    BY <1>10, Constants, CopyFits, MappedMemory DEF ReceiveByte, Mapped
  <2>2. bytes[map["receiver"]][Slot("receiver")][k["receiver"] + 1] \in 0 .. DataSize
    BY <1>1, <1>2, <2>1, Constants DEF Contents
  <2>3. ReceivedType'
    BY <1>1, <1>10, <2>1, <2>2 DEF ReceiveByte, ReceivedType
  <2>4. ScalarTypes'
    BY <1>1, <1>10, <2>1, Constants DEF ReceiveByte, barrier, ScalarTypes
  <2>5. QED
    BY <1>1, <1>10, <2>3, <2>4 DEF ReceiveByte, Sizes, Contents
<1>11. CASE Receives /\ Advance
  <2>1. pc["receiver"] = "copy" /\ ReceiveAdvance(len["receiver"])
    BY <1>11, AdvanceLength DEF Advance, ReceiveAdvance
  <2>2. /\ count["receiver"] + len["receiver"] \in 0 .. DataSize
        /\ i["receiver"] + 1 \in 0 .. NPipeline
    BY <2>1, Constants, CopyFits
  <2>3. ScalarTypes'
    BY <1>1, <2>1, <2>2, Constants DEF ReceiveAdvance, NextStep, barrier, ScalarTypes
  <2>4. QED
    BY <1>1, <2>1, <2>3 DEF ReceiveAdvance, Sizes, Contents, ReceivedType
<1>12. CASE ShmStep
  <2> USE <1>12 DEF ShmStep, Shm!barrier
  <2>1. CASE Shm!Create
    <3>1. map["receiver"] = 0 /\ shm_name = 0 /\ n_created = iter["receiver"]
      BY <2>1, Constants DEF IInv, MapInv, Mapped, Shm!Create
    <3>2. shm_name' \in Memories
      BY <1>4, <2>1, <3>1, Constants DEF Shm!Create, Memories
    <3>3. ScalarTypes'
      BY <1>1, <2>1, <3>2, Constants DEF Shm!Create, ScalarTypes
    <3>4. QED
      BY <1>1, <2>1, <3>3 DEF Shm!Create, Sizes, Contents, ReceivedType
  <2>2. CASE Shm!Clear
    <3>1. ScalarTypes' /\ ReceivedType'
      BY <1>1, <2>2, ZeroTypes, SameConstants DEF Shm!Clear, ScalarTypes, ReceivedType
    <3>2. Sizes'
      BY <1>1, <2>2, ZeroTypes, SameConstants DEF Shm!Clear, Sizes
    <3>3. Contents'
      BY <1>1, <2>2, ZeroTypes, SameConstants DEF Shm!Clear, Contents
    <3>4. QED
      BY <3>1, <3>2, <3>3
  <2>3. CASE Shm!Verify
    BY <1>1, <2>3 DEF Shm!Verify, ScalarTypes, Sizes, Contents, ReceivedType
  <2>4. CASE Shm!Unlink
    <3>1. ScalarTypes'
      BY <1>1, <1>4, <2>4, Constants DEF Shm!Unlink, ScalarTypes
    <3>2. QED
      BY <1>1, <2>4, <3>1 DEF Shm!Unlink, Sizes, Contents, ReceivedType
  <2>5. CASE Shm!Open
    <3>1. shm_name \in Memories
      BY <2>5, ShmOpenFinds DEF Shm!Open
    <3>2. ScalarTypes'
      BY <1>1, <2>5, <3>1, Constants DEF Shm!Open, ScalarTypes
    <3>3. QED
      BY <1>1, <2>5, <3>2 DEF Shm!Open, Sizes, Contents, ReceivedType
  <2>6. CASE Shm!Unmap
    <3>1. ScalarTypes'
      BY <1>1, <1>4, <2>6, Constants DEF Shm!Unmap, ScalarTypes
    <3>2. QED
      BY <1>1, <2>6, <3>1 DEF Shm!Unmap, Sizes, Contents, ReceivedType
  <2>7. QED
    BY <2>1, <2>2, <2>3, <2>4, <2>5, <2>6
<1>13. CASE MmapStep
  <2> USE <1>13 DEF MmapStep, Mmap!barrier
  <2>1. CASE Mmap!Truncate \/ Mmap!Clear
    <3>1. ScalarTypes' /\ ReceivedType'
      BY <1>1, <2>1 DEF Mmap!Truncate, Mmap!Clear, ScalarTypes, ReceivedType
    <3>2. Sizes'
      BY <1>1, <2>1, ZeroTypes, SameConstants DEF Mmap!Truncate, Mmap!Clear, Sizes
    <3>3. Contents'
      BY <1>1, <2>1, ZeroTypes, SameConstants DEF Mmap!Truncate, Mmap!Clear, Contents
    <3>4. QED
      BY <3>1, <3>2, <3>3
  <2>2. CASE Mmap!Resize
    <3>1. ScalarTypes'
      BY <1>1, <2>2, ZeroTypes, SameConstants DEF Mmap!Resize, ScalarTypes
    <3>2. QED
      BY <1>1, <2>2, <3>1 DEF Mmap!Resize, Sizes, Contents, ReceivedType
  <2>3. CASE Mmap!Unmap \/ Mmap!Verify
    <3>1. ScalarTypes'
      BY <1>1, <1>4, <2>3, Constants DEF Mmap!Unmap, Mmap!Verify, ScalarTypes
    <3>2. QED
      BY <1>1, <2>3, <3>1 DEF Mmap!Unmap, Mmap!Verify, Sizes, Contents, ReceivedType
  <2>4. CASE Mmap!Open
    <3>1. ScalarTypes' /\ ReceivedType'
      BY <1>1, <2>4, ZeroTypes, SameConstants DEF Mmap!Open, ScalarTypes, ReceivedType
    <3>2. QED
      BY <1>1, <2>4, <3>1 DEF Mmap!Open, Sizes, Contents
  <2>5. QED
    BY <2>1, <2>2, <2>3, <2>4
<1>14. QED
  BY <1>5, <1>6, <1>7, <1>8, <1>9, <1>10, <1>11, <1>12, <1>13
     DEF Step, Sends, PipelineSend, Receives
-----------------------------------------------------------------------------
\* What a process keeps of its loop while the other one moves.
LEMMA LoopStays ==
    ASSUME NEW q \in Procs, LoopAt(q), Stays(q), UNCHANGED type,
           count'[q] = count[q], len'[q] = len[q], k'[q] = k[q]
    PROVE  LoopAt(q)'
  BY DEF LoopAt, Lines, Stays

\* The steps outside of the pipeline that are no waits: p goes to another line
\* of its iteration, or ends it and goes to the first line of the next one.
Goes(p, from, to) ==
    /\ pc[p] = from
    /\ Goto(p, to)
    /\ UNCHANGED iter

Ends(p, from, to) ==
    /\ pc[p] = from
    /\ iter' = [iter EXCEPT ![p] = @ + 1]
    /\ Goto(p, IF iter[p] + 1 < Iterations THEN to ELSE "done")

LEMMA Outside ==
    ASSUME IInv, ShmStep \/ MmapStep
    PROVE  /\ UNCHANGED <<barrier, i, count, len, k>> /\ type' = type
           /\ type = "shm" => \/ Goes("receiver", "create", "clear")
                              \/ Goes("receiver", "clear", "w_open")
                              \/ Goes("receiver", "verify", "unlink")
                              \/ Ends("receiver", "unlink", "create")
                              \/ Goes("sender", "open", "w_map")
                              \/ Ends("sender", "unmap", "w_open")
           /\ type = "mmap" => \/ Goes("sender", "open", "resize")
                               \/ Goes("sender", "resize", "w_open")
                               \/ Goes("sender", "clear", "w_map")
                               \/ Ends("sender", "unmap", "open")
                               \/ Goes("receiver", "open", "w_map")
                               \/ Ends("receiver", "verify", "w_open")
<1> USE DEF Goes, Ends, Goto, Shm!Goto, Mmap!Goto, Shm!barrier, Mmap!barrier, barrier
<1>1. CASE ShmStep
  <2>1. type = "shm" /\ type' = type
    BY <1>1 DEF ShmStep
  <2>2. CASE Shm!Create \/ Shm!Clear \/ Shm!Unlink \/ Shm!Unmap
    BY <2>1, <2>2 DEF Shm!Create, Shm!Clear, Shm!Unlink, Shm!Unmap
  <2>3. CASE Shm!Verify
    BY <1>1, <2>1, <2>3, NoAbort DEF Shm!Verify
  <2>4. CASE Shm!Open
    BY <1>1, <2>1, <2>4, NoAbort DEF Shm!Open
  <2>5. QED
    BY <1>1, <2>2, <2>3, <2>4 DEF ShmStep
<1>2. CASE MmapStep
  <2>1. type = "mmap" /\ type' = type
    BY <1>2 DEF MmapStep
  <2>2. CASE Mmap!Truncate \/ Mmap!Resize \/ Mmap!Clear \/ Mmap!Unmap
    BY <2>1, <2>2 DEF Mmap!Truncate, Mmap!Resize, Mmap!Clear, Mmap!Unmap
  <2>3. CASE Mmap!Verify
    BY <1>2, <2>1, <2>3, NoAbort DEF Mmap!Verify
  <2>4. CASE Mmap!Open
    BY <1>2, <2>1, <2>4, NoAbort DEF Mmap!Open
  <2>5. QED
    BY <1>2, <2>2, <2>3, <2>4 DEF MmapStep
<1>3. QED
  BY <1>1, <1>2

\* A step of p that leaves what the invariant says of it.
LEMMA Moving ==
    ASSUME LoopInv, ScalarTypes, type' = type, NEW p \in Procs, pc' \in [Procs -> Labels],
           LoopAt(p)', Stays(Peer(p)), count'[Peer(p)] = count[Peer(p)],
           len'[Peer(p)] = len[Peer(p)], k'[Peer(p)] = k[Peer(p)]
    PROVE  LoopInv'
<1>1. Peer(p) \in Procs /\ \A q \in Procs : q = p \/ q = Peer(p)
  BY Peers
<1>2. LoopAt(Peer(p))'
  BY <1>1, LoopStays DEF LoopInv
<1>3. QED
  BY <1>1, <1>2 DEF LoopInv

\* A step to another line of the same iteration, outside of the pipeline.
LEMMA LineMoves ==
    ASSUME LoopInv, ScalarTypes, type' = type, NEW p \in Procs,
           NEW line \in Labels, line \in Lines(p), line \notin Loop, line # "done",
           NEW from, from # "done", Goes(p, from, line), UNCHANGED <<i, count, len, k>>
    PROVE  LoopInv'
<1>1. Peer(p) \in Procs /\ Peer(p) # p
  BY Peers
<1>2. pc' \in [Procs -> Labels] /\ pc'[p] = line /\ pc'[Peer(p)] = pc[Peer(p)]
  BY <1>1 DEF LoopInv, Goes, Goto
<1>3. Lines(p)' = Lines(p)
  BY DEF Lines
<1>4. LoopAt(p)'
  BY <1>2, <1>3 DEF LoopInv, LoopAt, Loop, Goes
<1>5. QED
  BY <1>2, <1>4, Moving DEF Stays, Goes

\* The end of an iteration.
LEMMA IterationEnds ==
    ASSUME LoopInv, ScalarTypes, type' = type, NEW p \in Procs,
           NEW line \in Labels, line \in Lines(p), line \notin Loop, line # "done",
           NEW from, from # "done", Ends(p, from, line), UNCHANGED <<i, count, len, k>>
    PROVE  LoopInv'
<1>1. Peer(p) \in Procs /\ Peer(p) # p
  BY Peers
<1>2. iter[p] \in Nat /\ iter[p] < Iterations /\ Iterations \in Nat
  BY Constants DEF LoopInv, LoopAt, ScalarTypes, Ends
<1>3. /\ pc' \in [Procs -> Labels]
      /\ pc'[p] = IF iter[p] + 1 < Iterations THEN line ELSE "done"
      /\ pc'[Peer(p)] = pc[Peer(p)]
  BY <1>1 DEF LoopInv, Labels, Ends, Goto
<1>4. iter'[p] = iter[p] + 1 /\ iter'[Peer(p)] = iter[Peer(p)]
  BY <1>1 DEF ScalarTypes, Ends
<1>5. Lines(p)' = Lines(p) /\ "done" \in Lines(p) /\ "done" \notin Loop
  BY DEF Lines, Loop
<1>6. LoopAt(p)'
  BY <1>2, <1>3, <1>4, <1>5 DEF LoopAt, Loop
<1>7. QED
  BY <1>3, <1>4, <1>6, Moving DEF Stays

\* The end of a step of the pipeline, of either process.
LEMMA StepEnds ==
    ASSUME IInv, type' = type, NEW p \in Procs, pc[p] = "copy", k[p] = len[p],
           NextStep(p, len[p]), UNCHANGED <<iter, len, k>>
    PROVE  LoopInv'
<1>1. Peer(p) \in Procs /\ Peer(p) # p
  BY Peers
<1>2. LoopInv /\ ScalarTypes /\ pc \in [Procs -> Labels] /\ LoopAt(p)
  BY TypeSplit DEF IInv, LoopInv
<1>3. /\ pc' \in [Procs -> Labels]
      /\ pc'[p] = IF i[p] + 1 < NPipeline THEN "w_slot" ELSE "w_end"
      /\ pc'[Peer(p)] = pc[Peer(p)]
  BY <1>1, <1>2 DEF NextStep, Goto, Labels
<1>4. /\ i'[p] = i[p] + 1 /\ i'[Peer(p)] = i[Peer(p)]
      /\ count'[p] = count[p] + len[p] /\ count'[Peer(p)] = count[Peer(p)]
  BY <1>1, <1>2 DEF NextStep, ScalarTypes
<1>5. /\ count[p] + len[p] = IF p = "sender" THEN Offset(i[p] + 1) ELSE Before(i[p] + 1)
      /\ i[p] \in Nat /\ i[p] < NPipeline
  BY CopyFits
<1>6. pc'[p] \in Lines(p)' /\ pc'[p] \in {"w_slot", "w_end"}
  BY <1>3 DEF Lines, Loop
<1>7. iter'[p] < Iterations
  BY <1>2 DEF LoopAt
<1>8. /\ pc'[p] = "w_slot" => i'[p] < NPipeline
      /\ pc'[p] = "w_end" => i'[p] = NPipeline
  BY <1>3, <1>4, <1>5, Constants
<1>9. count'[p] = IF p = "sender" THEN Offset(i'[p]) ELSE Before(i'[p])
  BY <1>4, <1>5
<1>10. LoopAt(p)'
  <2>1. Offset(i'[p]) = Offset(i[p])' /\ Before(i'[p]) = Before(i[p])'
    BY DEF Before, Offset
  <2>2. QED
    BY <1>6, <1>7, <1>8, <1>9, <2>1 DEF LoopAt
<1>11. QED
  BY <1>2, <1>3, <1>4, <1>10, Moving DEF Stays

LEMMA LoopStep ==
    ASSUME IInv, Step PROVE LoopInv'
<1>1. pc \in [Procs -> Labels] /\ LoopInv /\ \A p \in Procs : LoopAt(p)
  BY DEF IInv, LoopInv
<1>2. ScalarTypes /\ type' = type /\ type \in {"shm", "mmap"}
  BY TypeSplit, TypeKept DEF IInv
<1>3. \A p \in Procs : Lines(p)' = Lines(p)
  BY <1>2 DEF Lines
<1>4. ASSUME NEW p \in Procs, Arrives(p) PROVE LoopInv'
  <2>1. UNCHANGED <<pc, iter, i, count, len, k, type>>
    BY <1>2, <1>4 DEF Arrives, ArriveAt, pipeline
  <2>2. QED
    BY <1>1, <2>1 DEF LoopInv, LoopAt, Lines
<1>5. ASSUME NEW p \in Procs, Returns(p) PROVE LoopInv'
  <2>1. PICK line \in Waits \ {"w_map"} : ReturnFrom(p, line, After(p, line))
    BY <1>5 DEF Returns
  <2>2. /\ pc[p] = line /\ pc' = [pc EXCEPT ![p] = After(p, line)]
        /\ UNCHANGED <<iter, i, count, len, k>>
    BY <2>1 DEF ReturnFrom, Goto
  <2>3. LoopAt(p) /\ Peer(p) \in Procs /\ Peer(p) # p
    BY <1>1, Peers
  <2>4. CASE line = "w_slot"
    <3>1. pc' \in [Procs -> Labels] /\ pc'[p] = "start" /\ pc'[Peer(p)] = pc[Peer(p)]
      BY <1>1, <2>2, <2>3, <2>4 DEF After, Labels
    <3>2. LoopAt(p)'
      BY <1>3, <2>2, <2>3, <2>4, <3>1 DEF LoopAt, Lines, Loop
    <3>3. QED
      BY <1>1, <1>2, <2>2, <3>1, <3>2, Moving DEF Stays
  <2>5. CASE line # "w_slot"
    <3>1. /\ After(p, line) \in Labels /\ After(p, line) \in Lines(p)
          /\ After(p, line) \notin Loop /\ After(p, line) # "done"
      <4>1. line \in {"w_start", "w_open", "w_end"}
        BY <2>1, <2>5 DEF Waits
      <4>2. line = "w_start" => type = "mmap"
        BY <1>2, <2>2, <2>3 DEF LoopAt, Lines, Loop
      <4>3. p \in {"sender", "receiver"}
        BY DEF Procs
      <4>4. CASE line = "w_start"
        BY <1>2, <4>2, <4>3, <4>4 DEF After, Lines, Loop, Labels
      <4>5. CASE line = "w_open"
        BY <1>2, <4>3, <4>5 DEF After, Opening, Lines, Loop, Labels
      <4>6. CASE line = "w_end"
        BY <1>2, <4>3, <4>6 DEF After, Lines, Loop, Labels
      <4>7. QED
        BY <4>1, <4>4, <4>5, <4>6
    <3>2. pc[p] # "done"
      BY <2>1, <2>2 DEF Waits
    <3>3. Goes(p, line, After(p, line))
      BY <2>2 DEF Goes, Goto
    <3>4. QED
      BY <1>1, <1>2, <2>2, <3>1, <3>2, <3>3, LineMoves
  <2>6. QED
    BY <2>4, <2>5
<1>6. ASSUME NEW p \in Procs, Enters(p) PROVE LoopInv'
  <2>1. /\ pc[p] = "w_map" /\ pc' = [pc EXCEPT ![p] = "w_slot"]
        /\ i' = [i EXCEPT ![p] = 0] /\ count' = [count EXCEPT ![p] = 0]
        /\ UNCHANGED <<iter, len, k>>
    BY <1>6 DEF Enters, EnterLoop, Goto
  <2>2. LoopAt(p) /\ Peer(p) \in Procs /\ Peer(p) # p
    BY <1>1, Peers
  <2>3. /\ pc' \in [Procs -> Labels] /\ pc'[p] = "w_slot" /\ i'[p] = 0 /\ count'[p] = 0
        /\ pc'[Peer(p)] = pc[Peer(p)] /\ i'[Peer(p)] = i[Peer(p)]
        /\ count'[Peer(p)] = count[Peer(p)]
    BY <1>1, <1>2, <2>1, <2>2 DEF ScalarTypes, Labels
  <2>4. 0 < NPipeline /\ Offset(0) = 0 /\ Before(0) = 0
    BY Constants, Chunks, ChunksBehind
  <2>5. Offset(i'[p]) = Offset(i[p])' /\ Before(i'[p]) = Before(i[p])'
    BY DEF Before, Offset
  <2>6. LoopAt(p)'
    BY <1>3, <2>1, <2>2, <2>3, <2>4, <2>5 DEF LoopAt, Lines, Loop
  <2>7. QED
    BY <1>1, <1>2, <2>1, <2>3, <2>6, Moving DEF Stays
<1>7. /\ "sender" \in Procs /\ "receiver" \in Procs
      /\ Peer("sender") = "receiver" /\ Peer("receiver") = "sender"
  BY DEF Procs, Peer
<1>8. LoopAt("sender") /\ LoopAt("receiver")
  BY <1>1, <1>7
<1>9. i["sender"] \in Nat /\ i["receiver"] \in Nat /\ NPipeline \in Nat
  BY <1>2, <1>7, Constants DEF ScalarTypes
<1>10. CASE Sends /\ SendStart
  <2>1. /\ pc["sender"] = "start" /\ pc' = [pc EXCEPT !["sender"] = "copy"]
        /\ len' = [len EXCEPT !["sender"] = Smaller(DataSize - count["sender"], BufferSize)]
        /\ k' = [k EXCEPT !["sender"] = 0]
        /\ UNCHANGED <<iter, i, count>>
    BY <1>10 DEF SendStart, Goto
  <2>2. /\ pc' \in [Procs -> Labels] /\ pc'["sender"] = "copy"
        /\ pc'["receiver"] = pc["receiver"]
    BY <1>1, <1>7, <2>1 DEF Labels
  <2>3. /\ len'["sender"] = Smaller(DataSize - count["sender"], BufferSize)
        /\ k'["sender"] = 0
        /\ len'["receiver"] = len["receiver"] /\ k'["receiver"] = k["receiver"]
    BY <1>2, <1>7, <2>1 DEF ScalarTypes
  <2>4. /\ i["sender"] < NPipeline /\ count["sender"] = Offset(i["sender"])
        /\ iter["sender"] < Iterations
    BY <1>8, <2>1 DEF LoopAt, Loop
  <2>5. /\ Offset(i["sender"] + 1) - Offset(i["sender"]) = len'["sender"]
        /\ 0 <= len'["sender"]
    <3>1. /\ Offset(i["sender"] + 1) =
                 Offset(i["sender"]) + Smaller(DataSize - Offset(i["sender"]), BufferSize)
          /\ Offset(i["sender"]) \in 0 .. DataSize
      BY <1>9, Chunks
    <3>2. Smaller(DataSize - Offset(i["sender"]), BufferSize) \in Nat
      BY <3>1, Constants DEF Smaller
    <3>3. QED
      BY <2>3, <2>4, <3>1, <3>2, Constants
  <2>6. LoopAt("sender")'
    BY <1>3, <1>7, <2>1, <2>2, <2>3, <2>4, <2>5 DEF LoopAt, Lines, Loop, Offset
  <2>7. QED
    BY <1>1, <1>2, <1>7, <2>1, <2>2, <2>3, <2>6, Moving DEF Stays
<1>11. CASE Sends /\ SendByte
  <2>1. /\ pc["sender"] = "copy" /\ k["sender"] < len["sender"]
        /\ k'["sender"] = k["sender"] + 1
        /\ UNCHANGED <<pc, iter, i, count, len>> /\ k'["receiver"] = k["receiver"]
    BY <1>2, <1>7, <1>11 DEF SendByte, ScalarTypes
  <2>2. k["sender"] \in Nat /\ len["sender"] \in Nat
    BY <1>2, <1>7, Constants DEF ScalarTypes
  <2>3. LoopAt("sender")'
    BY <1>2, <1>8, <2>1, <2>2 DEF LoopAt, Lines
  <2>4. QED
    BY <1>1, <1>2, <1>7, <2>1, <2>3, Moving DEF Stays
<1>12. CASE Sends /\ SendSize
  <2>1. /\ pc["sender"] = "copy" /\ k["sender"] = len["sender"]
        /\ NextStep("sender", len["sender"]) /\ UNCHANGED <<iter, len, k>>
    BY <1>12 DEF SendSize
  <2>2. QED
    BY <1>2, <1>7, <2>1, StepEnds
<1>13. CASE Receives /\ ReceiveSize
  <2>1. /\ pc["receiver"] = "start" /\ pc' = [pc EXCEPT !["receiver"] = "copy"]
        /\ len' = [len EXCEPT !["receiver"] = size[map["receiver"]][Slot("receiver")]]
        /\ k' = [k EXCEPT !["receiver"] = 0]
        /\ UNCHANGED <<iter, i, count>>
    BY <1>13 DEF ReceiveSize, Goto
  <2>2. /\ pc' \in [Procs -> Labels] /\ pc'["receiver"] = "copy"
        /\ pc'["sender"] = pc["sender"]
    BY <1>1, <1>7, <2>1 DEF Labels
  <2>3. /\ len'["receiver"] = size[map["receiver"]][Slot("receiver")]
        /\ k'["receiver"] = 0
        /\ len'["sender"] = len["sender"] /\ k'["sender"] = k["sender"]
    BY <1>2, <1>7, <2>1 DEF ScalarTypes
  <2>4. /\ i["receiver"] < NPipeline /\ count["receiver"] = Before(i["receiver"])
        /\ iter["receiver"] < Iterations
    BY <1>8, <2>1 DEF LoopAt, Loop
  <2>5. len'["receiver"] = Before(i["receiver"] + 1) - Before(i["receiver"])
    BY <2>1, <2>3, ReceiverHolds DEF InStep, Holds, Slot
  <2>6. 0 <= len'["receiver"]
    <3>1. i["receiver"] \in Nat
      BY <1>9
    <3>2. Before(i["receiver"] + 1) - Before(i["receiver"]) \in 0 .. BufferSize
      BY <3>1, ChunksBehind
    <3>3. QED
      BY <2>5, <3>2, Constants
  <2>7. LoopAt("receiver")'
    BY <1>3, <1>7, <2>1, <2>2, <2>3, <2>4, <2>5, <2>6 DEF LoopAt, Lines, Loop, Before, Offset
  <2>8. QED
    BY <1>1, <1>2, <1>7, <2>1, <2>2, <2>3, <2>7, Moving DEF Stays
<1>14. CASE Receives /\ ReceiveByte
  <2>1. /\ pc["receiver"] = "copy" /\ k["receiver"] < len["receiver"]
        /\ k'["receiver"] = k["receiver"] + 1
        /\ UNCHANGED <<pc, iter, i, count, len>> /\ k'["sender"] = k["sender"]
    BY <1>2, <1>7, <1>14 DEF ReceiveByte, ScalarTypes
  <2>2. k["receiver"] \in Nat /\ len["receiver"] \in Nat
    BY <1>2, <1>7, Constants DEF ScalarTypes
  <2>3. LoopAt("receiver")'
    BY <1>2, <1>8, <2>1, <2>2 DEF LoopAt, Lines
  <2>4. QED
    BY <1>1, <1>2, <1>7, <2>1, <2>3, Moving DEF Stays
<1>15. CASE Receives /\ Advance
  <2>1. pc["receiver"] = "copy" /\ ReceiveAdvance(len["receiver"])
    BY <1>15, AdvanceLength DEF Advance, ReceiveAdvance
  <2>2. QED
    BY <1>2, <1>7, <2>1, StepEnds DEF ReceiveAdvance
<1>16. CASE ShmStep \/ MmapStep
  <2>1. ASSUME NEW p \in Procs, NEW from, NEW line \in Labels, from # "done",
               line \in Lines(p), line \notin Loop, line # "done",
               Goes(p, from, line) \/ Ends(p, from, line)
        PROVE  LoopInv'
    BY <1>1, <1>2, <1>16, <2>1, Outside, LineMoves, IterationEnds
  <2>2. /\ {"w_open", "w_map"} \subseteq Lines("sender")
        /\ type = "shm" => {"create", "clear", "w_open", "unlink"} \subseteq Lines("receiver")
        /\ type = "mmap" => /\ {"w_open", "w_map"} \subseteq Lines("receiver")
                            /\ {"open", "resize"} \subseteq Lines("sender")
    BY DEF Lines
  <2>3. {"create", "clear", "w_open", "unlink", "w_map", "open", "resize"}
            \subseteq Labels \ (Loop \cup {"done"})
    BY DEF Labels, Loop
  <2>4. CASE type = "shm"
    BY <1>7, <1>16, <2>1, <2>2, <2>3, <2>4, Outside
  <2>5. CASE type = "mmap"
    BY <1>7, <1>16, <2>1, <2>2, <2>3, <2>5, Outside
  <2>6. QED
    BY <1>2, <2>4, <2>5
<1>17. QED
  BY <1>4, <1>5, <1>6, <1>10, <1>11, <1>12, <1>13, <1>14, <1>15, <1>16
     DEF Step, Sends, PipelineSend, Receives
-----------------------------------------------------------------------------
\* A step of p between two waits, from one line to another.
LEMMA SyncMoves ==
    ASSUME PipelineTypeOK, LoopInv, SyncInv, UNCHANGED <<barrier, type, i>>,
           NEW p \in Procs, NEW from, NEW to, from \notin Waits,
           \/ Goes(p, from, to) /\ Stage(p)' = Stage(p)
              /\ (from \in {"verify", "unlink", "unmap"} <=> to \in {"verify", "unlink", "unmap"})
           \/ /\ Ends(p, from, to) /\ from \in {"verify", "unlink", "unmap"}
              /\ to \notin {"verify", "unlink", "unmap"} /\ Stage(p)' = Stage(p)
    PROVE  SyncInv'
<1>1. Peer(p) \in Procs /\ Peer(p) # p
  BY Peers
<1>2. pc[p] = from /\ pc[p] \notin Waits
  BY DEF Goes, Ends
<1>3. Stays(Peer(p))
  BY <1>1 DEF Goes, Ends, Goto, Stays, LoopInv, PipelineTypeOK
<1>4. It(p)' = It(p)
  BY <1>1, <1>2 DEF Goes, Ends, Goto, It, LoopInv, PipelineTypeOK
<1>5. QED
  BY <1>2, <1>3, <1>4, SyncKept DEF Goes, Ends

LEMMA SyncStep ==
    ASSUME IInv, Step PROVE SyncInv'
<1>1. PipelineTypeOK /\ ScalarTypes /\ LoopInv /\ SyncInv
  BY TypeSplit DEF IInv
<1>2. type' = type /\ type \in {"shm", "mmap"} /\ pc \in [Procs -> Labels]
  BY TypeKept DEF IInv, LoopInv
<1>3. ASSUME NEW p \in Procs, Arrives(p) PROVE SyncInv'
  BY <1>1, <1>2, <1>3, SyncArrive DEF Arrives
<1>4. ASSUME NEW p \in Procs, Returns(p) PROVE SyncInv'
  <2>1. PICK line \in Waits \ {"w_map"} : ReturnFrom(p, line, After(p, line))
    BY <1>4 DEF Returns
  <2>2. /\ pc[p] = line /\ pc' = [pc EXCEPT ![p] = After(p, line)] /\ Barrier!Pass(p)
        /\ UNCHANGED <<iter, i>>
    BY <2>1 DEF ReturnFrom, Goto
  <2>3. Peer(p) \in Procs /\ Peer(p) # p
    BY Peers
  <2>4. pc'[p] = After(p, line) /\ Stays(Peer(p))
    BY <1>2, <2>2, <2>3 DEF Stays
  <2>5. IF line = "w_end" THEN It(p)' = iter[p] + 1 /\ Stage(p)' = 1
                          ELSE It(p)' = iter[p] /\ Stage(p)' = Stage(p) + 1
    <3>1. CASE line = "w_end"
      BY <2>2, <2>4, <3>1, Places DEF After, It, Stage, Opening
    <3>2. CASE line = "w_start"
      <4>1. type = "mmap"
        BY <1>1, <1>2, <2>2, <3>2 DEF LoopInv, LoopAt, Lines, Loop
      <4>2. QED
        BY <1>2, <2>2, <2>4, <3>2, <4>1 DEF After, It, Stage, Opening
    <3>3. CASE line = "w_open"
      BY <1>2, <2>2, <2>4, <3>3 DEF After, It, Stage, Opening
    <3>4. CASE line = "w_slot"
      <4>1. i[p] \in Nat
        BY <1>1, Places
      <4>2. QED
        BY <1>2, <2>2, <2>4, <3>4, <4>1 DEF After, It, Stage, Opening
    <3>5. QED
      BY <3>1, <3>2, <3>3, <3>4 DEF Waits
  <2>6. QED
    BY <1>1, <1>2, <2>1, <2>2, <2>4, <2>5, SyncPass
<1>5. ASSUME NEW p \in Procs, Enters(p) PROVE SyncInv'
  <2>1. /\ pc[p] = "w_map" /\ pc' = [pc EXCEPT ![p] = "w_slot"] /\ Barrier!Pass(p)
        /\ i' = [i EXCEPT ![p] = 0] /\ UNCHANGED iter
    BY <1>5 DEF Enters, EnterLoop, Goto
  <2>2. Peer(p) \in Procs /\ Peer(p) # p
    BY Peers
  <2>3. pc'[p] = "w_slot" /\ i'[p] = 0 /\ Stays(Peer(p))
    BY <1>1, <1>2, <2>1, <2>2 DEF Stays, ScalarTypes
  <2>4. It(p)' = iter[p] /\ Stage(p)' = Stage(p) + 1
    BY <1>2, <2>1, <2>3 DEF It, Stage, Opening
  <2>5. pc[p] \in Waits /\ pc[p] # "w_end"
    BY <2>1 DEF Waits
  <2>6. QED
    BY <1>1, <1>2, <2>1, <2>3, <2>4, <2>5, SyncPass
\* A step of the pipeline: it ends at the wait of the next one, or of the end.
<1>6. ASSUME NEW p \in Procs, pc[p] \in {"start", "copy"}, UNCHANGED <<barrier, iter>>,
             \/ UNCHANGED <<pc, i>>
             \/ UNCHANGED i /\ Goto(p, "copy")
             \/ NextStep(p, len[p])
      PROVE  SyncInv'
  <2>1. Peer(p) \in Procs /\ Peer(p) # p
    BY Peers
  <2>2. i[p] \in Nat
    BY <1>1, Places
  <2>3. /\ Stays(Peer(p))
        /\ \/ pc'[p] \in {"start", "copy"} /\ i'[p] = i[p]
           \/ pc'[p] \in {"w_slot", "w_end"} /\ i'[p] = i[p] + 1
    BY <1>1, <1>2, <1>6, <2>1 DEF Stays, Goto, NextStep, ScalarTypes
  <2>4. It(p)' = It(p) /\ Stage(p)' = Stage(p)
    BY <1>6, <2>2, <2>3 DEF It, Stage, Opening
  <2>5. pc[p] \notin Waits
    BY <1>6 DEF Waits
  <2>6. QED
    BY <1>1, <1>2, <1>6, <2>3, <2>4, <2>5, SyncKept
<1>7. CASE Sends
  BY <1>6, <1>7, Constants
     DEF Sends, PipelineSend, SendStart, SendByte, SendSize
<1>8. CASE Receives
  <2>1. Advance => ReceiveAdvance(len["receiver"])
    BY AdvanceLength DEF Advance, ReceiveAdvance
  <2>2. QED
    BY <1>6, <1>8, <2>1, Constants DEF Receives, ReceiveSize, ReceiveByte, ReceiveAdvance
<1>9. CASE ShmStep \/ MmapStep
  <2>1. UNCHANGED <<barrier, type, i>>
    BY <1>9, Outside
  <2>2. CASE type = "shm"
    <3>1. \A p \in Procs : \A from, to :
             /\ Goes(p, from, to) \/ Ends(p, from, to)
             /\ \/ from \in {"create", "clear"} /\ to \in {"clear", "w_open"} /\ p = "receiver"
                \/ from \in {"verify", "unlink"} /\ to \in {"unlink", "create"}
                \/ Goes(p, "open", "w_map") /\ from = "open" /\ to = "w_map" /\ p = "sender"
                \/ from = "unmap" /\ to = "w_open"
             => Stage(p)' = Stage(p)
      BY <1>2, <2>2 DEF Stage, Opening, Goes, Ends, Goto
    <3>2. QED
      BY <1>1, <1>9, <2>1, <2>2, <3>1, Constants, Outside, SyncMoves DEF Waits
  <2>3. CASE type = "mmap"
    <3>1. \A p \in Procs : \A from, to :
             /\ Goes(p, from, to) \/ Ends(p, from, to)
             /\ \/ from \in {"open", "resize"} /\ to \in {"resize", "w_open"} /\ p = "sender"
                \/ from = "verify" /\ to = "w_open" /\ p = "receiver"
                \/ Goes(p, "open", "w_map") /\ from = "open" /\ to = "w_map" /\ p = "receiver"
                \/ Goes(p, "clear", "w_map") /\ from = "clear" /\ to = "w_map" /\ p = "sender"
                \/ from = "unmap" /\ to = "open" /\ p = "sender"
             => Stage(p)' = Stage(p)
      BY <1>2, <2>3 DEF Stage, Opening, Goes, Ends, Goto
    <3>2. QED
      BY <1>1, <1>9, <2>1, <2>3, <3>1, Constants, Outside, SyncMoves DEF Waits
  <2>4. QED
    BY <1>2, <2>2, <2>3
<1>10. QED
  BY <1>3, <1>4, <1>5, <1>7, <1>8, <1>9 DEF Step
-----------------------------------------------------------------------------
\* A step of p that maps nothing and unmaps nothing.
LEMMA MapKept ==
    ASSUME MapInv, LoopInv, NEW p \in Procs,
           UNCHANGED <<type, iter, map, shm_name, n_created, file_size>>,
           pc'[Peer(p)] = pc[Peer(p)], pc'[p] \in Mapped(p) <=> pc[p] \in Mapped(p)
    PROVE  MapInv'
<1>1. \A q \in Procs : q = p \/ q = Peer(p)
  BY Peers
<1>2. \A q \in Procs : Mapped(q)' = Mapped(q) /\ Object(q)' = Object(q)
  BY DEF Mapped, Object
<1>3. QED
  BY <1>1, <1>2 DEF MapInv

LEMMA MapStep ==
    ASSUME IInv, Step PROVE MapInv'
<1>1. MapInv /\ LoopInv /\ PipelineTypeOK /\ ScalarTypes
  BY TypeSplit DEF IInv
<1>2. type' = type /\ type \in {"shm", "mmap"} /\ pc \in [Procs -> Labels]
  BY TypeKept DEF IInv, LoopInv
<1>3. ASSUME NEW p \in Procs, Arrives(p) PROVE MapInv'
  BY <1>1, <1>3 DEF Arrives, ArriveAt, pipeline, world, MapInv, Mapped, Object
<1>4. ASSUME NEW p \in Procs, Returns(p) PROVE MapInv'
  <2>1. PICK line \in Waits \ {"w_map"} : ReturnFrom(p, line, After(p, line))
    BY <1>4 DEF Returns
  <2>2. /\ pc[p] = line /\ pc' = [pc EXCEPT ![p] = After(p, line)]
        /\ UNCHANGED <<iter, map, type, shm_name, n_created, file_size>>
    BY <1>4, <2>1 DEF ReturnFrom, Goto, Returns, world
  <2>3. Peer(p) \in Procs /\ Peer(p) # p /\ p \in {"sender", "receiver"}
    BY Peers DEF Procs
  <2>4. pc'[p] = After(p, line) /\ pc'[Peer(p)] = pc[Peer(p)]
    BY <1>2, <2>2, <2>3
  <2>5. After(p, line) \in Mapped(p) <=> line \in Mapped(p)
    <3>1. CASE line = "w_start"
      <4>1. type = "mmap"
        BY <1>1, <1>2, <2>2, <3>1 DEF LoopInv, LoopAt, Lines, Loop
      <4>2. QED
        BY <2>3, <3>1, <4>1 DEF After, Mapped
    <3>2. CASE line = "w_open"
      BY <1>2, <2>3, <3>2 DEF After, Mapped, Opening
    <3>3. CASE line \in {"w_slot", "w_end"}
      BY <2>3, <3>3 DEF After, Mapped
    <3>4. QED
      BY <3>1, <3>2, <3>3 DEF Waits
  <2>6. QED
    BY <1>1, <2>2, <2>4, <2>5, MapKept
\* A step of the pipeline, or into it.
<1>5. ASSUME NEW p \in Procs, pc[p] \in {"w_map", "start", "copy"}, UNCHANGED world,
             UNCHANGED <<iter, map>>, pc' = pc \/ \E to \in Loop : Goto(p, to)
      PROVE  MapInv'
  <2>1. Peer(p) \in Procs /\ Peer(p) # p
    BY Peers
  <2>2. pc'[Peer(p)] = pc[Peer(p)] /\ pc'[p] \in Loop \cup {"w_map"}
    BY <1>2, <1>5, <2>1 DEF Goto, Loop
  <2>3. pc[p] \in Mapped(p) /\ pc'[p] \in Mapped(p)
    BY <1>5, <2>2 DEF Mapped, Loop
  <2>4. QED
    BY <1>1, <1>5, <2>2, <2>3, MapKept DEF world
<1>6. ASSUME NEW p \in Procs, Enters(p) PROVE MapInv'
  BY <1>5, <1>6 DEF Enters, EnterLoop, Loop
<1>7. CASE Sends
  BY <1>5, <1>7, Constants
     DEF Sends, PipelineSend, SendStart, SendByte, SendSize, NextStep, Loop
<1>8. CASE Receives
  BY <1>5, <1>8, Constants
     DEF Receives, ReceiveSize, ReceiveByte, Advance, ReceiveAdvance, NextStep, Loop
<1>9. /\ "sender" \in Procs /\ "receiver" \in Procs
      /\ \A p \in Procs : p \in {"sender", "receiver"}
  BY DEF Procs
<1>10. /\ iter["sender"] \in Nat /\ iter["receiver"] \in Nat
       /\ map["receiver"] = IF pc["receiver"] \in Mapped("receiver") THEN Object("receiver") ELSE 0
       /\ map["sender"] = IF pc["sender"] \in Mapped("sender") THEN Object("sender") ELSE 0
  BY <1>1, <1>9, Places DEF MapInv
\* What a step of one of the benchmarks has to establish.
<1>11. ASSUME NEW p \in Procs, map'[Peer(p)] = map[Peer(p)], Stays(Peer(p)),
              map'[p] = IF pc'[p] \in Mapped(p) THEN Object(p)' ELSE 0
       PROVE  \A q \in Procs : map'[q] = IF pc'[q] \in Mapped(q)' THEN Object(q)' ELSE 0
  <2>1. \A q \in Procs : q = p \/ q = Peer(p)
    BY Peers
  <2>2. \A q \in Procs : Mapped(q)' = Mapped(q)
    BY <1>2 DEF Mapped
  <2>3. Object(Peer(p))' = Object(Peer(p))
    BY <1>2, <1>11 DEF Object, Stays
  <2>4. QED
    BY <1>1, <1>11, <2>1, <2>2, <2>3, Peers DEF MapInv, Stays
<1>12. Peer("sender") = "receiver" /\ Peer("receiver") = "sender"
  BY DEF Peer
<1>13. map \in [Procs -> {0} \cup Memories] /\ iter \in [Procs -> 0 .. Iterations]
  BY <1>1 DEF ScalarTypes
<1>14. CASE ShmStep
  <2>1. /\ type = "shm" /\ file_size' = file_size /\ UNCHANGED i
        /\ shm_name = map["receiver"]
        /\ n_created = IF map["receiver"] = 0 THEN iter["receiver"] ELSE iter["receiver"] + 1
    BY <1>1, <1>14, Outside DEF ShmStep, MapInv
  <2> USE <1>9, <1>10, <1>12 DEF Shm!Goto, Object, Mapped
  <2>2. CASE Shm!Create
    <3>1. /\ map["receiver"] = 0 /\ pc'["receiver"] = "clear"
          /\ map'["receiver"] = iter["receiver"] + 1 /\ map'["sender"] = map["sender"]
          /\ shm_name' = iter["receiver"] + 1 /\ n_created' = iter["receiver"] + 1
          /\ iter' = iter /\ pc'["sender"] = pc["sender"]
      BY <1>2, <1>13, <2>1, <2>2 DEF Shm!Create
    <3>2. QED
      BY <1>2, <1>11, <2>1, <3>1 DEF MapInv, Stays
  <2>3. CASE Shm!Clear \/ Shm!Verify
    <3>1. /\ pc["receiver"] \in Mapped("receiver") /\ pc'["receiver"] \in Mapped("receiver")
          /\ UNCHANGED <<iter, map, shm_name, n_created>> /\ pc'["sender"] = pc["sender"]
      BY <1>2, <1>14, <2>1, <2>3, NoAbort DEF Shm!Clear, Shm!Verify, Shm!names
    <3>2. QED
      BY <1>1, <1>2, <2>1, <3>1, MapKept
  <2>4. CASE Shm!Unlink
    <3>1. /\ map["receiver"] = iter["receiver"] + 1 /\ map["receiver"] # 0
          /\ map'["receiver"] = 0 /\ map'["sender"] = map["sender"]
          /\ shm_name' = 0 /\ n_created' = n_created
          /\ pc'["receiver"] \in {"create", "done"}
          /\ iter'["receiver"] = iter["receiver"] + 1 /\ iter'["sender"] = iter["sender"]
          /\ pc'["sender"] = pc["sender"]
      BY <1>2, <1>13, <2>1, <2>4 DEF Shm!Unlink
    <3>2. QED
      BY <1>2, <1>11, <2>1, <3>1 DEF MapInv, Stays
  <2>5. CASE Shm!Open
    <3>1. shm_name = iter["sender"] + 1 /\ shm_name # 0
      BY <2>1, <2>5, ShmOpenFinds DEF Shm!Open
    <3>2. /\ map'["sender"] = shm_name /\ map'["receiver"] = map["receiver"]
          /\ pc'["sender"] = "w_map" /\ pc'["receiver"] = pc["receiver"]
          /\ UNCHANGED <<iter, shm_name, n_created>>
      BY <1>2, <1>13, <2>1, <2>5, <3>1 DEF Shm!Open, Shm!names
    <3>3. QED
      BY <1>2, <1>11, <2>1, <3>1, <3>2 DEF MapInv, Stays
  <2>6. CASE Shm!Unmap
    <3>1. /\ map'["sender"] = 0 /\ map'["receiver"] = map["receiver"]
          /\ pc'["sender"] \in {"w_open", "done"} /\ pc'["receiver"] = pc["receiver"]
          /\ iter'["receiver"] = iter["receiver"] /\ UNCHANGED <<shm_name, n_created>>
      BY <1>2, <1>13, <2>1, <2>6 DEF Shm!Unmap, Shm!names
    <3>2. QED
      BY <1>2, <1>11, <2>1, <3>1 DEF MapInv, Stays
  <2>7. QED
    BY <1>14, <2>2, <2>3, <2>4, <2>5, <2>6 DEF ShmStep
<1>15. CASE MmapStep
  <2>1. /\ type = "mmap" /\ UNCHANGED <<i, shm_name, n_created>>
        /\ file_size \in {"none", "empty", "full"}
        /\ map["sender"] # 0 => file_size = "full"
    BY <1>1, <1>15, Outside DEF MmapStep, MapInv
  <2> USE <1>9, <1>10, <1>12 DEF Mmap!Goto, Object, Mapped
  <2>2. CASE Mmap!Truncate
    <3>1. /\ map["sender"] = 0 /\ pc'["sender"] = "resize" /\ pc'["receiver"] = pc["receiver"]
          /\ UNCHANGED <<iter, map>> /\ file_size' = "empty"
      BY <1>2, <2>1, <2>2 DEF Mmap!Truncate
    <3>2. QED
      BY <1>2, <1>11, <2>1, <3>1 DEF MapInv, Stays
  <2>3. CASE Mmap!Resize
    <3>1. /\ map'["sender"] = 1 /\ map'["receiver"] = map["receiver"] /\ iter' = iter
          /\ pc'["sender"] = "w_open" /\ pc'["receiver"] = pc["receiver"]
          /\ file_size' = "full"
      BY <1>2, <1>13, <2>1, <2>3 DEF Mmap!Resize, Mmap!File
    <3>2. QED
      BY <1>2, <1>11, <2>1, <3>1 DEF MapInv, Stays
  <2>4. CASE Mmap!Clear
    <3>1. /\ pc["sender"] \in Mapped("sender") /\ pc'["sender"] \in Mapped("sender")
          /\ pc'["receiver"] = pc["receiver"] /\ UNCHANGED <<iter, map, file_size>>
      BY <1>2, <2>1, <2>4 DEF Mmap!Clear
    <3>2. QED
      BY <1>1, <1>2, <2>1, <3>1, MapKept
  <2>5. CASE Mmap!Unmap
    <3>1. /\ map'["sender"] = 0 /\ map'["receiver"] = map["receiver"]
          /\ pc'["sender"] \in {"open", "done"} /\ pc'["receiver"] = pc["receiver"]
          /\ iter'["receiver"] = iter["receiver"] /\ UNCHANGED file_size
      BY <1>2, <1>13, <2>1, <2>5 DEF Mmap!Unmap
    <3>2. QED
      BY <1>2, <1>11, <2>1, <3>1 DEF MapInv, Stays
  <2>6. CASE Mmap!Open
    <3>1. /\ map'["receiver"] = 1 /\ map'["sender"] = map["sender"] /\ iter' = iter
          /\ pc'["receiver"] = "w_map" /\ pc'["sender"] = pc["sender"]
          /\ UNCHANGED file_size
      BY <1>2, <1>13, <1>15, <2>1, <2>6, NoAbort DEF Mmap!Open, Mmap!File
    <3>2. QED
      BY <1>2, <1>11, <2>1, <3>1 DEF MapInv, Stays
  <2>7. CASE Mmap!Verify
    <3>1. Mmap!Verified
      BY <1>15, <2>7, NoAbort
    <3>2. /\ map'["receiver"] = 0 /\ map'["sender"] = map["sender"]
          /\ pc'["receiver"] \in {"w_open", "done"} /\ pc'["sender"] = pc["sender"]
          /\ iter'["sender"] = iter["sender"] /\ UNCHANGED file_size
      BY <1>2, <1>13, <2>1, <2>7, <3>1 DEF Mmap!Verify
    <3>3. QED
      BY <1>2, <1>11, <2>1, <3>2 DEF MapInv, Stays
  <2>8. QED
    BY <1>15, <2>2, <2>3, <2>4, <2>5, <2>6, <2>7 DEF MmapStep
<1>16. QED
  BY <1>3, <1>4, <1>6, <1>7, <1>8, <1>14, <1>15 DEF Step
-----------------------------------------------------------------------------
\* While the sender is in a step of the pipeline the receiver is in the pipeline
\* too; while the receiver of shm clears its memory the sender may still be at
\* the end of the iteration before, which had another memory.
LEMMA SenderInPipeline ==
    ASSUME IInv, InStep("sender")
    PROVE  pc["receiver"] \notin {"w_open", "w_map"}
<1> USE DEF IInv
<1>1. "sender" \in Procs /\ "receiver" \in Procs /\ Peer("sender") = "receiver"
  BY DEF Procs, Peer
<1>2. i["sender"] \in Nat /\ Stage("receiver") \in Nat
  BY <1>1, Places
<1>3. arrived["sender"] = passed["sender"]
  BY <1>1 DEF SyncInv, InStep, Waits
<1>4. Stage("sender") = 4 + i["sender"]
  BY DEF Stage, InStep
<1>5. Stage("receiver") = 4 + i["sender"] \/ Stage("receiver") = 3 + i["sender"]
      \/ pc["receiver"] = "w_end"
  BY <1>1, <1>2, <1>3, <1>4, Together DEF Follows
<1>6. ASSUME pc["receiver"] \in {"w_open", "w_map"} PROVE Stage("receiver") \in {1, 2}
  BY <1>6 DEF Stage, Opening
<1>7. QED
  BY <1>2, <1>5, <1>6

LEMMA ClearsOwnMemory ==
    ASSUME IInv, type = "shm", pc["receiver"] = "clear", pc["sender"] \in Loop
    PROVE  map["sender"] # map["receiver"]
<1> USE DEF IInv
<1>1. "sender" \in Procs /\ "receiver" \in Procs /\ Peer("receiver") = "sender"
  BY DEF Procs, Peer
<1>2. /\ i["sender"] \in Nat /\ iter["sender"] \in Nat /\ iter["receiver"] \in Nat
      /\ Stage("sender") \in Nat
  BY <1>1, Places
<1>3. arrived["receiver"] = passed["receiver"]
  BY <1>1 DEF SyncInv, Waits
<1>4. Stage("receiver") = 1 /\ It("receiver") = iter["receiver"]
  BY DEF Stage, It, Opening
<1>5. Stage("sender") >= 3
  BY <1>2 DEF Stage, Loop
<1>6. pc["sender"] = "w_end" /\ iter["receiver"] = iter["sender"] + 1
  BY <1>1, <1>2, <1>3, <1>4, <1>5, Together DEF Follows
<1>7. map["receiver"] = iter["receiver"] + 1 /\ map["sender"] = iter["sender"] + 1
  BY <1>1, <1>6 DEF MapInv, Mapped, Object
<1>8. QED
  BY <1>2, <1>6, <1>7

\* What the memories hold after a step.
HoldsThen(o, s, j) ==
    /\ size'[o][s] = Before(j + 1) - Before(j)
    /\ \A b \in 1 .. size'[o][s] : bytes'[o][s][b] = Before(j) + b

LEMMA ContentThen ==
    ASSUME pc'["receiver"] \notin {"w_open", "w_map"}, pc'["sender"] # "w_map",
           pc'["sender"] \in {"w_slot", "start", "copy"} =>
               HoldsThen(map'["sender"], (i'["sender"] + 1) % 2, i'["sender"]),
           pc'["sender"] \in {"w_slot", "w_end"} /\ i'["sender"] # 0 =>
               HoldsThen(map'["sender"], i'["sender"] % 2, i'["sender"] - 1),
           pc'["sender"] = "copy" =>
               \A b \in 1 .. k'["sender"] :
                  bytes'[map'["sender"]][i'["sender"] % 2][b] = Offset(i'["sender"]) + b
    PROVE  ContentInv'
  BY DEF ContentInv, HoldsThen, Holds, Before, Offset

\* A step that leaves the memories alone.
LEMMA ContentKept ==
    ASSUME ContentInv, UNCHANGED <<type, size, bytes>>,
           \/ pc'["sender"] \notin Loop \cup {"w_map"}
           \/ /\ Stays("sender")
              /\ map'["sender"] = map["sender"] /\ k'["sender"] = k["sender"],
           type = "shm" /\ pc'["receiver"] \in {"w_open", "w_map"} =>
              pc["receiver"] \in {"w_open", "w_map"} /\ map'["receiver"] = map["receiver"]
    PROVE  ContentInv'
<1>1. type = "shm" /\ pc'["receiver"] \in {"w_open", "w_map"} => size'[map'["receiver"]][1] = 0
  BY DEF ContentInv
<1>2. CASE pc'["sender"] \notin Loop \cup {"w_map"}
  BY <1>1, <1>2 DEF ContentInv, Loop
<1>3. CASE /\ Stays("sender")
           /\ map'["sender"] = map["sender"] /\ k'["sender"] = k["sender"]
  <2>1. \A s, j : Holds(map["sender"], s, j) => Holds(map["sender"], s, j)'
    BY <1>3 DEF Holds, Before, Offset
  <2>2. pc'["sender"] = pc["sender"] /\ i'["sender"] = i["sender"]
    BY <1>3 DEF Stays
  <2>3. pc'["sender"] \in {"w_slot", "start", "copy"} =>
          Holds(map["sender"], (i["sender"] + 1) % 2, i["sender"])'
    BY <2>1, <2>2 DEF ContentInv
  <2>4. pc'["sender"] \in {"w_slot", "w_end"} /\ i'["sender"] # 0 =>
          Holds(map["sender"], i["sender"] % 2, i["sender"] - 1)'
    BY <2>1, <2>2 DEF ContentInv
  <2>5. QED
    BY <1>1, <1>3, <2>2, <2>3, <2>4 DEF ContentInv, Holds, Before, Offset
<1>4. QED
  BY <1>2, <1>3

LEMMA ContentStep ==
    ASSUME IInv, Step PROVE ContentInv'
<1>1. /\ ContentInv /\ LoopInv /\ PipelineTypeOK /\ ScalarTypes
      /\ Sizes /\ Contents
  BY TypeSplit DEF IInv
<1>2. type' = type /\ type \in {"shm", "mmap"} /\ pc \in [Procs -> Labels]
  BY TypeKept DEF IInv, LoopInv
<1>3. /\ "sender" \in Procs /\ "receiver" \in Procs
      /\ \A p \in Procs : p \in {"sender", "receiver"}
  BY DEF Procs
<1>4. i["sender"] \in Nat /\ k["sender"] \in Nat
  BY <1>1, <1>3, Constants DEF ScalarTypes
<1>5. ASSUME NEW p \in Procs, Arrives(p) PROVE ContentInv'
  BY <1>1, <1>2, <1>5, ContentKept DEF Arrives, ArriveAt, pipeline, Stays
<1>6. ASSUME NEW p \in Procs, Returns(p) PROVE ContentInv'
  <2>1. PICK line \in Waits \ {"w_map"} : ReturnFrom(p, line, After(p, line))
    BY <1>6 DEF Returns
  <2>2. /\ pc[p] = line /\ pc' = [pc EXCEPT ![p] = After(p, line)]
        /\ UNCHANGED <<iter, i, k, map, size, bytes>>
    BY <2>1 DEF ReturnFrom, Goto
  <2>3. CASE p = "receiver"
    <3>1. pc'["sender"] = pc["sender"] /\ pc'["receiver"] = After("receiver", line)
      BY <1>2, <1>3, <2>2, <2>3
    <3>2. type = "shm" /\ After("receiver", line) \in {"w_open", "w_map"} =>
             line \in {"w_open", "w_map"}
      <4>1. type = "shm" => line # "w_start"
        BY <1>1, <1>3, <2>2, <2>3 DEF LoopInv, LoopAt, Lines, Loop
      <4>2. QED
        BY <4>1 DEF After, Opening, Waits
    <3>3. QED
      BY <1>1, <1>2, <2>2, <2>3, <3>1, <3>2, ContentKept DEF Stays
  <2>4. CASE p = "sender" /\ line # "w_slot"
    <3>1. pc'["receiver"] = pc["receiver"] /\ pc'["sender"] = After("sender", line)
      BY <1>2, <1>3, <2>2, <2>4
    <3>2. After("sender", line) \notin Loop \cup {"w_map"}
      BY <1>2, <2>1, <2>4 DEF After, Opening, Waits, Loop
    <3>3. QED
      BY <1>1, <1>2, <2>2, <3>1, <3>2, ContentKept
  <2>5. CASE p = "sender" /\ line = "w_slot"
    <3>1. /\ pc'["receiver"] = pc["receiver"] /\ pc'["sender"] = "start"
          /\ pc["sender"] = "w_slot"
      BY <1>2, <1>3, <2>2, <2>5 DEF After
    <3>2. QED
      BY <1>1, <1>2, <2>2, <3>1 DEF ContentInv, Holds, Before, Offset
  <2>6. QED
    BY <1>3, <2>3, <2>4, <2>5
<1>7. ASSUME NEW p \in Procs, Enters(p) PROVE ContentInv'
  <2>1. /\ pc[p] = "w_map" /\ pc' = [pc EXCEPT ![p] = "w_slot"]
        /\ i' = [i EXCEPT ![p] = 0] /\ UNCHANGED <<iter, k, map, size, bytes>>
    BY <1>7 DEF Enters, EnterLoop, Goto
  <2>2. CASE p = "receiver"
    <3>1. /\ pc'["sender"] = pc["sender"] /\ pc'["receiver"] = "w_slot"
          /\ i'["sender"] = i["sender"]
      BY <1>1, <1>2, <1>3, <2>1, <2>2 DEF ScalarTypes
    <3>2. QED
      BY <1>1, <1>2, <2>1, <3>1, ContentKept DEF Stays
  <2>3. CASE p = "sender"
    <3>1. /\ pc'["receiver"] = pc["receiver"] /\ pc'["sender"] = "w_slot"
          /\ i'["sender"] = 0 /\ pc["sender"] = "w_map"
      BY <1>1, <1>2, <1>3, <2>1, <2>3 DEF ScalarTypes
    <3>2. size[map["sender"]][1] = 0
      BY <1>1, <3>1 DEF ContentInv
    <3>3. Holds(map["sender"], 1, 0)
      BY <3>2, ChunksBehind DEF Holds
    <3>4. (i'["sender"] + 1) % 2 = 1
      BY <3>1
    <3>5. Holds(map["sender"], (i["sender"] + 1) % 2, i["sender"])'
      BY <2>1, <3>1, <3>3, <3>4 DEF Holds, Before, Offset
    <3>6. QED
      BY <1>1, <1>2, <2>1, <3>1, <3>5 DEF ContentInv
  <2>4. QED
    BY <1>3, <2>2, <2>3
<1>8. CASE Sends /\ SendStart
  <2>1. /\ pc["sender"] = "start" /\ pc'["sender"] = "copy" /\ pc'["receiver"] = pc["receiver"]
        /\ k'["sender"] = 0 /\ UNCHANGED <<i, map, size, bytes>>
    BY <1>1, <1>2, <1>3, <1>8 DEF SendStart, Goto, ScalarTypes
  <2>2. QED
    BY <1>1, <1>2, <2>1 DEF ContentInv, Holds, Before, Offset
<1> DEFINE n == i["sender"]
           o == map["sender"]
<1>9. ASSUME pc["sender"] = "copy"
      PROVE  /\ o \in Memories /\ n \in Nat
             /\ n % 2 \in Slots /\ (n + 1) % 2 \in Slots /\ n % 2 # (n + 1) % 2
             /\ (n + 2) % 2 = n % 2
             /\ Holds(o, (n + 1) % 2, n)
             /\ \A b \in 1 .. k["sender"] : bytes[o][n % 2][b] = Offset(n) + b
             /\ count["sender"] = Offset(n) /\ Offset(n) \in Nat
             /\ Slot("sender") = n % 2
             /\ pc["receiver"] \notin {"w_open", "w_map"}
  <2>1. o \in Memories
    BY <1>3, <1>9, MappedMemory DEF Mapped
  <2>2. count["sender"] = Offset(n)
    BY <1>1, <1>3, <1>9 DEF LoopInv, LoopAt, Loop
  <2>3. Offset(n) \in Nat
    <3>1. Offset(n) \in 0 .. DataSize
      BY <1>4, Chunks
    <3>2. QED
      BY <3>1, Constants
  <2>4. QED
    BY <1>1, <1>4, <1>9, <2>1, <2>2, <2>3, Parity, SenderInPipeline
       DEF ContentInv, Slot, InStep
<1>10. CASE Sends /\ SendByte
  <2>1. /\ pc["sender"] = "copy" /\ k["sender"] < len["sender"]
        /\ bytes' = [bytes EXCEPT ![o][Slot("sender")][k["sender"] + 1] =
                         DataToSend[count["sender"] + k["sender"] + 1]]
        /\ k'["sender"] = k["sender"] + 1
        /\ UNCHANGED <<pc, i, map, size>>
    BY <1>1, <1>3, <1>10 DEF SendByte, ScalarTypes
  <2>2. /\ k["sender"] + 1 \in 1 .. BufferSize
        /\ DataToSend[count["sender"] + k["sender"] + 1] = count["sender"] + k["sender"] + 1
    <3>1. /\ k["sender"] + 1 \in 1 .. BufferSize
          /\ count["sender"] + k["sender"] + 1 \in 1 .. DataSize
      BY <1>3, <2>1, Constants, CopyFits
    <3>2. QED
      BY <3>1 DEF DataToSend
  <2>3. /\ bytes'[o][(n + 1) % 2] = bytes[o][(n + 1) % 2]
        /\ bytes'[o][n % 2] = [bytes[o][n % 2] EXCEPT ![k["sender"] + 1] =
                                   count["sender"] + k["sender"] + 1]
    BY <1>1, <1>9, <2>1, <2>2 DEF Contents
  <2>4. DOMAIN bytes[o][n % 2] = 1 .. BufferSize
    BY <1>1, <1>9, <2>1 DEF Contents
  <2>5. \A b \in 1 .. k["sender"] + 1 : bytes'[o][n % 2][b] = Offset(n) + b
    <3>1. SUFFICES ASSUME NEW b \in 1 .. k["sender"] + 1
                   PROVE  bytes'[o][n % 2][b] = Offset(n) + b
      OBVIOUS
    <3>2. b \in 1 .. BufferSize
      BY <1>4, <2>2, Constants
    <3>3. CASE b = k["sender"] + 1
      <4>1. bytes'[o][n % 2][b] = count["sender"] + k["sender"] + 1
        BY <2>3, <2>4, <3>2, <3>3
      <4>2. count["sender"] = Offset(n) /\ Offset(n) \in Nat
        BY <1>9, <2>1
      <4>3. QED
        BY <1>4, <3>3, <4>1, <4>2
    <3>4. CASE b # k["sender"] + 1
      <4>1. b \in 1 .. k["sender"]
        BY <1>4, <3>4
      <4>2. bytes'[o][n % 2][b] = bytes[o][n % 2][b]
        BY <2>3, <2>4, <3>2, <3>4
      <4>3. QED
        BY <1>9, <2>1, <4>1, <4>2
    <3>5. QED
      BY <3>3, <3>4
  <2>6. HoldsThen(o, (n + 1) % 2, n)
    BY <1>9, <2>1, <2>3 DEF Holds, HoldsThen
  <2>7. /\ pc'["sender"] = "copy" /\ pc'["receiver"] \notin {"w_open", "w_map"}
        /\ i'["sender"] = n /\ map'["sender"] = o
    BY <1>9, <2>1
  <2>8. QED
    BY <2>1, <2>5, <2>6, <2>7, ContentThen
<1>11. CASE Sends /\ SendSize
  <2>1. /\ pc["sender"] = "copy" /\ k["sender"] = len["sender"]
        /\ size' = [size EXCEPT ![o][Slot("sender")] = len["sender"]]
        /\ pc'["sender"] \in {"w_slot", "w_end"} /\ pc'["receiver"] = pc["receiver"]
        /\ i'["sender"] = n + 1 /\ UNCHANGED <<map, bytes>>
    BY <1>1, <1>2, <1>3, <1>11 DEF SendSize, NextStep, Goto, ScalarTypes
  <2>2. size'[o][n % 2] = len["sender"] /\ size'[o][(n + 1) % 2] = size[o][(n + 1) % 2]
    BY <1>1, <1>9, <2>1 DEF Sizes
  <2>3. len["sender"] = Offset(n + 1) - Offset(n)
    BY <1>1, <1>3, <2>1 DEF LoopInv, LoopAt
  <2>4. Before(n + 1) = Offset(n) /\ Before((n + 1) + 1) = Offset(n + 1)
    BY <1>4, ChunksBehind
  <2>5. HoldsThen(o, (n + 1) % 2, n)
    BY <1>9, <2>1, <2>2 DEF Holds, HoldsThen
  <2>6. HoldsThen(o, n % 2, n + 1)
    BY <1>9, <2>1, <2>2, <2>3, <2>4 DEF HoldsThen
  <2>7. (i'["sender"] + 1) % 2 = n % 2 /\ i'["sender"] % 2 = (n + 1) % 2
        /\ i'["sender"] - 1 = n
    BY <1>4, <1>9, <2>1
  <2>8. pc'["receiver"] \notin {"w_open", "w_map"} /\ map'["sender"] = o
    BY <1>9, <2>1
  <2>9. QED
    BY <2>1, <2>5, <2>6, <2>7, <2>8, ContentThen
<1>12. CASE Receives
  <2>1. /\ pc["receiver"] \in {"start", "copy"}
        /\ pc' = pc \/ \E to \in Loop : Goto("receiver", to)
        /\ UNCHANGED <<iter, map, size, bytes>>
        /\ k'["sender"] = k["sender"] /\ i'["sender"] = i["sender"]
    BY <1>1, <1>3, <1>12
       DEF Receives, ReceiveSize, ReceiveByte, Advance, ReceiveAdvance, NextStep, Loop,
           ScalarTypes
  <2>2. pc'["sender"] = pc["sender"] /\ pc'["receiver"] \in Loop
    BY <1>2, <1>3, <2>1 DEF Goto, Loop
  <2>3. QED
    BY <1>1, <1>2, <2>1, <2>2, ContentKept DEF Stays, Loop
<1>13. CASE ShmStep
  <2>1. UNCHANGED <<i, k>> /\ type = "shm"
    BY <1>13, Outside DEF ShmStep
  <2> USE <1>3 DEF Shm!Goto
  <2>2. CASE Shm!Create \/ Shm!Verify \/ Shm!Unlink
    <3>1. /\ pc'["receiver"] \in {"clear", "unlink", "create", "done", "aborted"}
          /\ pc'["sender"] = pc["sender"] /\ map'["sender"] = map["sender"]
          /\ UNCHANGED <<size, bytes>> /\ iter'["sender"] = iter["sender"]
      BY <1>1, <1>2, <2>2 DEF Shm!Create, Shm!Verify, Shm!Unlink, ScalarTypes
    <3>2. QED
      BY <1>1, <1>2, <2>1, <3>1, ContentKept DEF Stays
  <2>3. CASE Shm!Clear
    <3> DEFINE m == map["receiver"]
    <3>1. /\ pc["receiver"] = "clear"
          /\ size' = [size EXCEPT ![m] = ZeroSizes] /\ bytes' = [bytes EXCEPT ![m] = ZeroBytes]
          /\ pc'["sender"] = pc["sender"] /\ map' = map
      BY <1>2, <2>3, SameConstants DEF Shm!Clear
    <3>2. m \in Memories
      BY <2>1, <3>1, MappedMemory DEF Mapped
    <3>3. size'[m][1] = 0
      BY <1>1, <3>1, <3>2 DEF Sizes, ZeroSizes, Slots
    <3>4. \A q \in Memories \ {m} : size'[q] = size[q] /\ bytes'[q] = bytes[q]
      BY <1>1, <3>1 DEF Sizes, Contents
    <3>5. CASE pc["sender"] \in Loop
      <4>1. map["sender"] \in Memories \ {m}
        BY <2>1, <3>1, <3>5, MappedMemory, ClearsOwnMemory DEF Mapped, Loop
      <4>2. \A s, j : Holds(map["sender"], s, j) => Holds(map["sender"], s, j)'
        BY <3>1, <3>4, <4>1 DEF Holds, Before, Offset
      <4>3. /\ pc'["sender"] \in {"w_slot", "start", "copy"} =>
                 Holds(map["sender"], (i["sender"] + 1) % 2, i["sender"])'
            /\ pc'["sender"] \in {"w_slot", "w_end"} /\ i'["sender"] # 0 =>
                 Holds(map["sender"], i["sender"] % 2, i["sender"] - 1)'
        BY <1>1, <2>1, <3>1, <4>2 DEF ContentInv
      <4>4. pc["sender"] # "w_map"
        BY <3>5 DEF Loop
      <4>5. QED
        BY <1>1, <2>1, <3>1, <3>3, <3>4, <4>1, <4>3, <4>4 DEF ContentInv, Offset
    <3>6. CASE pc["sender"] = "w_map"
      <4>1. map["sender"] \in Memories
        BY <3>6, MappedMemory DEF Mapped
      <4>2. size'[map["sender"]][1] = 0
        BY <1>1, <3>3, <3>4, <3>6, <4>1 DEF ContentInv
      <4>3. QED
        BY <3>1, <3>3, <3>6, <4>2 DEF ContentInv
    <3>7. CASE pc["sender"] \notin Loop \cup {"w_map"}
      BY <3>1, <3>3, <3>7 DEF ContentInv, Loop
    <3>8. QED
      BY <3>5, <3>6, <3>7
  <2>4. CASE Shm!Open
    <3>1. shm_name # 0 /\ size[shm_name][1] = 0
      BY <2>1, <2>4, ShmOpenFinds DEF Shm!Open
    <3>2. /\ map'["sender"] = shm_name /\ map'["receiver"] = map["receiver"]
          /\ pc'["sender"] = "w_map" /\ pc'["receiver"] = pc["receiver"]
          /\ UNCHANGED <<size, bytes>>
      BY <1>1, <1>2, <2>4, <3>1 DEF Shm!Open, ScalarTypes
    <3>3. QED
      BY <1>1, <1>2, <3>1, <3>2 DEF ContentInv
  <2>5. CASE Shm!Unmap
    <3>1. /\ pc'["sender"] \in {"w_open", "done"} /\ pc'["receiver"] = pc["receiver"]
          /\ UNCHANGED <<size, bytes>> /\ map'["receiver"] = map["receiver"]
      BY <1>1, <1>2, <2>5 DEF Shm!Unmap, ScalarTypes
    <3>2. QED
      BY <1>1, <1>2, <3>1, ContentKept DEF Loop
  <2>6. QED
    BY <1>13, <2>2, <2>3, <2>4, <2>5 DEF ShmStep
<1>14. CASE MmapStep
  <2>1. UNCHANGED <<i, k>> /\ type = "mmap"
    BY <1>14, Outside DEF MmapStep
  <2> USE <1>3 DEF Mmap!Goto
  <2>2. CASE Mmap!Truncate \/ Mmap!Resize \/ Mmap!Unmap
    <3>1. pc'["sender"] \in {"resize", "w_open", "open", "done"}
      BY <1>2, <2>2 DEF Mmap!Truncate, Mmap!Resize, Mmap!Unmap
    <3>2. QED
      BY <1>2, <2>1, <3>1 DEF ContentInv
  <2>3. CASE Mmap!Clear
    <3>1. /\ pc["sender"] = "clear" /\ pc'["sender"] = "w_map" /\ map' = map
          /\ size' = [size EXCEPT ![1] = ZeroSizes]
      BY <1>2, <2>3, SameConstants DEF Mmap!Clear
    <3>2. map["sender"] = 1
      BY <1>3, <2>1, <3>1, MappedMemory DEF Mapped, Object
    <3>3. size'[1][1] = 0
      BY <1>1, <3>1, SameConstants DEF Sizes, ZeroSizes, Slots
    <3>4. QED
      BY <1>2, <2>1, <3>1, <3>2, <3>3 DEF ContentInv
  <2>4. CASE Mmap!Open \/ Mmap!Verify
    <3>1. /\ pc'["sender"] = pc["sender"] /\ map'["sender"] = map["sender"]
          /\ UNCHANGED <<size, bytes>> /\ iter'["sender"] = iter["sender"]
      BY <1>1, <1>2, <2>4 DEF Mmap!Open, Mmap!Verify, ScalarTypes
    <3>2. QED
      BY <1>1, <1>2, <2>1, <3>1, ContentKept DEF Stays
  <2>5. QED
    BY <1>14, <2>2, <2>3, <2>4 DEF MmapStep
<1>15. QED
  BY <1>5, <1>6, <1>7, <1>8, <1>10, <1>11, <1>12, <1>13, <1>14 DEF Step, Sends, PipelineSend
-----------------------------------------------------------------------------
\* A step that leaves what the receiver has, or leaves its loop.
LEMMA ReceivedKept ==
    ASSUME ReceivedInv,
           \/ pc'["receiver"] \notin Loop \cup {"verify"}
           \/ /\ pc'["receiver"] = pc["receiver"] /\ received' = received
              /\ count'["receiver"] = count["receiver"] /\ k'["receiver"] = k["receiver"]
    PROVE  ReceivedInv'
  BY DEF ReceivedInv, Loop, DataToSend

LEMMA ReceivedStep ==
    ASSUME IInv, Step PROVE ReceivedInv'
<1>1. ReceivedInv /\ LoopInv /\ PipelineTypeOK /\ ScalarTypes /\ ReceivedType
  BY TypeSplit DEF IInv
<1>2. type' = type /\ type \in {"shm", "mmap"} /\ pc \in [Procs -> Labels]
  BY TypeKept DEF IInv, LoopInv
<1>3. /\ "sender" \in Procs /\ "receiver" \in Procs
      /\ \A p \in Procs : p \in {"sender", "receiver"}
  BY DEF Procs
<1>4. ASSUME NEW p \in Procs, Arrives(p) PROVE ReceivedInv'
  BY <1>1, <1>4, ReceivedKept DEF Arrives, ArriveAt, pipeline
<1>5. ASSUME NEW p \in Procs, Returns(p) PROVE ReceivedInv'
  <2>1. PICK line \in Waits \ {"w_map"} : ReturnFrom(p, line, After(p, line))
    BY <1>5 DEF Returns
  <2>2. /\ pc[p] = line /\ pc' = [pc EXCEPT ![p] = After(p, line)]
        /\ UNCHANGED <<i, k, count, received>>
    BY <2>1 DEF ReturnFrom, Goto
  <2>3. CASE p = "sender"
    <3>1. pc'["receiver"] = pc["receiver"]
      BY <1>2, <1>3, <2>2, <2>3
    <3>2. QED
      BY <1>1, <2>2, <3>1, ReceivedKept
  <2>4. CASE p = "receiver" /\ line \in {"w_start", "w_open"}
    <3>1. pc'["receiver"] = After("receiver", line)
      BY <1>2, <1>3, <2>2, <2>4
    <3>2. After("receiver", line) \notin Loop \cup {"verify"}
      BY <2>4 DEF After, Opening, Loop
    <3>3. QED
      BY <1>1, <3>1, <3>2, ReceivedKept
  <2>5. CASE p = "receiver" /\ line = "w_slot"
    <3>1. pc'["receiver"] = "start" /\ pc["receiver"] = "w_slot"
      BY <1>2, <1>3, <2>2, <2>5 DEF After
    <3>2. QED
      BY <1>1, <2>2, <3>1 DEF ReceivedInv, Loop
  <2>6. CASE p = "receiver" /\ line = "w_end"
    <3>1. pc'["receiver"] = "verify" /\ pc["receiver"] = "w_end"
      BY <1>2, <1>3, <2>2, <2>6 DEF After
    <3>2. count["receiver"] = DataSize
      BY <1>1, <1>3, <3>1, ChunksBehind DEF LoopInv, LoopAt, Loop
    <3>3. \A b \in 1 .. DataSize : received[b] = b
      BY <1>1, <3>1, <3>2 DEF ReceivedInv, Loop
    <3>4. received = DataToSend
      BY <1>1, <3>3 DEF ReceivedType, DataToSend
    <3>5. QED
      BY <2>2, <3>1, <3>4 DEF ReceivedInv, DataToSend, Loop
  <2>7. QED
    BY <1>3, <2>3, <2>4, <2>5, <2>6 DEF Waits
<1>6. ASSUME NEW p \in Procs, Enters(p) PROVE ReceivedInv'
  <2>1. /\ pc[p] = "w_map" /\ pc' = [pc EXCEPT ![p] = "w_slot"]
        /\ count' = [count EXCEPT ![p] = 0] /\ UNCHANGED <<k, received>>
    BY <1>6 DEF Enters, EnterLoop, Goto
  <2>2. CASE p = "sender"
    <3>1. pc'["receiver"] = pc["receiver"] /\ count'["receiver"] = count["receiver"]
      BY <1>1, <1>2, <1>3, <2>1, <2>2 DEF ScalarTypes
    <3>2. QED
      BY <1>1, <2>1, <3>1, ReceivedKept
  <2>3. CASE p = "receiver"
    <3>1. pc'["receiver"] = "w_slot" /\ count'["receiver"] = 0
      BY <1>1, <1>2, <1>3, <2>1, <2>3 DEF ScalarTypes
    <3>2. QED
      BY <3>1 DEF ReceivedInv
  <2>4. QED
    BY <1>3, <2>2, <2>3
<1>7. CASE Sends
  <2>1. /\ pc'["receiver"] = pc["receiver"] /\ received' = received
        /\ count'["receiver"] = count["receiver"] /\ k'["receiver"] = k["receiver"]
    BY <1>1, <1>2, <1>3, <1>7
       DEF Sends, PipelineSend, SendStart, SendByte, SendSize, NextStep, Goto, ScalarTypes
  <2>2. QED
    BY <1>1, <2>1, ReceivedKept
<1>8. CASE Receives /\ ReceiveSize
  <2>1. /\ pc["receiver"] = "start" /\ pc'["receiver"] = "copy" /\ k'["receiver"] = 0
        /\ UNCHANGED <<count, received>>
    BY <1>1, <1>2, <1>3, <1>8 DEF ReceiveSize, Goto, ScalarTypes
  <2>2. QED
    BY <1>1, <2>1 DEF ReceivedInv, Loop
<1> DEFINE c == count["receiver"]
           m == k["receiver"]
<1>9. ASSUME pc["receiver"] = "copy"
      PROVE  /\ c \in 0 .. DataSize /\ m \in Nat /\ len["receiver"] \in Nat
             /\ c + len["receiver"] \in 0 .. DataSize /\ m <= len["receiver"]
             /\ c \in Nat /\ DataSize \in Nat
             /\ \A b \in 1 .. c : received[b] = b
             /\ \A b \in 1 .. m : received[c + b] = c + b
  <2>1. /\ c \in 0 .. DataSize /\ len["receiver"] \in 0 .. BufferSize
        /\ m \in 0 .. len["receiver"] /\ c + len["receiver"] \in 0 .. DataSize
    BY <1>3, <1>9, CopyFits
  <2>2. /\ \A b \in 1 .. c : received[b] = b
        /\ \A b \in 1 .. m : received[c + b] = c + b
    BY <1>1, <1>9 DEF ReceivedInv, Loop
  <2>3. QED
    BY <2>1, <2>2, Constants
<1>10. CASE Receives /\ ReceiveByte
  <2> DEFINE slot == Slot("receiver")
             o == map["receiver"]
  <2>1. /\ pc["receiver"] = "copy" /\ m < len["receiver"]
        /\ received' = [received EXCEPT ![c + m + 1] = bytes[o][slot][m + 1]]
        /\ k'["receiver"] = m + 1 /\ UNCHANGED <<pc, count>>
    BY <1>1, <1>3, <1>10 DEF ReceiveByte, ScalarTypes
  <2>2. bytes[o][slot][m + 1] = c + m + 1
    <3>1. /\ Holds(o, slot, i["receiver"]) /\ c = Before(i["receiver"])
      BY <2>1, ReceiverHolds DEF InStep, Slot
    <3>2. size[o][slot] = len["receiver"]
      BY <2>1, AdvanceLength
    <3>3. m + 1 \in 1 .. size[o][slot]
      BY <1>9, <2>1, <3>2
    <3>4. bytes[o][slot][m + 1] = Before(i["receiver"]) + (m + 1)
      BY <3>1, <3>3 DEF Holds
    <3>5. QED
      BY <1>9, <2>1, <3>1, <3>4
  <2>3. c + m + 1 \in 1 .. DataSize
    BY <1>9, <2>1
  <2>4. \A b \in 1 .. DataSize :
           received'[b] = IF b = c + m + 1 THEN c + m + 1 ELSE received[b]
    BY <1>1, <2>1, <2>2, <2>3 DEF ReceivedType
  <2>5. \A b \in 1 .. c : received'[b] = b
    BY <1>9, <2>1, <2>4
  <2>6. \A b \in 1 .. m + 1 : received'[c + b] = c + b
    <3>1. SUFFICES ASSUME NEW b \in 1 .. m + 1 PROVE received'[c + b] = c + b
      OBVIOUS
    <3>2. c + b \in 1 .. DataSize /\ (b = m + 1 \/ b \in 1 .. m)
      BY <1>9, <2>1
    <3>3. QED
      BY <1>9, <2>1, <2>4, <3>2
  <2>7. QED
    BY <2>1, <2>5, <2>6 DEF ReceivedInv
<1>11. CASE Receives /\ Advance
  <2>1. pc["receiver"] = "copy" /\ ReceiveAdvance(len["receiver"])
    BY <1>11, AdvanceLength DEF Advance, ReceiveAdvance
  <2>2. /\ m = len["receiver"] /\ count'["receiver"] = c + m /\ received' = received
        /\ pc'["receiver"] \in {"w_slot", "w_end"}
    BY <1>1, <1>2, <1>3, <2>1 DEF ReceiveAdvance, NextStep, Goto, ScalarTypes
  <2>3. \A b \in 1 .. c + m : received[b] = b
    <3>1. SUFFICES ASSUME NEW b \in 1 .. c + m PROVE received[b] = b
      OBVIOUS
    <3>2. CASE b \in 1 .. c
      BY <1>9, <2>1, <3>2
    <3>3. CASE b \notin 1 .. c
      <4>1. b - c \in 1 .. m /\ c + (b - c) = b
        BY <1>9, <2>1, <3>3
      <4>2. QED
        BY <1>9, <2>1, <4>1
    <3>4. QED
      BY <3>2, <3>3
  <2>4. QED
    BY <2>2, <2>3 DEF ReceivedInv
<1>12. CASE ShmStep
  <2> USE <1>3 DEF Shm!Goto
  <2>1. CASE Shm!Open \/ Shm!Unmap
    <3>1. pc'["receiver"] = pc["receiver"] /\ UNCHANGED <<count, k, received>>
      BY <1>2, <2>1 DEF Shm!Open, Shm!Unmap
    <3>2. QED
      BY <1>1, <3>1, ReceivedKept
  <2>2. CASE Shm!Create \/ Shm!Clear \/ Shm!Verify \/ Shm!Unlink
    <3>1. pc'["receiver"] \in {"clear", "w_open", "unlink", "create", "done", "aborted"}
      BY <1>2, <2>2 DEF Shm!Create, Shm!Clear, Shm!Verify, Shm!Unlink
    <3>2. QED
      BY <1>1, <3>1, ReceivedKept DEF Loop
  <2>3. QED
    BY <1>12, <2>1, <2>2 DEF ShmStep
<1>13. CASE MmapStep
  <2> USE <1>3 DEF Mmap!Goto
  <2>1. CASE Mmap!Truncate \/ Mmap!Resize \/ Mmap!Clear \/ Mmap!Unmap
    <3>1. pc'["receiver"] = pc["receiver"] /\ UNCHANGED <<count, k, received>>
      BY <1>2, <2>1 DEF Mmap!Truncate, Mmap!Resize, Mmap!Clear, Mmap!Unmap
    <3>2. QED
      BY <1>1, <3>1, ReceivedKept
  <2>2. CASE Mmap!Open \/ Mmap!Verify
    <3>1. pc'["receiver"] \in {"w_map", "w_open", "done", "aborted"}
      BY <1>2, <2>2 DEF Mmap!Open, Mmap!Verify
    <3>2. QED
      BY <1>1, <3>1, ReceivedKept DEF Loop
  <2>3. QED
    BY <1>13, <2>1, <2>2 DEF MmapStep
<1>14. QED
  BY <1>4, <1>5, <1>6, <1>7, <1>8, <1>10, <1>11, <1>12, <1>13 DEF Step, Receives
-----------------------------------------------------------------------------
\* The initial states: both processes are in front of their first wait.
LEMMA InitIInv ==
    ASSUME Init PROVE IInv
<1>1. PipelineInit
  BY DEF Init, Shm!Init, Mmap!Init, PipelineInit, Shm!PipelineInit, Mmap!PipelineInit,
         Shm!ZeroSizes, Mmap!ZeroSizes, ZeroSizes, Shm!ZeroBytes, Mmap!ZeroBytes, ZeroBytes,
         Shm!Nothing, Mmap!Nothing, Nothing, Shm!Slots, Mmap!Slots, Slots,
         Shm!Memories, Mmap!Memories, Memories, Shm!Procs, Mmap!Procs, Procs
<1>2. \/ /\ type = "shm" /\ file_size = "none" /\ shm_name = 0 /\ n_created = 0
         /\ pc = [p \in Procs |-> IF p = "sender" THEN "w_open" ELSE "create"]
      \/ /\ type = "mmap" /\ file_size = "none"
         /\ pc = [p \in Procs |-> "w_start"]
  BY DEF Init, Shm!Init, Mmap!Init, Shm!Procs, Mmap!Procs, Procs
<1>3. type \in {"shm", "mmap"}
  BY <1>2
<1>4. PipelineTypeOK
  <2>1. ScalarTypes
    BY <1>1, Constants DEF PipelineInit, ScalarTypes
  <2>2. Sizes /\ Contents /\ ReceivedType
    BY <1>1, ZeroTypes DEF PipelineInit, Sizes, Contents, ReceivedType
  <2>3. QED
    BY <2>1, <2>2, TypeSplit
<1>5. \A p \in Procs : /\ arrived[p] = 0 /\ passed[p] = 0 /\ iter[p] = 0 /\ map[p] = 0
                       /\ Peer(p) \in Procs /\ p \in {"sender", "receiver"}
  BY <1>1, Peers DEF PipelineInit, Procs
<1>6. /\ pc \in [Procs -> {"w_open", "create", "w_start"}]
      /\ \A p \in Procs : pc[p] = IF type = "mmap" THEN "w_start"
                                  ELSE IF p = "sender" THEN "w_open" ELSE "create"
  BY <1>2
<1>7. LoopInv
  <2>1. pc \in [Procs -> Labels]
    BY <1>6 DEF Labels
  <2>2. ASSUME NEW p \in Procs PROVE LoopAt(p)
    <3>1. pc[p] \in Lines(p)
      BY <1>3, <1>5, <1>6 DEF Lines
    <3>2. pc[p] \notin Loop \cup {"done"}
      BY <1>6 DEF Loop
    <3>3. QED
      BY <1>5, <3>1, <3>2, Constants DEF LoopAt, Loop
  <2>3. QED
    BY <2>1, <2>2 DEF LoopInv
<1>8. SyncInv
  <2>1. ASSUME NEW p \in Procs
        PROVE  It(p) = 0 /\ Stage(p) = IF type = "mmap" THEN 0 ELSE 1
    BY <1>3, <1>5, <1>6 DEF It, Stage, Opening
  <2>2. QED
    BY <1>5, <2>1 DEF SyncInv
<1>9. MapInv
  <2>1. ASSUME NEW p \in Procs PROVE pc[p] \notin Mapped(p)
    BY <1>3, <1>5, <1>6 DEF Mapped
  <2>2. QED
    BY <1>2, <1>5, <2>1, Constants DEF MapInv
<1>10. ContentInv /\ ReceivedInv
  BY <1>3, <1>6, Constants DEF ContentInv, ReceivedInv, Loop
<1>11. QED
  BY <1>3, <1>4, <1>7, <1>8, <1>9, <1>10 DEF IInv

LEMMA NextIInv ==
    ASSUME IInv, [Next]_vars PROVE IInv'
<1>1. CASE Step
  <2>1. type' = type
    BY <1>1, TypeKept
  <2>2. QED
    BY <1>1, <2>1, TypeStep, LoopStep, SyncStep, MapStep, ContentStep, ReceivedStep DEF IInv
<1>2. CASE UNCHANGED vars
  <2>1. /\ UNCHANGED <<arrived, passed, pc, iter, i, count, len, k, map, size, bytes, received>>
        /\ UNCHANGED <<type, shm_name, n_created, file_size>>
    BY <1>2 DEF vars, barrier, pipeline, shm_only
  <2>2. PipelineTypeOK'
    BY <2>1 DEF IInv, PipelineTypeOK
  <2>3. LoopInv' /\ SyncInv'
    BY <2>1 DEF IInv, LoopInv, LoopAt, Lines, SyncInv, It, Stage, Opening, Follows
  <2>4. MapInv'
    BY <2>1 DEF IInv, MapInv, Mapped, Object
  <2>5. ContentInv' /\ ReceivedInv'
    BY <2>1 DEF IInv, ContentInv, ReceivedInv, Holds
  <2>6. QED
    BY <2>1, <2>2, <2>3, <2>4, <2>5 DEF IInv
<1>3. QED
  BY <1>1, <1>2, StepForms

(***************************************************************************)
(* The two processes make the same waits, at most one wait apart, the      *)
(* mappings and the slots are those of the waits behind them, and what is  *)
(* counted as received is the data: in every reachable state.              *)
(***************************************************************************)
THEOREM Invariance == Spec => []IInv
<1>1. Init => IInv
  BY InitIInv
<1>2. IInv /\ [Next]_vars => IInv'
  BY NextIInv
<1>3. QED
  BY <1>1, <1>2, PTL DEF Spec

\* What the invariant says, one lemma for each property.
LEMMA TypesFollow ==
    ASSUME IInv PROVE TypeOK
<1> USE DEF IInv
<1>1. PipelineTypeOK /\ Shm!PipelineTypeOK /\ Mmap!PipelineTypeOK
  BY DEF PipelineTypeOK, Shm!PipelineTypeOK, Mmap!PipelineTypeOK, Shm!Procs, Mmap!Procs, Procs,
         Shm!Slots, Mmap!Slots, Slots, Shm!Memories, Mmap!Memories, Memories,
         Shm!NPipeline, Mmap!NPipeline, NPipeline
<1>2. pc \in [Procs -> Labels] /\ \A p \in Procs : pc[p] \in Lines(p)
  BY DEF LoopInv, LoopAt
<1>3. CASE type = "shm"
  <2>1. \A p \in Procs : pc[p] \notin {"w_start", "resize"}
    BY <1>2, <1>3 DEF Lines, Loop
  <2>2. Shm!TypeOK!2
    BY <1>2, <2>1 DEF Labels, Shm!Procs, Procs
  <2>3. shm_name \in {0} \cup Memories
    BY <1>3, Constants DEF MapInv, PipelineTypeOK
  <2>4. n_created \in 0 .. Iterations
    <3>1. iter["receiver"] \in 0 .. Iterations
      BY Constants DEF PipelineTypeOK
    <3>2. map["receiver"] # 0 => iter["receiver"] < Iterations
      BY Constants DEF LoopInv, LoopAt, MapInv, Mapped
    <3>3. QED
      BY <1>3, <3>1, <3>2, Constants DEF MapInv
  <2>5. QED
    BY <1>1, <1>3, <2>2, <2>3, <2>4 DEF TypeOK, Shm!TypeOK, Shm!Memories, Memories
<1>4. CASE type = "mmap"
  <2>1. \A p \in Procs : pc[p] \notin {"create", "unlink"}
    BY <1>2, <1>4 DEF Lines, Loop, Procs
  <2>2. Mmap!TypeOK!2
    BY <1>2, <2>1 DEF Labels, Mmap!Procs, Procs
  <2>3. QED
    BY <1>1, <1>4, <2>2 DEF TypeOK, Mmap!TypeOK, MapInv
<1>5. QED
  BY <1>3, <1>4

LEMMA ExclusionFollows ==
    ASSUME IInv PROVE SlotExclusion
<1>1. SUFFICES ASSUME InStep("sender"), InStep("receiver")
               PROVE  map["sender"] = map["receiver"] /\ Slot("sender") # Slot("receiver")
  BY DEF SlotExclusion
<1>2. map["receiver"] = map["sender"] /\ i["sender"] = i["receiver"]
  BY <1>1, ReceiverHolds DEF InStep
<1>3. i["receiver"] \in Nat
  BY Places, Constants DEF IInv
<1>4. QED
  BY <1>2, <1>3, Parity DEF Slot

LEMMA PrefixFollows ==
    ASSUME IInv PROVE ReceivedIsPrefix
<1>1. count["receiver"] \in 0 .. DataSize
  BY Constants DEF IInv, PipelineTypeOK
<1>2. \A b \in 1 .. count["receiver"] : DataToSend[b] = b
  BY <1>1, Constants DEF DataToSend
<1>3. QED
  BY <1>2 DEF IInv, ReceivedInv, ReceivedIsPrefix, Loop

LEMMA BoundsFollow ==
    ASSUME IInv PROVE NoOverrun
<1>1. ASSUME NEW p \in Procs, pc[p] = "copy"
      PROVE  len[p] <= BufferSize /\ count[p] + len[p] <= DataSize
  BY <1>1, CopyFits, Constants
<1>2. QED
  BY <1>1 DEF NoOverrun

LEMMA MemoryFollows ==
    ASSUME IInv PROVE OwnMemory
<1> USE DEF IInv
<1>1. /\ "sender" \in Procs /\ "receiver" \in Procs
      /\ Peer("sender") = "receiver" /\ Peer("receiver") = "sender"
      /\ \A p \in Procs : p \in {"sender", "receiver"}
  BY DEF Procs, Peer
<1>2. /\ iter["sender"] \in Nat /\ iter["receiver"] \in Nat
      /\ i["sender"] \in Nat /\ i["receiver"] \in Nat
      /\ passed["sender"] \in Nat /\ passed["receiver"] \in Nat
      /\ Stage("sender") \in Nat /\ Stage("receiver") \in Nat
  BY <1>1, Places
<1>3. ASSUME type = "shm", map["sender"] # 0, map["receiver"] # 0
      PROVE  map["sender"] = map["receiver"] \/ iter["sender"] < iter["receiver"]
  <2>1. /\ pc["sender"] \in Mapped("sender") /\ map["sender"] = iter["sender"] + 1
        /\ pc["receiver"] \in Mapped("receiver") /\ map["receiver"] = iter["receiver"] + 1
    BY <1>1, <1>3 DEF MapInv, Object
  <2>2. /\ pc["sender"] \in {"w_map", "w_slot", "start", "copy", "w_end", "unmap"}
        /\ pc["receiver"] \notin {"w_start", "done"}
    BY <1>1, <1>3, <2>1 DEF Mapped, LoopInv, LoopAt, Lines, Loop
  <2>3. SUFFICES iter["sender"] <= iter["receiver"]
    BY <1>2, <2>1
  <2>4. Stage("sender") = 1 => pc["sender"] = "unmap"
    BY <1>2, <1>3, <2>2 DEF Stage, Opening
  <2>5. /\ Stage("receiver") # 0 /\ Stage("sender") # 0
        /\ It("receiver") # iter["receiver"] =>
               It("receiver") = iter["receiver"] + 1 /\ Stage("receiver") = 1
        /\ It("sender") = IF pc["sender"] = "unmap" THEN iter["sender"] + 1 ELSE iter["sender"]
    BY <1>2, <1>3, <2>2 DEF It, Stage, Opening
  <2>6. CASE passed["sender"] = passed["receiver"]
    <3>1. It("sender") = It("receiver") /\ Stage("sender") = Stage("receiver")
      BY <1>1, <2>6 DEF SyncInv
    <3>2. QED
      BY <1>2, <2>4, <2>5, <3>1
  <2>7. CASE passed["sender"] = passed["receiver"] + 1
    <3>1. Follows("sender", "receiver")
      BY <1>1, <2>7 DEF SyncInv
    <3>2. QED
      BY <1>2, <2>4, <2>5, <3>1 DEF Follows
  <2>8. CASE passed["receiver"] = passed["sender"] + 1
    <3>1. Follows("receiver", "sender")
      BY <1>1, <2>8 DEF SyncInv
    <3>2. QED
      BY <1>2, <2>5, <3>1 DEF Follows
  <2>9. QED
    <3>1. passed["sender"] <= passed["receiver"] + 1 /\ passed["receiver"] <= passed["sender"] + 1
      BY <1>1 DEF SyncInv
    <3>2. QED
      BY <1>2, <2>6, <2>7, <2>8, <3>1
<1>4. ASSUME type = "mmap", NEW p \in Procs, InStep(p) \/ pc[p] = "clear"
      PROVE  file_size = "full"
  <2>1. CASE p = "sender"
    <3>1. pc["sender"] \in Mapped("sender")
      BY <1>4, <2>1 DEF InStep, Mapped
    <3>2. QED
      BY <1>1, <1>4, <3>1, MappedMemory DEF MapInv
  <2>2. CASE p = "receiver"
    <3>1. InStep("receiver")
      BY <1>1, <1>4, <2>2 DEF LoopInv, LoopAt, Lines, Loop
    <3>2. map["sender"] # 0
      BY <1>4, <3>1, ReceiverHolds DEF Object
    <3>3. QED
      BY <1>4, <3>2 DEF MapInv
  <2>3. QED
    BY <1>1, <2>1, <2>2
<1>5. QED
  BY <1>3, <1>4 DEF OwnMemory, Shm!FreshMapping, Mmap!NoTruncatedAccess, Mmap!InStep, InStep,
                    Mmap!Procs, Procs

(***************************************************************************)
(* Every variable keeps its type, and every loop variable its bound.       *)
(***************************************************************************)
THEOREM TypeCorrect == Spec => []TypeOK
<1>1. IInv => TypeOK
  BY TypesFollow
<1>2. QED
  BY <1>1, Invariance, PTL

(***************************************************************************)
(* No process calls abort(): the sender of shm never finds the name gone,  *)
(* the receiver of mmap never finds the file missing or empty, and no      *)
(* verification fails.  (That nobody touches a page that was truncated is  *)
(* MemoryIsOwn.)                                                           *)
(***************************************************************************)
THEOREM NobodyAborts == Spec => [](\A p \in Procs : pc[p] # "aborted")
<1>1. IInv => \A p \in Procs : pc[p] # "aborted"
  BY DEF IInv, LoopInv, Labels
<1>2. QED
  BY <1>1, Invariance, PTL

(***************************************************************************)
(* While both processes copy (shm_bandwidth.cc:89 and 177,                 *)
(* mmap_bandwidth.cc:90 and 176), they do it in one memory and in different*)
(* slots.                                                                  *)
(***************************************************************************)
THEOREM SlotsAreExclusive == Spec => []SlotExclusion
<1>1. IInv => SlotExclusion
  BY ExclusionFollows
<1>2. QED
  BY <1>1, Invariance, PTL

(***************************************************************************)
(* What the receiver has counted is the data in order, and what it verifies*)
(* is all of it, for every data_size and buffer_size.                      *)
(***************************************************************************)
THEOREM ReceivedInOrder == Spec => []ReceivedIsPrefix
<1>1. IInv => ReceivedIsPrefix
  BY PrefixFollows
<1>2. QED
  BY <1>1, Invariance, PTL

(***************************************************************************)
(* No memcpy passes the end of its slot, of data_to_send or of             *)
(* received_data.                                                          *)
(***************************************************************************)
THEOREM NoMemcpyOverruns == Spec => []NoOverrun
<1>1. IInv => NoOverrun
  BY BoundsFollow
<1>2. QED
  BY <1>1, Invariance, PTL

(***************************************************************************)
(* No iteration uses the memory of the one before, nor a truncated file.   *)
(***************************************************************************)
THEOREM MemoryIsOwn == Spec => []OwnMemory
<1>1. IInv => OwnMemory
  BY MemoryFollows
<1>2. QED
  BY <1>1, Invariance, PTL

\* Of two that wait in the barrier one is counted last and goes on; and who waits
\* is counted as often as the other, which has therefore not ended.
LEMMA DeadlockFollows ==
    ASSUME IInv, \A p \in Procs : Blocked(p)
    PROVE  AllDone
<1> USE DEF IInv
<1>1. \A p \in Procs : pc[p] = "done" \/ Barrier!Waiting(p)
  BY DEF Blocked, LoopInv, Labels
<1>2. SUFFICES ASSUME NEW p \in Procs, Barrier!Waiting(p)
               PROVE  FALSE
  BY <1>1 DEF AllDone
<1> DEFINE q == Peer(p)
<1>3. q \in Procs /\ q # p /\ Peer(q) = p /\ \A r \in Procs : r = p \/ r = q
  BY Peers
<1>4. /\ arrived[p] \in Nat /\ passed[p] \in Nat /\ iter[p] \in Nat
      /\ arrived[q] \in Nat /\ passed[q] \in Nat
  BY <1>3, Places
<1>5. passed[p] < arrived[p] /\ arrived[q] < arrived[p]
  BY <1>2, <1>3, <1>4 DEF Barrier!Waiting
<1>6. pc[p] \in Waits
  BY <1>4, <1>5 DEF SyncInv
<1>7. pc[q] = "done"
  <2>1. ~Barrier!Waiting(q)
    BY <1>3, <1>4, <1>5 DEF Barrier!Waiting
  <2> QED
    BY <1>1, <1>3, <2>1
<1>8. arrived[q] = passed[q]
  BY <1>3, <1>7 DEF SyncInv, Waits
<1>9. arrived[p] = passed[p] + 1
  BY <1>4, <1>5 DEF SyncInv
<1>10. passed[p] = passed[q]
  BY <1>3, <1>4, <1>5, <1>8, <1>9 DEF SyncInv
<1>11. It(p) = It(q)
  BY <1>10 DEF SyncInv
<1>12. It(p) = iter[p] /\ It(q) = iter[q]
  BY <1>6, <1>7 DEF It, Waits
<1>13. iter[p] < Iterations /\ iter[q] = Iterations
  BY <1>3, <1>6, <1>7 DEF LoopInv, LoopAt, Waits
<1> QED
  <2>1. iter[p] = iter[q]
    BY <1>11, <1>12
  <2>2. iter[p] < iter[q]
    BY <1>13
  <2> QED
    BY <1>4, <2>1, <2>2

(***************************************************************************)
(* Neither process is left waiting: both make the same number of waits in  *)
(* every iteration, for every number of chunks.                            *)
(***************************************************************************)
THEOREM NobodyWaitsInVain == Spec => []NoDeadlock
<1>1. IInv => NoDeadlock
  BY DeadlockFollows DEF NoDeadlock
<1> QED
  BY <1>1, Invariance, PTL
=============================================================================
