------------------------- MODULE StreamBandwidthProofs -------------------------
(***************************************************************************)
(* Proofs about the five benchmarks that send a stream, for every size of  *)
(* data, buffer and kernel buffer and every number of iterations.  The     *)
(* barrier's counters tell at which line the other process can be, and     *)
(* from the two lines follows which bytes of which iteration the kernel    *)
(* holds: that no read meets the next iteration's bytes, the end of file or*)
(* another iteration's connection rests on the two together.               *)
(***************************************************************************)
EXTENDS StreamBandwidth, SequenceTheorems, FiniteSetTheorems, TLAPS

\* The values of the TYPE argument that send a stream.
StreamTypes == {"pipe", "fifo", "tcp", "uds", "mq"}

Waits  == {"w_ready", "w_begin", "w_end"}
During == {"send", "receive"}

\* The lines of all benchmarks: all but "aborted".
Labels == Waits \cup During \cup
          {"open", "opening", "bind", "listen", "accept", "connect", "sent", "shutdown", "verify",
           "close", "close_listener", "done"}

\* The lines of p in benchmark t.
Lines(t, p) ==
    IF t = "pipe"
    THEN {"w_begin", "close", "done"} \cup
         (IF p = "sender" THEN {"send", "sent"} ELSE {"receive", "verify"})
    ELSE IF t = "fifo"
    THEN {"open", "opening", "w_begin", "close", "done"} \cup
         (IF p = "sender" THEN {"send"} ELSE {"receive", "verify"})
    ELSE IF t = "mq"
    THEN {"w_begin", "done"} \cup
         (IF p = "sender" THEN {"send", "close"} ELSE {"receive", "verify"})
    ELSE IF t = "tcp"
    THEN {"w_ready", "w_begin", "w_end", "close", "done"} \cup
         (IF p = "sender" THEN {"connect", "send", "shutdown"}
                          ELSE {"listen", "accept", "receive", "verify"})
    ELSE {"w_begin", "w_end", "close", "done"} \cup
         (IF p = "sender"
          THEN {"connect", "send"}
          ELSE {"bind", "listen", "accept", "receive", "close_listener", "verify"})

\* Where the iterations are over; and, in one, where its transfer is over.
Ended(t) == IF t = "pipe" THEN {"close", "done"} ELSE {"done"}
After(t) == {"sent", "shutdown", "w_end", "close_listener", "verify"} \cup
            (IF t = "pipe" THEN {} ELSE {"close"})

\* The waits of one iteration, and those behind line l of it.
Rounds(t) == IF t = "tcp" THEN 3 ELSE IF t = "uds" THEN 2 ELSE 1

Stage(t, l) ==
    IF t = "tcp"
    THEN IF l \in {"verify", "close"} THEN 3
         ELSE IF l \in During \cup After(t) THEN 2
         ELSE IF l \in {"connect", "accept", "w_begin"} THEN 1 ELSE 0
    ELSE IF t = "uds" /\ l \in {"close", "close_listener", "verify"} THEN 2
    ELSE IF l \in During \cup After(t) THEN 1 ELSE 0

\* Returns from waits at line l of iteration n + 1.
Returns(t, n, l) ==
    IF t = "tcp" THEN 3 * n + Stage(t, l)
    ELSE IF t = "uds" THEN 2 * n + Stage(t, l) ELSE n + Stage(t, l)

\* Bytes of this iteration that are transferred at line l, m being counted.
Position(t, l, m) == IF l \in During THEN m ELSE IF l \in After(t) THEN DataSize ELSE 0

\* Channel c holds the bytes a + 1 .. b of iteration n: one by one, or cut into
\* messages.
HoldsBytes(c, n, a, b) ==
    /\ Len(c) = b - a
    /\ \A k \in 1 .. Len(c) : c[k] = Byte(n, a + k)

Cuts(c, n, a, b, cut) ==
    /\ cut[0] = a /\ cut[Len(c)] = b
    /\ \A j, k \in 0 .. Len(c) : j < k => cut[j] < cut[k]
    /\ \A k \in 1 .. Len(c) : c[k] = SubSeq(Data(n), cut[k - 1] + 1, cut[k])

HoldsMessages(c, n, a, b) ==
    \E cut \in [0 .. Len(c) -> 0 .. DataSize] : Cuts(c, n, a, b, cut)

Holds(t, c, n, a, b) ==
    IF t = "mq" THEN HoldsMessages(c, n, a, b) ELSE HoldsBytes(c, n, a, b)

\* What a channel is a sequence of.
Streams(t) == IF t = "mq" THEN Seq(Seq(Bytes)) ELSE Seq(Bytes)

\* The sender has finished s iterations and sent ps bytes of the next one, the
\* receiver has finished r and got pr: channel c holds what is between them.
InFlight(t, c, s, r, ps, pr) ==
    \/ s = r /\ pr <= ps /\ Holds(t, c, s + 1, pr, ps)
    \/ s = r + 1 /\ ps = 0 /\ Holds(t, c, s, pr, DataSize)
    \/ r = s + 1 /\ ps = DataSize /\ pr = 0 /\ c = <<>>
-----------------------------------------------------------------------------
StreamTypeOK ==
    /\ type \in StreamTypes
    /\ pc \in [Procs -> Labels]
    /\ iter \in [Procs -> 0 .. Iterations]
    /\ total \in [Procs -> 0 .. DataSize]
    /\ channel \in Streams(type)
    /\ Len(channel) <= Capacity
    /\ received \in Seq(Bytes)

\* Each process is at a line of its own, leaves the loop with the last iteration,
\* and transfers only while bytes are missing.
LoopInv ==
    \A p \in Procs :
        /\ pc[p] \in Lines(type, p)
        /\ pc[p] \in Ended(type) <=> iter[p] = Iterations
        /\ pc[p] \in During => total[p] < DataSize

\* A process has returned from the waits before its line, and from no wait that
\* the other is not counted in.
SyncInv ==
    /\ arrived \in [Procs -> Nat]
    /\ passed \in [Procs -> Nat]
    /\ \A p \in Procs :
          /\ passed[p] = Returns(type, iter[p], pc[p])
          /\ arrived[p] \in {passed[p], passed[p] + 1}
          /\ arrived[p] # passed[p] => pc[p] \in Waits
          /\ \A q \in Procs : passed[p] <= arrived[q]

At(p) == Position(type, pc[p], total[p])

StreamInv ==
    InFlight(type, channel, iter["sender"], iter["receiver"], At("sender"), At("receiver"))

\* received begins with the bytes counted of this iteration, and is no longer.
\* (The vector of tcp and uds is as long as the data from the beginning.)
ReceivedInv ==
    /\ type \in {"tcp", "uds"} => Len(received) = DataSize
    /\ pc["receiver"] \in {"receive"} \cup After(type) =>
          /\ type \notin {"tcp", "uds"} => Len(received) = At("receiver")
          /\ \A b \in 1 .. At("receiver") : received[b] = Byte(iter["receiver"] + 1, b)
          /\ total["receiver"] = At("receiver")

\* Whose ends of the pipe and of the FIFO are open.
EndsInv ==
    /\ type = "pipe" => /\ reading = (pc["receiver"] # "done")
                        /\ writing = (pc["sender"] # "done")
    /\ type = "fifo" => /\ reading = (pc["receiver"] \notin {"open", "done"})
                        /\ writing = (pc["sender"] \notin {"open", "done"})

\* The sockets of tcp_bandwidth.cc belong to the iteration of their process.
TcpInv ==
    LET s == pc["sender"]
        r == pc["receiver"]
    IN  /\ listener = IF r \in {"listen", "done"}
                      THEN 0 ELSE iter["receiver"] + 1
        /\ connected = IF s \in {"w_ready", "connect", "done"} THEN 0 ELSE iter["sender"] + 1
        /\ accepted = IF r \in {"w_begin", "receive", "w_end", "verify"}
                      THEN iter["receiver"] + 1 ELSE 0
        /\ pending = (s = "w_begin" /\ r \in {"w_ready", "accept"})
        /\ shut \in BOOLEAN
        /\ r \in {"w_begin", "receive"} => connected = iter["receiver"] + 1
        /\ s \in {"w_begin", "send", "shutdown"} => ~shut

\* Those of uds_bandwidth.cc: until it has returned from the wait before the
\* transfer, the sender may be connected to the listener before, or else to the
\* current one, where its connection waits for accept() or is accepted.
UdsInv ==
    LET s == pc["sender"]
        r == pc["receiver"]
    IN  /\ path = IF r \in {"bind", "done"} THEN 0 ELSE iter["receiver"] + 1
        /\ listening = IF r \in {"bind", "listen", "verify", "done"}
                       THEN 0 ELSE iter["receiver"] + 1
        /\ accepted = IF r \in {"w_begin", "receive", "w_end", "close"}
                      THEN iter["receiver"] + 1 ELSE 0
        /\ connected \in 0 .. Iterations
        /\ connected = 0 <=> s \in {"connect", "done"}
        /\ pending \in BOOLEAN
        /\ r \in {"w_begin", "receive"} =>
              connected = iter["receiver"] + 1 /\ iter["sender"] = iter["receiver"]
        /\ s \in {"send", "w_end", "close"} => connected = iter["sender"] + 1
        /\ s = "w_begin" =>
              \/ connected = iter["sender"]
              \/ /\ connected = iter["sender"] + 1 /\ iter["sender"] = iter["receiver"]
                 /\ \/ r = "accept" /\ pending
                    \/ r \in {"w_begin", "receive", "w_end"}
        /\ pending =>
              /\ connected = iter["receiver"] + 1
              /\ s = "w_begin"
              /\ \/ iter["sender"] = iter["receiver"] /\ r = "accept"
                 \/ /\ iter["sender"] = iter["receiver"] + 1
                    /\ r \in {"w_end", "close", "close_listener"}

\* What a step that is no wait can change, and the rest.
TransferInv == StreamTypeOK /\ LoopInv /\ StreamInv /\ ReceivedInv

(***************************************************************************)
(* The inductive invariant.                                                *)
(***************************************************************************)
IInv == /\ SyncInv
        /\ TransferInv
        /\ EndsInv
        /\ type = "tcp" => TcpInv
        /\ type = "uds" => UdsInv
-----------------------------------------------------------------------------
\* A chunk of the data is as long as it says and has the data's bytes.
LEMMA Chunk ==
    ASSUME NEW n \in Tags, NEW a \in 0 .. DataSize, NEW b \in a .. DataSize
    PROVE  /\ SubSeq(Data(n), a + 1, b) \in Seq(Bytes)
           /\ Len(SubSeq(Data(n), a + 1, b)) = b - a
           /\ \A k \in 1 .. b - a : SubSeq(Data(n), a + 1, b)[k] = Byte(n, a + k)
<1>1. \A k \in 1 .. DataSize : Data(n)[k] = Byte(n, k) /\ Byte(n, k) \in Bytes
  BY StreamAssumption DEF Data, Byte, Bytes
<1>2. a + 1 \in Int /\ b \in Int /\ a + 1 .. b \subseteq 1 .. DataSize
  BY StreamAssumption
<1>3. \A k \in a + 1 .. b : Data(n)[k] \in Bytes
  BY <1>1, <1>2
<1>4. /\ SubSeq(Data(n), a + 1, b) \in Seq(Bytes)
      /\ Len(SubSeq(Data(n), a + 1, b)) = IF a + 1 <= b THEN b - (a + 1) + 1 ELSE 0
      /\ \A k \in 1 .. b - (a + 1) + 1 : SubSeq(Data(n), a + 1, b)[k] = Data(n)[a + 1 + k - 1]
  BY <1>2, <1>3, SubSeqProperties
<1>5. \A k \in 1 .. b - a : a + 1 + k - 1 = a + k /\ a + k \in 1 .. DataSize
  BY StreamAssumption
<1> QED
  BY <1>1, <1>4, <1>5

\* The whole chunk is the data.
LEMMA Whole == ASSUME NEW n \in Tags
               PROVE  Data(n) \in Seq(Bytes) /\ Len(Data(n)) = DataSize
<1>1. \A k \in 1 .. DataSize : Byte(n, k) \in Bytes
  BY StreamAssumption DEF Byte, Bytes
<1>2. Data(n) \in [1 .. DataSize -> Bytes] /\ DataSize \in Nat
  BY <1>1, StreamAssumption DEF Data
<1>3. Data(n) \in Seq(Bytes)
  BY <1>2, <1>1 DEF Data
<1> QED
  BY <1>2, <1>3, LenProperties

\* A vector of zeros.
LEMMA ZerosSeq == Zeros \in Seq(Bytes) /\ Len(Zeros) = DataSize
<1>1. Byte(0, 0) \in Bytes /\ DataSize \in Nat
  BY StreamAssumption DEF Byte, Bytes, Tags
<1>2. Zeros \in [1 .. DataSize -> Bytes]
  BY <1>1 DEF Zeros
<1>3. Zeros \in Seq(Bytes)
  BY <1>1, <1>2 DEF Zeros
<1> QED
  BY <1>1, <1>2, <1>3, LenProperties

\* write(): the channel holds n bytes more.
LEMMA BytesSent ==
    ASSUME NEW n \in Tags, NEW c \in Seq(Bytes),
           NEW a \in 0 .. DataSize, NEW b \in 0 .. DataSize, NEW e \in b .. DataSize,
           a <= b, HoldsBytes(c, n, a, b)
    PROVE  LET d == SubSeq(Data(n), b + 1, e)
           IN  /\ c \o d \in Seq(Bytes)
               /\ Len(c \o d) = Len(c) + (e - b)
               /\ HoldsBytes(c \o d, n, a, e)
<1> DEFINE d == SubSeq(Data(n), b + 1, e)
<1>1. d \in Seq(Bytes) /\ Len(d) = e - b /\ \A k \in 1 .. e - b : d[k] = Byte(n, b + k)
  BY Chunk
<1>2. Len(c) = b - a /\ \A k \in 1 .. Len(c) : c[k] = Byte(n, a + k)
  BY DEF HoldsBytes
<1> HIDE DEF d
<1>3. /\ c \o d \in Seq(Bytes)
      /\ Len(c \o d) = Len(c) + Len(d)
      /\ \A i \in 1 .. Len(c) + Len(d) :
            (c \o d)[i] = IF i <= Len(c) THEN c[i] ELSE d[i - Len(c)]
  BY <1>1, ConcatProperties
<1>4. Len(c \o d) = e - a
  BY <1>1, <1>2, <1>3
<1>5. ASSUME NEW i \in 1 .. e - a
      PROVE  (c \o d)[i] = Byte(n, a + i)
  <2>1. CASE i <= b - a
    BY <2>1, <1>1, <1>2, <1>3
  <2>2. CASE ~(i <= b - a)
    <3>1. i - Len(c) \in 1 .. e - b /\ b + (i - Len(c)) = a + i
      BY <2>2, <1>2
    <3>2. d[i - Len(c)] = Byte(n, b + (i - Len(c)))
      BY <3>1, <1>1
    <3>3. (c \o d)[i] = d[i - Len(c)]
      BY <2>2, <1>1, <1>2, <1>3
    <3> QED
      BY <3>1, <3>2, <3>3
  <2> QED
    BY <2>1, <2>2
<1> QED
  BY <1>1, <1>3, <1>4, <1>5 DEF HoldsBytes, d

\* read(): the first m bytes are the next ones, and the channel holds the others.
LEMMA BytesReceived ==
    ASSUME NEW n \in Tags, NEW c \in Seq(Bytes),
           NEW a \in 0 .. DataSize, NEW b \in 0 .. DataSize, HoldsBytes(c, n, a, b),
           NEW m \in 0 .. Len(c)
    PROVE  /\ SubSeq(c, m + 1, Len(c)) \in Seq(Bytes)
           /\ Len(SubSeq(c, m + 1, Len(c))) = Len(c) - m
           /\ HoldsBytes(SubSeq(c, m + 1, Len(c)), n, a + m, b)
           /\ SubSeq(c, 1, m) \in Seq(Bytes)
           /\ Len(SubSeq(c, 1, m)) = m
           /\ \A k \in 1 .. m : SubSeq(c, 1, m)[k] = Byte(n, a + k)
<1>1. Len(c) \in Nat /\ Len(c) = b - a /\ \A k \in 1 .. Len(c) : c[k] = Byte(n, a + k)
  BY LenProperties DEF HoldsBytes
<1>2. \A k \in 1 .. Len(c) : c[k] \in Bytes
  BY ElementOfSeq
<1>3. \A k \in m + 1 .. Len(c) : c[k] \in Bytes
  BY <1>1, <1>2
<1>4. \A k \in 1 .. m : c[k] \in Bytes
  BY <1>1, <1>2
<1>5. m + 1 \in Int /\ Len(c) \in Int /\ m \in Int /\ 1 \in Int
  BY <1>1
<1>6. /\ SubSeq(c, m + 1, Len(c)) \in Seq(Bytes)
      /\ Len(SubSeq(c, m + 1, Len(c))) =
            IF m + 1 <= Len(c) THEN Len(c) - (m + 1) + 1 ELSE 0
      /\ \A k \in 1 .. Len(c) - (m + 1) + 1 : SubSeq(c, m + 1, Len(c))[k] = c[m + 1 + k - 1]
  BY <1>3, <1>5, SubSeqProperties
<1>7. /\ SubSeq(c, 1, m) \in Seq(Bytes)
      /\ Len(SubSeq(c, 1, m)) = IF 1 <= m THEN m - 1 + 1 ELSE 0
      /\ \A k \in 1 .. m - 1 + 1 : SubSeq(c, 1, m)[k] = c[1 + k - 1]
  BY <1>4, <1>5, SubSeqProperties
<1>8. Len(SubSeq(c, m + 1, Len(c))) = Len(c) - m /\ Len(SubSeq(c, 1, m)) = m
  BY <1>1, <1>6, <1>7
<1>9. ASSUME NEW k \in 1 .. Len(c) - m
      PROVE  SubSeq(c, m + 1, Len(c))[k] = Byte(n, a + m + k)
  <2>1. m + k \in 1 .. Len(c) /\ m + 1 + k - 1 = m + k /\ a + (m + k) = a + m + k
    BY <1>1
  <2>2. k \in 1 .. Len(c) - (m + 1) + 1
    BY <1>1
  <2> QED
    BY <2>1, <2>2, <1>1, <1>6
<1>10. ASSUME NEW k \in 1 .. m
       PROVE  SubSeq(c, 1, m)[k] = Byte(n, a + k)
  <2>1. k \in 1 .. Len(c) /\ 1 + k - 1 = k /\ k \in 1 .. m - 1 + 1
    BY <1>1
  <2> QED
    BY <2>1, <1>1, <1>7
<1>11. HoldsBytes(SubSeq(c, m + 1, Len(c)), n, a + m, b)
  BY <1>1, <1>8, <1>9 DEF HoldsBytes
<1> QED
  BY <1>6, <1>7, <1>8, <1>10, <1>11

\* mq_send: the queue holds one message more.
LEMMA MessageSent ==
    ASSUME NEW n \in Tags, NEW c \in Seq(Seq(Bytes)),
           NEW a \in 0 .. DataSize, NEW b \in 0 .. DataSize, NEW e \in b + 1 .. DataSize,
           HoldsMessages(c, n, a, b)
    PROVE  LET d == SubSeq(Data(n), b + 1, e)
           IN  /\ Append(c, d) \in Seq(Seq(Bytes))
               /\ Len(Append(c, d)) = Len(c) + 1
               /\ HoldsMessages(Append(c, d), n, a, e)
<1> DEFINE d   == SubSeq(Data(n), b + 1, e)
           len == Len(c)
           new == Append(c, d)
<1>1. PICK cut \in [0 .. len -> 0 .. DataSize] : Cuts(c, n, a, b, cut)
  BY DEF HoldsMessages
<1>2. /\ cut[0] = a /\ cut[len] = b
      /\ \A j, k \in 0 .. len : j < k => cut[j] < cut[k]
      /\ \A k \in 1 .. len : c[k] = SubSeq(Data(n), cut[k - 1] + 1, cut[k])
  BY <1>1 DEF Cuts
<1>3. d \in Seq(Bytes)
  <2>1. e \in b .. DataSize
    BY StreamAssumption
  <2> QED
    BY <2>1, Chunk
<1>4. len \in Nat
  BY LenProperties
<1>5. /\ new \in Seq(Seq(Bytes))
      /\ Len(new) = len + 1
      /\ \A k \in 1 .. len : new[k] = c[k]
      /\ new[len + 1] = d
  BY <1>3, <1>4, AppendProperties
<1> DEFINE more == [k \in 0 .. len + 1 |-> IF k <= len THEN cut[k] ELSE e]
<1>6. e \in 0 .. DataSize /\ b < e
  BY StreamAssumption
<1>7. more \in [0 .. len + 1 -> 0 .. DataSize]
  BY <1>4, <1>6
<1>8. more[0] = a /\ more[len] = b /\ more[len + 1] = e
  BY <1>2, <1>4
<1>9. ASSUME NEW j \in 0 .. len + 1, NEW k \in 0 .. len + 1, j < k
      PROVE  more[j] < more[k]
  <2>1. CASE k <= len
    <3>1. j \in 0 .. len /\ k \in 0 .. len /\ more[j] = cut[j] /\ more[k] = cut[k]
      BY <2>1, <1>4, <1>9
    <3> QED
      BY <3>1, <1>2, <1>9
  <2>2. CASE ~(k <= len)
    <3>1. j \in 0 .. len /\ more[j] = cut[j] /\ more[k] = e
      BY <2>2, <1>4, <1>9
    <3>2. cut[j] <= b
      <4> cut[j] \in 0 .. DataSize
        BY <3>1, <1>1
      <4>1. CASE j = len
        BY <4>1, <1>2, <1>6
      <4>2. CASE j # len
        <5>1. cut[j] < cut[len]
          BY <4>2, <3>1, <1>2, <1>4
        <5> QED
          BY <5>1, <1>2
      <4> QED
        BY <4>1, <4>2
    <3>3. cut[j] \in 0 .. DataSize
      BY <3>1, <1>1
    <3> QED
      BY <3>1, <3>2, <3>3, <1>6
  <2> QED
    BY <2>1, <2>2
<1>10. ASSUME NEW k \in 1 .. len + 1
       PROVE  new[k] = SubSeq(Data(n), more[k - 1] + 1, more[k])
  <2>1. CASE k <= len
    <3>1. more[k] = cut[k] /\ more[k - 1] = cut[k - 1] /\ k \in 1 .. len
      BY <2>1, <1>4
    <3> QED
      BY <3>1, <1>2, <1>5
  <2>2. CASE ~(k <= len)
    <3>1. k = len + 1 /\ k - 1 = len
      BY <2>2, <1>4
    <3> QED
      BY <3>1, <1>5, <1>8
  <2> QED
    BY <2>1, <2>2
<1> HIDE DEF d, more, new, len
<1>11. more[0] = a /\ more[Len(new)] = e
  BY <1>5, <1>8
<1>12. Cuts(new, n, a, e, more)
  BY <1>5, <1>9, <1>10, <1>11 DEF Cuts
<1>13. HoldsMessages(new, n, a, e)
  BY <1>5, <1>7, <1>12 DEF HoldsMessages
<1> QED
  BY <1>5, <1>13 DEF d, new, len

\* mq_receive: the first message is a piece of the data that begins where the
\* receiver is, and not an empty one.
LEMMA MessageReceived ==
    ASSUME NEW n \in Tags, NEW c \in Seq(Seq(Bytes)), c # <<>>,
           NEW a \in 0 .. DataSize, NEW b \in 0 .. DataSize, HoldsMessages(c, n, a, b)
    PROVE  /\ Head(c) \in Seq(Bytes)
           /\ Len(Head(c)) \in 1 .. b - a
           /\ \A k \in 1 .. Len(Head(c)) : Head(c)[k] = Byte(n, a + k)
           /\ Tail(c) \in Seq(Seq(Bytes))
           /\ Len(Tail(c)) = Len(c) - 1
           /\ HoldsMessages(Tail(c), n, a + Len(Head(c)), b)
<1> DEFINE len == Len(c)
<1>1. PICK cut \in [0 .. len -> 0 .. DataSize] : Cuts(c, n, a, b, cut)
  BY DEF HoldsMessages
<1>2. /\ cut[0] = a /\ cut[len] = b
      /\ \A j, k \in 0 .. len : j < k => cut[j] < cut[k]
      /\ \A k \in 1 .. len : c[k] = SubSeq(Data(n), cut[k - 1] + 1, cut[k])
  BY <1>1 DEF Cuts
<1>3. len \in Nat \ {0}
  BY EmptySeq
<1>4. /\ Tail(c) \in Seq(Seq(Bytes))
      /\ Len(Tail(c)) = len - 1
      /\ \A i \in 1 .. Len(Tail(c)) : Tail(c)[i] = c[i + 1]
  BY HeadTailProperties
<1>5. Head(c) = c[1]
  OBVIOUS
<1>6. a < cut[1] /\ cut[1] <= b /\ cut[1] \in 0 .. DataSize
  <2>1. 0 \in 0 .. len /\ 1 \in 0 .. len /\ len \in 0 .. len
    BY <1>3
  <2>2. cut[0] < cut[1] /\ (1 < len => cut[1] < cut[len]) /\ cut[1] \in 0 .. DataSize
    BY <2>1, <1>2, <1>1
  <2> QED
    BY <2>1, <2>2, <1>2, <1>3
<1>7. Head(c) = SubSeq(Data(n), a + 1, cut[1])
  <2>1. 1 \in 1 .. len /\ 1 - 1 = 0
    BY <1>3
  <2> QED
    BY <2>1, <1>2, <1>5
<1>8. /\ Head(c) \in Seq(Bytes) /\ Len(Head(c)) = cut[1] - a
      /\ \A k \in 1 .. cut[1] - a : Head(c)[k] = Byte(n, a + k)
  <2>1. PICK m \in a .. DataSize : m = cut[1]
    BY <1>6, StreamAssumption
  <2>2. /\ SubSeq(Data(n), a + 1, m) \in Seq(Bytes)
        /\ Len(SubSeq(Data(n), a + 1, m)) = m - a
        /\ \A k \in 1 .. m - a : SubSeq(Data(n), a + 1, m)[k] = Byte(n, a + k)
    BY Chunk
  <2> QED
    BY <2>1, <2>2, <1>7
<1>9. a + Len(Head(c)) = cut[1] /\ Len(Head(c)) \in 1 .. b - a
  <2>1. PICK m \in 0 .. DataSize : m = cut[1]
    BY <1>6
  <2>2. Len(Head(c)) = m - a /\ a < m /\ m <= b
    BY <2>1, <1>6, <1>8
  <2>3. m - a \in 1 .. b - a /\ a + (m - a) = m
    BY <2>2, StreamAssumption
  <2> QED
    BY <2>1, <2>2, <2>3
<1> DEFINE rest == [k \in 0 .. len - 1 |-> cut[k + 1]]
<1>10. rest \in [0 .. len - 1 -> 0 .. DataSize]
  BY <1>1, <1>3
<1>11. rest[0] = cut[1] /\ rest[len - 1] = b
  BY <1>2, <1>3
<1>12. ASSUME NEW j \in 0 .. len - 1, NEW k \in 0 .. len - 1, j < k
       PROVE  rest[j] < rest[k]
  BY <1>2, <1>3, <1>12
<1>13. ASSUME NEW k \in 1 .. len - 1
       PROVE  Tail(c)[k] = SubSeq(Data(n), rest[k - 1] + 1, rest[k])
  <2>1. k + 1 \in 1 .. len /\ (k + 1) - 1 = k /\ k - 1 \in 0 .. len - 1 /\ (k - 1) + 1 = k
    BY <1>3
  <2>2. rest[k] = cut[k + 1] /\ rest[k - 1] = cut[k]
    BY <2>1, <1>3
  <2> QED
    BY <2>1, <2>2, <1>2, <1>4
<1> HIDE DEF rest, len
<1>14. Cuts(Tail(c), n, cut[1], b, rest)
  BY <1>4, <1>11, <1>12, <1>13 DEF Cuts
<1>15. HoldsMessages(Tail(c), n, cut[1], b)
  BY <1>4, <1>10, <1>14 DEF HoldsMessages
<1> QED
  BY <1>4, <1>8, <1>9, <1>15 DEF len

\* An empty channel holds nothing.
LEMMA EmptyHolds ==
    ASSUME NEW t \in StreamTypes, NEW n \in Nat, NEW a \in 0 .. DataSize
    PROVE  Holds(t, <<>>, n, a, a)
<1>1. CASE t = "mq"
  <2> DEFINE cut == [k \in 0 .. Len(<<>>) |-> a]
  <2>1. Len(<<>>) = 0
    OBVIOUS
  <2>2. cut \in [0 .. Len(<<>>) -> 0 .. DataSize] /\ cut[0] = a /\ cut[Len(<<>>)] = a
    BY <2>1
  <2>3. Cuts(<<>>, n, a, a, cut)
    BY <2>1, <2>2 DEF Cuts
  <2> QED
    BY <2>2, <2>3, <1>1 DEF Holds, HoldsMessages
<1>2. CASE t # "mq"
  <2>1. Len(<<>>) = 0
    OBVIOUS
  <2> QED
    BY <2>1, <1>2, StreamAssumption DEF Holds, HoldsBytes
<1> QED
  BY <1>1, <1>2

\* A channel holds nothing exactly when its ends meet.
LEMMA HeldLength ==
    ASSUME NEW t \in StreamTypes, NEW c \in Streams(t), NEW n \in Nat,
           NEW a \in 0 .. DataSize, NEW b \in 0 .. DataSize, Holds(t, c, n, a, b)
    PROVE  a <= b /\ (c = <<>> <=> a = b) /\ Len(c) \in Nat
<1>1. CASE t = "mq"
  <2>1. PICK cut \in [0 .. Len(c) -> 0 .. DataSize] : Cuts(c, n, a, b, cut)
    BY <1>1 DEF Holds, HoldsMessages
  <2>2. /\ cut[0] = a /\ cut[Len(c)] = b
        /\ \A j, k \in 0 .. Len(c) : j < k => cut[j] < cut[k]
    BY <2>1 DEF Cuts
  <2>3. Len(c) \in Nat /\ (c # <<>> => Len(c) # 0) /\ (c = <<>> => Len(c) = 0)
    BY <1>1, EmptySeq, LenProperties DEF Streams
  <2>4. CASE Len(c) = 0
    BY <2>2, <2>3, <2>4
  <2>5. CASE Len(c) # 0
    <3>1. cut[0] < cut[Len(c)]
      BY <2>2, <2>3, <2>5
    <3> QED
      BY <3>1, <2>2, <2>3, <2>5, StreamAssumption
  <2> QED
    BY <2>4, <2>5
<1>2. CASE t # "mq"
  <2>1. Len(c) \in Nat /\ (c # <<>> => Len(c) # 0) /\ (c = <<>> => Len(c) = 0)
    BY <1>2, EmptySeq, LenProperties DEF Streams
  <2>2. Len(c) = b - a
    BY <1>2 DEF Holds, HoldsBytes
  <2> QED
    BY <2>1, <2>2, StreamAssumption
<1> QED
  BY <1>1, <1>2

\* memcpy of new bytes of iteration n behind those the receiver has.
LEMMA PlacedBytes ==
    ASSUME NEW s \in Seq(Bytes), NEW at \in 0 .. Len(s), NEW new \in Seq(Bytes),
           NEW n \in Tags,
           \A b \in 1 .. at : s[b] = Byte(n, b),
           \A k \in 1 .. Len(new) : new[k] = Byte(n, at + k)
    PROVE  /\ Placed(s, at, new) \in Seq(Bytes)
           /\ Len(Placed(s, at, new)) = Larger(Len(s), at + Len(new))
           /\ \A b \in 1 .. at + Len(new) : Placed(s, at, new)[b] = Byte(n, b)
<1> DEFINE m == Larger(Len(s), at + Len(new))
<1>1. /\ Len(s) \in Nat /\ Len(new) \in Nat /\ at \in Nat
      /\ \A b \in 1 .. Len(s) : s[b] \in Bytes
      /\ \A b \in 1 .. Len(new) : new[b] \in Bytes
  BY LenProperties, ElementOfSeq
<1>2. m \in Nat /\ Len(s) <= m /\ at + Len(new) <= m
      /\ (m = Len(s) \/ m = at + Len(new))
  BY <1>1 DEF Larger
<1> HIDE DEF m
<1>3. ASSUME NEW b \in 1 .. m
      PROVE  (IF b \in at + 1 .. at + Len(new) THEN new[b - at] ELSE s[b]) \in Bytes
  <2>1. CASE b \in at + 1 .. at + Len(new)
    <3>1. b - at \in 1 .. Len(new)
      BY <2>1, <1>1
    <3> QED
      BY <2>1, <3>1, <1>1
  <2>2. CASE b \notin at + 1 .. at + Len(new)
    <3>1. b \in 1 .. Len(s)
      BY <2>2, <1>1, <1>2
    <3> QED
      BY <2>2, <3>1, <1>1
  <2> QED
    BY <2>1, <2>2
<1>4. Placed(s, at, new) =
          [b \in 1 .. m |-> IF b \in at + 1 .. at + Len(new) THEN new[b - at] ELSE s[b]]
  BY DEF Placed, m
<1>5. Placed(s, at, new) \in [1 .. m -> Bytes]
  BY <1>3, <1>4
<1>6. Placed(s, at, new) \in Seq(Bytes) /\ Len(Placed(s, at, new)) = m
  BY <1>2, <1>5, <1>4
<1>7. ASSUME NEW b \in 1 .. at + Len(new)
      PROVE  Placed(s, at, new)[b] = Byte(n, b)
  <2>1. b \in 1 .. m
    BY <1>1, <1>2
  <2>2. CASE b \in at + 1 .. at + Len(new)
    <3>1. b - at \in 1 .. Len(new) /\ at + (b - at) = b
      BY <2>2, <1>1
    <3> QED
      BY <2>1, <2>2, <3>1, <1>4
  <2>3. CASE b \notin at + 1 .. at + Len(new)
    <3>1. b \in 1 .. at
      BY <2>3, <1>1
    <3> QED
      BY <2>1, <2>3, <3>1, <1>4
  <2> QED
    BY <2>2, <2>3
<1> QED
  BY <1>6, <1>7 DEF m
-----------------------------------------------------------------------------
\* Waits, and the places of the two processes.
LEMMA Returning ==
    ASSUME NEW t \in StreamTypes, NEW n \in Nat, NEW l
    PROVE  Stage(t, l) \in 0 .. 3 /\ Returns(t, n, l) \in Nat
BY DEF StreamTypes, Stage, Returns

\* A position in an iteration is one in its data.
LEMMA Placing ==
    ASSUME NEW t, NEW l, NEW m \in 0 .. DataSize
    PROVE  Position(t, l, m) \in 0 .. DataSize
BY StreamAssumption DEF Position

\* Who arrives is counted.
LEMMA SyncArrives ==
    ASSUME SyncInv, NEW p \in Procs, NEW w \in Waits, ArriveAt(p, w), UNCHANGED type
    PROVE  SyncInv'
<1>1. /\ pc[p] = w /\ arrived[p] = passed[p] /\ arrived' = [arrived EXCEPT ![p] = @ + 1]
      /\ passed' = passed /\ pc' = pc /\ iter' = iter
  BY DEF ArriveAt, Barrier!Arrive, transfer
<1>2. arrived' \in [Procs -> Nat] /\ passed' \in [Procs -> Nat]
  BY <1>1 DEF SyncInv
<1>3. ASSUME NEW q \in Procs
      PROVE  /\ passed'[q] = Returns(type', iter'[q], pc'[q])
             /\ arrived'[q] \in {passed'[q], passed'[q] + 1}
             /\ arrived'[q] # passed'[q] => pc'[q] \in Waits
             /\ \A r \in Procs : passed'[q] <= arrived'[r]
  BY <1>1 DEF SyncInv
<1> QED
  BY <1>2, <1>3 DEF SyncInv

\* Who returns has a wait more behind it.
LEMMA SyncReturns ==
    ASSUME SyncInv, NEW p \in Procs, NEW m, Barrier!Pass(p), Goto(p, m), UNCHANGED <<type, iter>>,
           pc \in [Procs -> Labels],
           Returns(type, iter[p], m) = Returns(type, iter[p], pc[p]) + 1
    PROVE  SyncInv'
<1>1. /\ passed[p] < arrived[p] /\ (\A q \in Procs : arrived[p] <= arrived[q])
      /\ passed' = [passed EXCEPT ![p] = @ + 1] /\ arrived' = arrived
      /\ pc' = [pc EXCEPT ![p] = m] /\ iter' = iter
  BY DEF Barrier!Pass, Goto
<1>2. arrived' \in [Procs -> Nat] /\ passed' \in [Procs -> Nat]
  BY <1>1 DEF SyncInv
<1>3. ASSUME NEW q \in Procs
      PROVE  /\ passed'[q] = Returns(type', iter'[q], pc'[q])
             /\ arrived'[q] \in {passed'[q], passed'[q] + 1}
             /\ arrived'[q] # passed'[q] => pc'[q] \in Waits
             /\ \A r \in Procs : passed'[q] <= arrived'[r]
  <2>1. CASE q = p
    BY <2>1, <1>1 DEF SyncInv
  <2>2. CASE q # p
    BY <2>2, <1>1 DEF SyncInv
  <2> QED
    BY <2>1, <2>2
<1> QED
  BY <1>2, <1>3 DEF SyncInv

\* A step that is no wait ends at a line with as many waits behind it.
LEMMA SyncKeeps ==
    ASSUME SyncInv, NEW p \in Procs, NEW m, Goto(p, m), UNCHANGED <<type, barrier>>,
           pc \in [Procs -> Labels], pc[p] \notin Waits,
           \A q \in Procs : q # p => iter'[q] = iter[q],
           Returns(type, iter'[p], m) = Returns(type, iter[p], pc[p])
    PROVE  SyncInv'
<1>1. passed' = passed /\ arrived' = arrived /\ pc' = [pc EXCEPT ![p] = m]
  BY DEF Goto, barrier
<1>2. ASSUME NEW q \in Procs
      PROVE  /\ passed'[q] = Returns(type', iter'[q], pc'[q])
             /\ arrived'[q] \in {passed'[q], passed'[q] + 1}
             /\ arrived'[q] # passed'[q] => pc'[q] \in Waits
             /\ \A r \in Procs : passed'[q] <= arrived'[r]
  <2>1. CASE q = p
    BY <2>1, <1>1 DEF SyncInv
  <2>2. CASE q # p
    BY <2>2, <1>1 DEF SyncInv
  <2> QED
    BY <2>1, <2>2
<1> QED
  BY <1>1, <1>2 DEF SyncInv

\* Lines that differ in nothing that the transfer depends on.
Alike(t, l, m) == /\ l \in After(t) <=> m \in After(t)
                  /\ l \in Ended(t) <=> m \in Ended(t)
                  /\ l \notin During /\ m \notin During

\* A step from one such line to another.
LEMMA TransferMoves ==
    ASSUME TransferInv, NEW p \in Procs, NEW m \in Lines(type, p) \cap Labels,
           Goto(p, m), Alike(type, pc[p], m), UNCHANGED <<type, iter, total, channel, received>>
    PROVE  TransferInv'
<1>1. pc' = [pc EXCEPT ![p] = m] /\ pc \in [Procs -> Labels] /\ type \in StreamTypes
  BY DEF Goto, TransferInv, StreamTypeOK
<1>2. StreamTypeOK'
  BY <1>1 DEF TransferInv, StreamTypeOK
<1>3. LoopInv'
  BY <1>1 DEF TransferInv, LoopInv, Alike
<1>4. At("sender")' = At("sender") /\ At("receiver")' = At("receiver")
  BY <1>1 DEF At, Position, Alike, Procs
<1>5. StreamInv'
  BY <1>4 DEF TransferInv, StreamInv
<1>6. pc'["receiver"] \in {"receive"} \cup After(type) =>
          pc["receiver"] \in {"receive"} \cup After(type)
  BY <1>1 DEF Alike, During, Procs
<1>7. ReceivedInv'
  BY <1>4, <1>6 DEF TransferInv, ReceivedInv
<1> QED
  BY <1>2, <1>3, <1>5, <1>7 DEF TransferInv

\* Arriving moves nobody.
LEMMA ArriveKeeps ==
    ASSUME SyncInv, TransferInv, NEW p \in Procs, NEW w \in Waits, ArriveAt(p, w), UNCHANGED type
    PROVE  SyncInv' /\ TransferInv'
<1>1. UNCHANGED <<pc, iter, total, channel, received>>
  BY DEF ArriveAt, transfer
<1>2. TransferInv'
  BY <1>1 DEF TransferInv, StreamTypeOK, LoopInv, StreamInv, ReceivedInv, At
<1> QED
  BY <1>2, SyncArrives

\* Returning from a wait outside of the transfer loop.
LEMMA ReturnKeeps ==
    ASSUME SyncInv, TransferInv, NEW p \in Procs, NEW w \in Waits,
           NEW m \in Lines(type, p) \cap Labels, ReturnFrom(p, w, m), UNCHANGED type,
           Alike(type, w, m), Stage(type, m) = Stage(type, w) + 1
    PROVE  SyncInv' /\ TransferInv'
<1>1. /\ pc[p] = w /\ Barrier!Pass(p) /\ Goto(p, m)
      /\ UNCHANGED <<iter, total, channel, received>>
  BY DEF ReturnFrom
<1>2. /\ pc \in [Procs -> Labels] /\ iter[p] \in Nat /\ type \in StreamTypes
  BY StreamAssumption DEF TransferInv, StreamTypeOK
<1>3. Returns(type, iter[p], m) = Returns(type, iter[p], pc[p]) + 1
  BY <1>1, <1>2, Returning DEF Returns
<1> QED
  BY <1>1, <1>2, <1>3, SyncReturns, TransferMoves

\* A step without a wait outside of the transfer loop.
LEMMA MoveKeeps ==
    ASSUME SyncInv, TransferInv, NEW p \in Procs, NEW m \in Lines(type, p) \cap Labels, Goto(p, m),
           UNCHANGED <<type, barrier, iter, total, channel, received>>,
           pc[p] \notin Waits, Alike(type, pc[p], m), Stage(type, m) = Stage(type, pc[p])
    PROVE  SyncInv' /\ TransferInv'
<1>1. pc \in [Procs -> Labels]
  BY DEF TransferInv, StreamTypeOK
<1>2. Returns(type, iter'[p], m) = Returns(type, iter[p], pc[p])
  BY DEF Returns
<1> QED
  BY <1>1, <1>2, SyncKeeps, TransferMoves
-----------------------------------------------------------------------------
\* The lines and their stages: the transfer is after one wait of each
\* iteration, and every wait is before the last stage.
LEMMA Stages ==
    ASSUME NEW t \in StreamTypes, NEW p \in Procs, NEW l \in Lines(t, p)
    PROVE  /\ Stage(t, "send") \in 1 .. Rounds(t)
           /\ Stage(t, "receive") = Stage(t, "send")
           /\ l \in During \cup After(t) => Stage(t, l) >= Stage(t, "send")
           /\ l \notin During \cup After(t) => Stage(t, l) < Stage(t, "send")
           /\ Stage(t, l) <= Rounds(t)
           /\ l \in Waits => Stage(t, l) < Rounds(t)
           /\ l \in Waits \ After(t) /\ Stage(t, l) + 1 = Stage(t, "send") => l = "w_begin"
<1>1. CASE t = "tcp"
  BY <1>1 DEF Lines, Stage, Rounds, During, After, Waits, Procs
<1>2. CASE t = "uds"
  BY <1>2 DEF Lines, Stage, Rounds, During, After, Waits, Procs
<1>3. CASE t \in {"pipe", "fifo", "mq"}
  BY <1>3 DEF Lines, Stage, Rounds, During, After, Waits, Procs
<1> QED
  BY <1>1, <1>2, <1>3 DEF StreamTypes

\* The waits of all iterations before.
LEMMA Counting ==
    ASSUME NEW t \in StreamTypes, NEW n \in Nat, NEW m \in Nat, n < m
    PROVE  Returns(t, n, "done") + Rounds(t) <= Returns(t, m, "done")
BY DEF Returns, Rounds, Stage, StreamTypes, During, After

\* A line's waits are those of the iterations before and those of its own.
LEMMA CountingStages ==
    ASSUME NEW t \in StreamTypes, NEW n \in Nat, NEW l
    PROVE  Returns(t, n, l) = Returns(t, n, "done") + Stage(t, l)
<1>1. Stage(t, "done") = 0 /\ Stage(t, l) \in 0 .. 3
  BY Returning DEF Stage, During, After
<1> QED
  BY <1>1 DEF Returns

\* When p transfers, q has been counted in the wait before: it is at that wait,
\* behind it or in a later iteration.
LEMMA Together ==
    ASSUME SyncInv, TransferInv, NEW p \in Procs, NEW q \in Procs, pc[p] \in During
    PROVE  /\ iter[p] <= iter[q]
           /\ iter[p] = iter[q] =>
                 /\ pc[q] \in {"w_begin"} \cup During \cup After(type)
                 /\ pc[q] = "w_begin" => arrived[q] = passed[q] + 1
<1> DEFINE k == Stage(type, "send")
           g == Stage(type, pc[q])
           a == Returns(type, iter[p], "done")
           b == Returns(type, iter[q], "done")
<1>1. /\ type \in StreamTypes /\ iter[p] \in Nat /\ iter[q] \in Nat
      /\ pc[p] \in Lines(type, p) /\ pc[q] \in Lines(type, q)
  BY StreamAssumption DEF TransferInv, StreamTypeOK, LoopInv
<1>2. k \in Nat /\ g \in Nat /\ a \in Nat /\ b \in Nat /\ Rounds(type) \in Nat
  BY <1>1, Returning DEF Rounds
<1>3. /\ k \in 1 .. Rounds(type) /\ Stage(type, pc[p]) = k
      /\ pc[q] \notin During \cup After(type) => g < k
      /\ g <= Rounds(type)
      /\ pc[q] \in Waits => g < Rounds(type)
      /\ pc[q] \in Waits \ After(type) /\ g + 1 = k => pc[q] = "w_begin"
  BY <1>1, Stages DEF During
<1>4. passed[p] = a + k /\ passed[q] = b + g
  BY <1>1, <1>3, CountingStages DEF SyncInv
<1>5. /\ a + k <= arrived[q]
      /\ arrived[q] \in {b + g, b + g + 1}
      /\ arrived[q] # b + g => pc[q] \in Waits
  BY <1>4 DEF SyncInv
<1>6. iter[q] < iter[p] => b + Rounds(type) <= a
  BY <1>1, Counting
<1> HIDE DEF k, g, a, b
<1>7. iter[p] <= iter[q]
  <2> SUFFICES ASSUME iter[q] < iter[p] PROVE FALSE
    BY <1>1
  <2>1. b + Rounds(type) + k <= arrived[q] /\ k >= 1
    BY <1>2, <1>3, <1>5, <1>6
  <2>2. arrived[q] <= b + Rounds(type)
    BY <1>2, <1>3, <1>5
  <2> QED
    BY <2>1, <2>2, <1>2, <1>5
<1>8. ASSUME iter[p] = iter[q], pc[q] \notin During \cup After(type)
      PROVE  pc[q] = "w_begin" /\ arrived[q] = passed[q] + 1
  <2>1. a = b
    BY <1>8 DEF a, b
  <2>2. g < k /\ b + k <= arrived[q]
    BY <2>1, <1>3, <1>5, <1>8
  <2>3. arrived[q] = b + g + 1 /\ g + 1 = k /\ pc[q] \in Waits
    BY <2>2, <1>2, <1>5
  <2> QED
    BY <2>3, <1>3, <1>4, <1>8
<1>9. "w_begin" \notin During \cup After(type)
  BY DEF During, After
<1> QED
  BY <1>7, <1>8, <1>9

\* While the sender is sending, the receiver is in the same iteration, at the
\* wait before its loop or in the loop.
LEMMA Sending ==
    ASSUME SyncInv, TransferInv, pc["sender"] = "send"
    PROVE  /\ iter["receiver"] = iter["sender"]
           /\ iter["sender"] + 1 \in Tags
           /\ pc["receiver"] \in {"w_begin", "receive"}
           /\ At("receiver") \in 0 .. DataSize
           /\ At("receiver") <= total["sender"]
           /\ total["sender"] < DataSize
           /\ Holds(type, channel, iter["sender"] + 1, At("receiver"), total["sender"])
<1> DEFINE s == iter["sender"]
           r == iter["receiver"]
<1>1. /\ type \in StreamTypes /\ s \in 0 .. Iterations /\ r \in 0 .. Iterations
      /\ total["sender"] \in 0 .. DataSize /\ total["receiver"] \in 0 .. DataSize
      /\ pc["receiver"] \in Lines(type, "receiver")
      /\ "sender" \in Procs /\ "receiver" \in Procs
  BY DEF TransferInv, StreamTypeOK, LoopInv, Procs
<1>2. "send" \in During /\ "send" \notin Ended(type) /\ "send" \notin Lines(type, "receiver")
  BY DEF During, Ended, Lines
<1>3. At("sender") = total["sender"] /\ total["sender"] < DataSize /\ s # Iterations
  BY <1>1, <1>2 DEF At, Position, TransferInv, LoopInv
<1>4. At("receiver") \in 0 .. DataSize
  BY <1>1, Placing DEF At
<1>5. s <= r
  BY <1>1, <1>2, Together
<1>6. InFlight(type, channel, s, r, total["sender"], At("receiver"))
  BY <1>3 DEF TransferInv, StreamInv
<1>7. r = s /\ At("receiver") <= total["sender"]
      /\ Holds(type, channel, s + 1, At("receiver"), total["sender"])
  BY <1>1, <1>3, <1>5, <1>6 DEF InFlight
<1>8. pc["receiver"] \in {"w_begin"} \cup During \cup After(type)
  BY <1>1, <1>2, <1>7, Together
<1>9. pc["receiver"] \notin After(type)
  <2> SUFFICES ASSUME pc["receiver"] \in After(type) PROVE FALSE
    OBVIOUS
  <2>1. pc["receiver"] \notin During
    BY DEF During, After
  <2>2. At("receiver") = DataSize
    BY <2>1 DEF At, Position
  <2> QED
    BY <2>2, <1>1, <1>3, <1>7, StreamAssumption
<1>10. pc["receiver"] \in {"w_begin", "receive"}
  BY <1>1, <1>2, <1>8, <1>9 DEF During
<1>11. s + 1 \in Tags
  BY <1>1, <1>3, StreamAssumption DEF Tags
<1> QED
  BY <1>3, <1>4, <1>7, <1>10, <1>11

\* While the receiver is receiving, the sender is in the same iteration, at the
\* wait before its loop or behind it, or it is in the next one.
LEMMA Receiving ==
    ASSUME SyncInv, TransferInv, pc["receiver"] = "receive"
    PROVE  LET s  == iter["sender"]
               r  == iter["receiver"]
               to == IF s = r THEN At("sender") ELSE DataSize
           IN  /\ s \in 0 .. Iterations /\ r \in 0 .. Iterations
               /\ r + 1 \in Tags
               /\ s = r \/ s = r + 1
               /\ s = r => pc["sender"] \in {"w_begin", "send"} \cup After(type)
               /\ s # r => At("sender") = 0
               /\ At("receiver") = total["receiver"]
               /\ total["receiver"] < DataSize
               /\ to \in 0 .. DataSize
               /\ total["receiver"] <= to
               /\ Holds(type, channel, r + 1, total["receiver"], to)
<1> DEFINE s  == iter["sender"]
           r  == iter["receiver"]
           to == IF s = r THEN At("sender") ELSE DataSize
<1>1. /\ type \in StreamTypes /\ s \in 0 .. Iterations /\ r \in 0 .. Iterations
      /\ total["sender"] \in 0 .. DataSize /\ total["receiver"] \in 0 .. DataSize
      /\ pc["sender"] \in Lines(type, "sender")
      /\ "sender" \in Procs /\ "receiver" \in Procs
  BY DEF TransferInv, StreamTypeOK, LoopInv, Procs
<1>2. "receive" \in During /\ "receive" \notin Ended(type) /\ "receive" \notin Lines(type, "sender")
  BY DEF During, Ended, Lines
<1>3. At("receiver") = total["receiver"] /\ total["receiver"] < DataSize /\ r # Iterations
  BY <1>1, <1>2 DEF At, Position, TransferInv, LoopInv
<1>4. At("sender") \in 0 .. DataSize
  BY <1>1, Placing DEF At
<1>5. r <= s
  BY <1>1, <1>2, Together
<1>6. InFlight(type, channel, s, r, At("sender"), total["receiver"])
  BY <1>3 DEF TransferInv, StreamInv
<1>7. \/ s = r /\ total["receiver"] <= At("sender")
         /\ Holds(type, channel, r + 1, total["receiver"], At("sender"))
      \/ s = r + 1 /\ At("sender") = 0
         /\ Holds(type, channel, r + 1, total["receiver"], DataSize)
  BY <1>1, <1>3, <1>5, <1>6 DEF InFlight
<1>8. s = r => pc["sender"] \in {"w_begin"} \cup During \cup After(type)
  BY <1>1, <1>2, Together
<1>9. s = r => pc["sender"] \in {"w_begin", "send"} \cup After(type)
  BY <1>1, <1>2, <1>8 DEF During
<1>10. r + 1 \in Tags
  BY <1>1, <1>3, StreamAssumption DEF Tags
<1>11. s # r + 0 => s = r + 1
  BY <1>1, <1>7
<1> HIDE DEF s, r
<1>12. /\ to \in 0 .. DataSize /\ total["receiver"] <= to
       /\ Holds(type, channel, r + 1, total["receiver"], to)
       /\ s # r => At("sender") = 0
  <2>1. CASE s = r
    BY <2>1, <1>1, <1>4, <1>7
  <2>2. CASE s # r
    BY <2>2, <1>1, <1>3, <1>7, StreamAssumption
  <2> QED
    BY <2>1, <2>2
<1>13. s = r \/ s = r + 1
  BY <1>7
<1> QED
  BY <1>1, <1>3, <1>9, <1>10, <1>12, <1>13 DEF s, r
-----------------------------------------------------------------------------
\* A chunk more is sent, and the loop goes on or ends at m.
LEMMA SendStep ==
    ASSUME SyncInv, TransferInv, pc["sender"] = "send", NEW e \in total["sender"] + 1 .. DataSize,
           NEW m \in Lines(type, "sender") \cap Labels, m \in After(type) \ Ended(type),
           Stage(type, m) = Stage(type, "send"),
           Goto("sender", IF e < DataSize THEN "send" ELSE m),
           total' = [total EXCEPT !["sender"] = e],
           channel' \in Streams(type), Len(channel') <= Capacity,
           Holds(type, channel', iter["sender"] + 1, At("receiver"), e),
           UNCHANGED <<type, barrier, iter, received>>
    PROVE  SyncInv' /\ TransferInv'
<1> DEFINE next == IF e < DataSize THEN "send" ELSE m
<1>1. /\ iter["receiver"] = iter["sender"] /\ At("receiver") \in 0 .. DataSize
      /\ At("receiver") <= total["sender"] /\ total["sender"] < DataSize
  BY Sending
<1>2. /\ pc \in [Procs -> Labels] /\ iter \in [Procs -> 0 .. Iterations]
      /\ total \in [Procs -> 0 .. DataSize] /\ "sender" \in Procs /\ "receiver" \in Procs
      /\ "sender" # "receiver" /\ type \in StreamTypes
      /\ pc["sender"] \in Lines(type, "sender")
  BY DEF TransferInv, StreamTypeOK, LoopInv, Procs
<1>3. e \in 0 .. DataSize
  BY <1>2, StreamAssumption
<1>4. /\ "send" \in Labels /\ "send" \in During /\ "send" \notin Waits
      /\ "send" \notin Ended(type) /\ m \notin During
  BY DEF Labels, During, Waits, Ended, After
<1>5. /\ next \in Labels /\ next \in Lines(type, "sender") /\ next \notin Ended(type)
      /\ Stage(type, next) = Stage(type, "send")
      /\ next \in During => e < DataSize
  BY <1>2, <1>4
<1>6. pc' = [pc EXCEPT !["sender"] = next] /\ Goto("sender", next) /\ iter' = iter
  BY DEF Goto
<1> HIDE DEF next
<1>7. SyncInv'
  <2>1. Returns(type, iter'["sender"], next) = Returns(type, iter["sender"], pc["sender"])
    BY <1>5 DEF Returns
  <2> QED
    BY <2>1, <1>2, <1>4, <1>6, SyncKeeps
<1>8. StreamTypeOK'
  BY <1>2, <1>3, <1>5, <1>6 DEF TransferInv, StreamTypeOK
<1>9. LoopInv'
  BY <1>2, <1>3, <1>4, <1>5, <1>6 DEF TransferInv, LoopInv
<1>10. At("receiver")' = At("receiver")
  BY <1>2, <1>6 DEF At
<1>11. At("sender")' = e
  <2>1. CASE e < DataSize
    BY <2>1, <1>2, <1>4, <1>6 DEF At, Position, next
  <2>2. CASE ~(e < DataSize)
    <3>1. e = DataSize /\ next = m
      BY <2>2, <1>3, StreamAssumption DEF next
    <3> QED
      BY <3>1, <1>2, <1>4, <1>6 DEF At, Position
  <2> QED
    BY <2>1, <2>2
<1>12. StreamInv'
  <2>1. At("receiver") <= e
    BY <1>1, <1>2, <1>3, StreamAssumption
  <2>2. InFlight(type, channel', iter["sender"], iter["receiver"], e, At("receiver"))
    BY <2>1, <1>1 DEF InFlight
  <2> QED
    BY <2>2, <1>10, <1>11 DEF StreamInv
<1>13. ReceivedInv'
  BY <1>2, <1>6, <1>10 DEF TransferInv, ReceivedInv
<1> QED
  BY <1>7, <1>8, <1>9, <1>12, <1>13 DEF TransferInv

\* Bytes more are received, and the loop goes on or ends at m.
LEMMA ReceiveStep ==
    ASSUME SyncInv, TransferInv, pc["receiver"] = "receive",
           NEW e \in total["receiver"] + 1 .. DataSize,
           NEW m \in Lines(type, "receiver") \cap Labels, m \in After(type) \ Ended(type),
           Stage(type, m) = Stage(type, "receive"),
           Goto("receiver", IF e < DataSize THEN "receive" ELSE m),
           total' = [total EXCEPT !["receiver"] = e],
           channel' \in Streams(type), Len(channel') <= Capacity,
           e <= IF iter["sender"] = iter["receiver"] THEN At("sender") ELSE DataSize,
           Holds(type, channel', iter["receiver"] + 1, e,
                 IF iter["sender"] = iter["receiver"] THEN At("sender") ELSE DataSize),
           received' \in Seq(Bytes),
           Len(received') = IF type \in {"tcp", "uds"} THEN DataSize ELSE e,
           \A b \in 1 .. e : received'[b] = Byte(iter["receiver"] + 1, b),
           UNCHANGED <<type, barrier, iter>>
    PROVE  SyncInv' /\ TransferInv'
<1> DEFINE next == IF e < DataSize THEN "receive" ELSE m
           s    == iter["sender"]
           r    == iter["receiver"]
<1>1. /\ s = r \/ s = r + 1
      /\ s # r => At("sender") = 0
      /\ s \in 0 .. Iterations /\ r \in 0 .. Iterations
  BY Receiving
<1>2. /\ pc \in [Procs -> Labels] /\ iter \in [Procs -> 0 .. Iterations]
      /\ total \in [Procs -> 0 .. DataSize] /\ "sender" \in Procs /\ "receiver" \in Procs
      /\ "sender" # "receiver" /\ type \in StreamTypes
      /\ pc["receiver"] \in Lines(type, "receiver")
  BY DEF TransferInv, StreamTypeOK, LoopInv, Procs
<1>3. e \in 0 .. DataSize
  BY <1>2, StreamAssumption
<1>4. /\ "receive" \in Labels /\ "receive" \in During /\ "receive" \notin Waits
      /\ "receive" \notin Ended(type) /\ m \notin During
  BY DEF Labels, During, Waits, Ended, After
<1>5. /\ next \in Labels /\ next \in Lines(type, "receiver") /\ next \notin Ended(type)
      /\ Stage(type, next) = Stage(type, "receive")
      /\ next \in During => e < DataSize
  BY <1>2, <1>4
<1>6. pc' = [pc EXCEPT !["receiver"] = next] /\ Goto("receiver", next) /\ iter' = iter
  BY DEF Goto
<1> HIDE DEF next, s, r
<1>7. SyncInv'
  <2>1. Returns(type, iter'["receiver"], next) = Returns(type, iter["receiver"], pc["receiver"])
    BY <1>5 DEF Returns
  <2> QED
    BY <2>1, <1>2, <1>4, <1>6, SyncKeeps
<1>8. StreamTypeOK'
  BY <1>2, <1>3, <1>5, <1>6 DEF TransferInv, StreamTypeOK
<1>9. LoopInv'
  BY <1>2, <1>3, <1>4, <1>5, <1>6 DEF TransferInv, LoopInv
<1>10. At("sender")' = At("sender")
  BY <1>2, <1>6 DEF At
<1>11. At("receiver")' = e /\ total'["receiver"] = e
  <2>1. CASE e < DataSize
    BY <2>1, <1>2, <1>4, <1>6 DEF At, Position, next
  <2>2. CASE ~(e < DataSize)
    <3>1. e = DataSize /\ next = m
      BY <2>2, <1>3, StreamAssumption DEF next
    <3> QED
      BY <3>1, <1>2, <1>4, <1>6 DEF At, Position
  <2> QED
    BY <2>1, <2>2
<1>12. StreamInv'
  <2>1. InFlight(type, channel', s, r, At("sender"), e)
    <3>1. CASE s = r
      BY <3>1 DEF InFlight, s, r
    <3>2. CASE s # r
      BY <3>2, <1>1 DEF InFlight, s, r
    <3> QED
      BY <3>1, <3>2
  <2> QED
    BY <2>1, <1>10, <1>11 DEF StreamInv, s, r
<1>13. ReceivedInv'
  BY <1>11 DEF ReceivedInv
<1> QED
  BY <1>7, <1>8, <1>9, <1>12, <1>13 DEF TransferInv

\* The end of an iteration.
LEMMA EndStep ==
    ASSUME SyncInv, TransferInv, NEW p \in Procs, NEW first \in Lines(type, p) \cap Labels,
           NEW end \in Lines(type, p) \cap Labels, EndIteration(p, first, end),
           first \notin Ended(type) \cup During \cup After(type),
           end \in Ended(type) \ (During \cup After(type)),
           pc[p] \in After(type) \ (Waits \cup During \cup Ended(type)),
           Stage(type, pc[p]) = Rounds(type), Stage(type, first) = 0, Stage(type, end) = 0,
           UNCHANGED <<type, barrier, total, channel, received>>
    PROVE  SyncInv' /\ TransferInv'
<1> DEFINE n    == iter[p]
           next == IF n + 1 < Iterations THEN first ELSE end
<1>1. /\ pc \in [Procs -> Labels] /\ iter \in [Procs -> 0 .. Iterations]
      /\ total \in [Procs -> 0 .. DataSize]
      /\ type \in StreamTypes
      /\ pc[p] \in Lines(type, p) /\ n # Iterations
  BY DEF TransferInv, StreamTypeOK, LoopInv
<1>2. n \in Nat /\ n + 1 \in 0 .. Iterations /\ (n + 1 < Iterations <=> n + 1 # Iterations)
  BY <1>1, StreamAssumption
<1>3. pc' = [pc EXCEPT ![p] = next] /\ iter' = [iter EXCEPT ![p] = n + 1] /\ Goto(p, next)
  BY DEF EndIteration, Goto
<1>4. /\ next \in Labels /\ next \in Lines(type, p) /\ Stage(type, next) = 0
      /\ next \notin During \cup After(type)
      /\ next \in Ended(type) <=> n + 1 = Iterations
  BY <1>2
<1> HIDE DEF next, n
<1>5. SyncInv'
  <2>1. Returns(type, n + 1, next) = Returns(type, n, pc[p])
    BY <1>1, <1>2, <1>4 DEF Returns, Rounds, StreamTypes
  <2> QED
    BY <2>1, <1>1, <1>3, SyncKeeps DEF n
<1>6. StreamTypeOK'
  BY <1>1, <1>2, <1>3, <1>4 DEF TransferInv, StreamTypeOK
<1>7. LoopInv'
  BY <1>1, <1>3, <1>4 DEF TransferInv, LoopInv
<1>8. At(p) = DataSize /\ At(p)' = 0 /\ \A q \in Procs : q # p => At(q)' = At(q)
  BY <1>1, <1>3, <1>4 DEF At, Position
<1>9. StreamInv'
  <2> DEFINE s == iter["sender"]
             r == iter["receiver"]
  <2>1. InFlight(type, channel, s, r, At("sender"), At("receiver"))
    BY DEF TransferInv, StreamInv
  <2>2. /\ channel \in Streams(type) /\ s \in Nat /\ r \in Nat
        /\ At("sender") \in 0 .. DataSize /\ At("receiver") \in 0 .. DataSize
        /\ 0 \in 0 .. DataSize /\ DataSize \in 0 .. DataSize /\ DataSize # 0
    BY <1>1, Placing, StreamAssumption DEF TransferInv, StreamTypeOK, Procs, At
  <2>3. CASE p = "sender"
    <3>1. At("sender") = DataSize /\ At("sender")' = 0 /\ At("receiver")' = At("receiver")
      BY <2>3, <1>8 DEF Procs
    <3>2. InFlight(type, channel, s + 1, r, 0, At("receiver"))
      <4>1. CASE s = r /\ Holds(type, channel, s + 1, At("receiver"), DataSize)
        BY <4>1, <2>2 DEF InFlight
      <4>2. CASE r = s + 1 /\ At("receiver") = 0 /\ channel = <<>>
        BY <4>2, <2>2, <1>1, EmptyHolds DEF InFlight
      <4> QED
        BY <4>1, <4>2, <3>1, <2>1, <2>2 DEF InFlight
    <3>3. iter'["sender"] = s + 1 /\ iter'["receiver"] = r
      BY <2>3, <1>1, <1>3 DEF n, Procs
    <3> QED
      BY <3>1, <3>2, <3>3 DEF StreamInv
  <2>4. CASE p = "receiver"
    <3>1. At("receiver") = DataSize /\ At("receiver")' = 0 /\ At("sender")' = At("sender")
      BY <2>4, <1>8 DEF Procs
    <3>2. InFlight(type, channel, s, r + 1, At("sender"), 0)
      <4>1. CASE s = r /\ DataSize <= At("sender")
                 /\ Holds(type, channel, s + 1, DataSize, At("sender"))
        <5>1. At("sender") = DataSize
          BY <4>1, <2>2, StreamAssumption
        <5>2. channel = <<>>
          BY <4>1, <5>1, <2>2, <1>1, HeldLength
        <5> QED
          BY <4>1, <5>1, <5>2 DEF InFlight
      <4>2. CASE s = r + 1 /\ At("sender") = 0 /\ Holds(type, channel, s, DataSize, DataSize)
        <5>1. channel = <<>>
          BY <4>2, <2>2, <1>1, HeldLength
        <5> QED
          BY <4>2, <5>1, <2>2, <1>1, EmptyHolds DEF InFlight
      <4> QED
        BY <4>1, <4>2, <3>1, <2>1, <2>2 DEF InFlight
    <3>3. iter'["sender"] = s /\ iter'["receiver"] = r + 1
      BY <2>4, <1>1, <1>3 DEF n, Procs
    <3> QED
      BY <3>1, <3>2, <3>3 DEF StreamInv
  <2> QED
    BY <2>3, <2>4 DEF Procs
<1>10. ReceivedInv'
  <2>1. CASE p = "receiver"
    <3>1. pc'["receiver"] = next
      BY <2>1, <1>1, <1>3
    <3>2. next \notin {"receive"} \cup After(type)
      BY <1>4 DEF During
    <3> QED
      BY <3>1, <3>2 DEF TransferInv, ReceivedInv
  <2>2. CASE p # "receiver"
    <3>1. pc'["receiver"] = pc["receiver"] /\ iter'["receiver"] = iter["receiver"]
          /\ At("receiver")' = At("receiver")
      BY <2>2, <1>1, <1>3, <1>8 DEF Procs
    <3> QED
      BY <3>1 DEF TransferInv, ReceivedInv
  <2> QED
    BY <2>1, <2>2
<1> QED
  BY <1>5, <1>6, <1>7, <1>9, <1>10 DEF TransferInv
-----------------------------------------------------------------------------
\* The wait before the sender's loop.
LEMMA BeginSendingKeeps ==
    ASSUME SyncInv, TransferInv, BeginSending("w_begin"), UNCHANGED type
    PROVE  SyncInv' /\ TransferInv'
<1>1. /\ pc["sender"] = "w_begin" /\ Barrier!Pass("sender") /\ Goto("sender", "send")
      /\ pc' = [pc EXCEPT !["sender"] = "send"]
      /\ total' = [total EXCEPT !["sender"] = 0]
      /\ UNCHANGED <<type, iter, channel, received>>
  BY DEF BeginSending, Goto
<1>2. /\ pc \in [Procs -> Labels] /\ iter \in [Procs -> 0 .. Iterations]
      /\ total \in [Procs -> 0 .. DataSize] /\ "sender" \in Procs /\ "receiver" \in Procs
      /\ "sender" # "receiver" /\ type \in StreamTypes
      /\ pc["sender"] \in Lines(type, "sender")
  BY DEF TransferInv, StreamTypeOK, LoopInv, Procs
<1>3. /\ "send" \in Labels /\ "send" \in During /\ "send" \notin Ended(type)
      /\ "w_begin" \notin Ended(type) \cup During \cup After(type)
      /\ "send" \in Lines(type, "sender")
      /\ 0 < DataSize /\ 0 \in 0 .. DataSize
  BY <1>2, StreamAssumption DEF Labels, During, Ended, After, Lines, StreamTypes
<1>4. SyncInv'
  <2>1. Stage(type, "send") = Stage(type, "w_begin") + 1
    BY <1>2 DEF Stage, During, After, StreamTypes
  <2>2. Returns(type, iter["sender"], "send") = Returns(type, iter["sender"], pc["sender"]) + 1
    <3>1. iter["sender"] \in Nat /\ Stage(type, "w_begin") \in 0 .. 3
      BY <1>2, Returning, StreamAssumption
    <3> QED
      BY <1>1, <2>1, <3>1 DEF Returns
  <2> QED
    BY <2>2, <1>1, <1>2, SyncReturns
<1>5. StreamTypeOK'
  BY <1>1, <1>2, <1>3 DEF TransferInv, StreamTypeOK
<1>6. LoopInv'
  BY <1>1, <1>2, <1>3 DEF TransferInv, LoopInv
<1>7. At("sender")' = At("sender") /\ At("receiver")' = At("receiver")
  BY <1>1, <1>2, <1>3 DEF At, Position
<1>8. StreamInv'
  BY <1>1, <1>7 DEF TransferInv, StreamInv
<1>9. ReceivedInv'
  BY <1>1, <1>2, <1>7 DEF TransferInv, ReceivedInv
<1> QED
  BY <1>4, <1>5, <1>6, <1>8, <1>9 DEF TransferInv

\* The wait before the receiver's loop: fresh is as long as this benchmark's
\* received_data is.
LEMMA BeginReceivingKeeps ==
    ASSUME SyncInv, TransferInv, NEW fresh \in Seq(Bytes),
           Len(fresh) = IF type \in {"tcp", "uds"} THEN DataSize ELSE 0,
           BeginReceiving("w_begin", fresh), UNCHANGED type
    PROVE  SyncInv' /\ TransferInv'
<1>1. /\ pc["receiver"] = "w_begin" /\ Barrier!Pass("receiver") /\ Goto("receiver", "receive")
      /\ pc' = [pc EXCEPT !["receiver"] = "receive"]
      /\ total' = [total EXCEPT !["receiver"] = 0] /\ received' = fresh
      /\ UNCHANGED <<type, iter, channel>>
  BY DEF BeginReceiving, Goto
<1>2. /\ pc \in [Procs -> Labels] /\ iter \in [Procs -> 0 .. Iterations]
      /\ total \in [Procs -> 0 .. DataSize] /\ "sender" \in Procs /\ "receiver" \in Procs
      /\ "sender" # "receiver" /\ type \in StreamTypes
      /\ pc["receiver"] \in Lines(type, "receiver")
  BY DEF TransferInv, StreamTypeOK, LoopInv, Procs
<1>3. /\ "receive" \in Labels /\ "receive" \in During /\ "receive" \notin Ended(type)
      /\ "w_begin" \notin Ended(type) \cup During \cup After(type)
      /\ "receive" \in Lines(type, "receiver")
      /\ 0 < DataSize /\ 0 \in 0 .. DataSize
  BY <1>2, StreamAssumption DEF Labels, During, Ended, After, Lines, StreamTypes
<1>4. SyncInv'
  <2>1. Stage(type, "receive") = Stage(type, "w_begin") + 1
    BY <1>2 DEF Stage, During, After, StreamTypes
  <2>2. Returns(type, iter["receiver"], "receive") =
            Returns(type, iter["receiver"], pc["receiver"]) + 1
    <3>1. iter["receiver"] \in Nat /\ Stage(type, "w_begin") \in Nat
      <4>1. iter["receiver"] \in Nat
        BY <1>2, StreamAssumption
      <4>2. Stage(type, "w_begin") \in Nat
        BY <1>2 DEF Stage
      <4> QED
        BY <4>1, <4>2
    <3>2. Returns(type, iter["receiver"], "receive") =
              Returns(type, iter["receiver"], "w_begin") + 1
      BY <2>1, <3>1 DEF Returns
    <3>3. pc["receiver"] = "w_begin"
      BY <1>1
    <3> QED
      BY <3>2, <3>3
  <2> QED
    BY <2>2, <1>1, <1>2, SyncReturns
<1>5. StreamTypeOK'
  BY <1>1, <1>2, <1>3 DEF TransferInv, StreamTypeOK
<1>6. LoopInv'
  BY <1>1, <1>2, <1>3 DEF TransferInv, LoopInv
<1>7. At("sender")' = At("sender") /\ At("receiver")' = At("receiver") /\ At("receiver")' = 0
  BY <1>1, <1>2, <1>3 DEF At, Position
<1>8. StreamInv'
  BY <1>1, <1>7 DEF TransferInv, StreamInv
<1>9. ReceivedInv'
  <2>1. total'["receiver"] = 0 /\ 1 .. 0 = {}
    BY <1>1, <1>2
  <2> QED
    BY <2>1, <1>1, <1>7 DEF ReceivedInv
<1> QED
  BY <1>4, <1>5, <1>6, <1>8, <1>9 DEF TransferInv

\* write() or send() with a reader.
LEMMA SendKeeps ==
    ASSUME SyncInv, TransferInv, type # "mq",
           NEW m \in Lines(type, "sender") \cap Labels, m \in After(type) \ Ended(type),
           Stage(type, m) = Stage(type, "send"), Send(TRUE, m), UNCHANGED type
    PROVE  SyncInv' /\ TransferInv'
<1>1. PICK n \in 1 .. Smaller(BufferSize, DataSize - total["sender"]) :
          /\ Len(channel) + n <= Capacity
          /\ channel' = channel \o SubSeq(Data(iter["sender"] + 1),
                                          total["sender"] + 1, total["sender"] + n)
          /\ total' = [total EXCEPT !["sender"] = @ + n]
          /\ Goto("sender", IF total["sender"] + n < DataSize THEN "send" ELSE m)
  BY DEF Send
<1>2. pc["sender"] = "send" /\ UNCHANGED <<type, barrier, iter, received>>
  BY DEF Send
<1>3. /\ iter["sender"] + 1 \in Tags /\ At("receiver") \in 0 .. DataSize
      /\ At("receiver") <= total["sender"] /\ total["sender"] < DataSize
      /\ Holds(type, channel, iter["sender"] + 1, At("receiver"), total["sender"])
  BY <1>2, Sending
<1>4. /\ total["sender"] \in 0 .. DataSize /\ channel \in Seq(Bytes)
      /\ Len(channel) \in Nat
  BY LenProperties DEF TransferInv, StreamTypeOK, Procs, Streams
<1>5. n \in Nat /\ n >= 1 /\ n <= DataSize - total["sender"]
  BY <1>3, <1>4, StreamAssumption DEF Smaller
<1> DEFINE e == total["sender"] + n
           d == SubSeq(Data(iter["sender"] + 1), total["sender"] + 1, e)
<1>6. /\ e \in total["sender"] + 1 .. DataSize /\ e \in total["sender"] .. DataSize
      /\ e - total["sender"] = n
  BY <1>4, <1>5, StreamAssumption
<1>7. HoldsBytes(channel, iter["sender"] + 1, At("receiver"), total["sender"])
  BY <1>3 DEF Holds
<1>8. /\ channel \o d \in Seq(Bytes)
      /\ Len(channel \o d) = Len(channel) + (e - total["sender"])
      /\ HoldsBytes(channel \o d, iter["sender"] + 1, At("receiver"), e)
  BY <1>3, <1>4, <1>6, <1>7, BytesSent
<1>9. /\ channel' \in Streams(type) /\ Len(channel') <= Capacity
      /\ Holds(type, channel', iter["sender"] + 1, At("receiver"), e)
  BY <1>1, <1>6, <1>8 DEF Streams, Holds
<1>10. total' = [total EXCEPT !["sender"] = e]
       /\ Goto("sender", IF e < DataSize THEN "send" ELSE m)
  BY <1>1
<1> HIDE DEF e
<1> QED
  BY <1>2, <1>6, <1>9, <1>10, SendStep

\* read() or recv() of bytes that are there.
LEMMA ReceiveKeeps ==
    ASSUME SyncInv, TransferInv, type # "mq",
           NEW m \in Lines(type, "receiver") \cap Labels, m \in After(type) \ Ended(type),
           Stage(type, m) = Stage(type, "receive"), Receive(TRUE, m), UNCHANGED type
    PROVE  SyncInv' /\ TransferInv'
<1> DEFINE at == total["receiver"]
           r  == iter["receiver"]
           to == IF iter["sender"] = iter["receiver"] THEN At("sender") ELSE DataSize
<1>1. PICK n \in 0 .. Smaller(BufferSize, Len(channel)) :
          /\ n # 0
          /\ received' = Placed(received, at, SubSeq(channel, 1, n))
          /\ channel' = SubSeq(channel, n + 1, Len(channel))
          /\ total' = [total EXCEPT !["receiver"] = @ + n]
          /\ Goto("receiver", IF n # 0 /\ at + n < DataSize THEN "receive" ELSE m)
  BY DEF Receive
<1>2. pc["receiver"] = "receive" /\ UNCHANGED <<type, barrier, iter>>
  BY DEF Receive
<1>3. /\ r + 1 \in Tags /\ at < DataSize /\ to \in 0 .. DataSize /\ at <= to
      /\ At("receiver") = at
      /\ Holds(type, channel, r + 1, at, to)
  BY <1>2, Receiving
<1>4. /\ at \in 0 .. DataSize /\ channel \in Seq(Bytes)
      /\ Len(channel) \in Nat /\ Len(channel) <= Capacity
      /\ received \in Seq(Bytes)
  BY LenProperties DEF TransferInv, StreamTypeOK, Procs, Streams
<1>5. HoldsBytes(channel, r + 1, at, to) /\ Len(channel) = to - at
  BY <1>3 DEF Holds, HoldsBytes
<1>6. n \in 1 .. Len(channel) /\ n \in 0 .. Len(channel)
  BY <1>1, <1>4, StreamAssumption DEF Smaller
<1> DEFINE e    == at + n
           rest == SubSeq(channel, n + 1, Len(channel))
           new  == SubSeq(channel, 1, n)
<1>7. e \in at + 1 .. DataSize /\ e <= to
  <2> HIDE DEF at, to
  <2> QED
    BY <1>3, <1>4, <1>5, <1>6, StreamAssumption
<1>8. /\ rest \in Seq(Bytes) /\ Len(rest) = Len(channel) - n
      /\ HoldsBytes(rest, r + 1, e, to)
      /\ new \in Seq(Bytes) /\ Len(new) = n
      /\ \A k \in 1 .. n : new[k] = Byte(r + 1, at + k)
  <2>1. r + 1 \in Tags /\ channel \in Seq(Bytes) /\ at \in 0 .. DataSize /\ to \in 0 .. DataSize
        /\ HoldsBytes(channel, r + 1, at, to) /\ n \in 0 .. Len(channel)
    BY <1>3, <1>4, <1>5, <1>6
  <2> HIDE DEF at, to, r
  <2> QED
    BY <2>1, BytesReceived
<1>9. /\ Len(received) = IF type \in {"tcp", "uds"} THEN DataSize ELSE at
      /\ \A b \in 1 .. at : received[b] = Byte(r + 1, b)
  BY <1>2, <1>3 DEF TransferInv, ReceivedInv
<1>10. at \in 0 .. Len(received)
  <2> HIDE DEF at
  <2> QED
    BY <1>4, <1>9, StreamAssumption
<1> DEFINE placed == Placed(received, at, new)
<1>11. /\ placed \in Seq(Bytes)
       /\ Len(placed) = Larger(Len(received), at + Len(new))
       /\ \A b \in 1 .. at + Len(new) : placed[b] = Byte(r + 1, b)
  <2>1. received \in Seq(Bytes) /\ at \in 0 .. Len(received) /\ new \in Seq(Bytes)
    BY <1>4, <1>8, <1>10
  <2>2. /\ \A b \in 1 .. at : received[b] = Byte(r + 1, b)
        /\ \A k \in 1 .. Len(new) : new[k] = Byte(r + 1, at + k)
    BY <1>8, <1>9
  <2> DEFINE tag == r + 1
  <2>3. tag \in Tags
    BY <1>3
  <2> HIDE DEF at, tag, new
  <2>4. /\ \A b \in 1 .. at : received[b] = Byte(tag, b)
        /\ \A k \in 1 .. Len(new) : new[k] = Byte(tag, at + k)
    BY <2>2 DEF tag
  <2>5. /\ placed \in Seq(Bytes)
        /\ Len(placed) = Larger(Len(received), at + Len(new))
        /\ \A b \in 1 .. at + Len(new) : placed[b] = Byte(tag, b)
    BY <2>1, <2>3, <2>4, PlacedBytes
  <2> QED
    BY <2>5 DEF tag
<1>12. Len(placed) = IF type \in {"tcp", "uds"} THEN DataSize ELSE e
  <2> HIDE DEF at, new, placed
  <2> QED
    BY <1>4, <1>7, <1>8, <1>9, <1>11, StreamAssumption DEF Larger
<1>13. /\ channel' \in Streams(type) /\ Len(channel') <= Capacity
       /\ Holds(type, channel', r + 1, e, to)
  <2>1. channel' = rest /\ Len(rest) <= Capacity
    BY <1>1, <1>4, <1>6, <1>8, StreamAssumption
  <2> HIDE DEF rest, e, r, to
  <2> QED
    BY <2>1, <1>8 DEF Streams, Holds
<1>14. /\ received' = placed /\ total' = [total EXCEPT !["receiver"] = e]
       /\ Goto("receiver", IF e < DataSize THEN "receive" ELSE m)
  BY <1>1
<1>15. \A b \in 1 .. e : placed[b] = Byte(r + 1, b)
  BY <1>8, <1>11
<1> HIDE DEF e, placed, new
<1> QED
  BY <1>2, <1>7, <1>11, <1>12, <1>13, <1>14, <1>15, ReceiveStep

\* mq_send: the chunk is as large as it can be.
LEMMA MqSendKeeps ==
    ASSUME SyncInv, TransferInv, type = "mq", Mq!MqSend, UNCHANGED type
    PROVE  SyncInv' /\ TransferInv'
<1> DEFINE e == total["sender"] + Smaller(BufferSize, DataSize - total["sender"])
           d == SubSeq(Data(iter["sender"] + 1), total["sender"] + 1, e)
<1>1. /\ pc["sender"] = "send" /\ Len(channel) < Capacity
      /\ channel' = Append(channel, d)
      /\ total' = [total EXCEPT !["sender"] = e]
      /\ Goto("sender", IF e < DataSize THEN "send" ELSE "close")
      /\ UNCHANGED <<type, barrier, iter, received>>
  BY DEF Mq!MqSend, Mq!ChunkSize, Mq!Smaller, Mq!Data, Mq!Byte, Mq!Goto, Mq!barrier, Smaller,
     Data, Byte, Goto, barrier
<1>2. /\ iter["sender"] + 1 \in Tags /\ At("receiver") \in 0 .. DataSize
      /\ At("receiver") <= total["sender"] /\ total["sender"] < DataSize
      /\ Holds(type, channel, iter["sender"] + 1, At("receiver"), total["sender"])
  BY <1>1, Sending
<1>3. total["sender"] \in 0 .. DataSize /\ channel \in Seq(Seq(Bytes)) /\ Len(channel) \in Nat
  BY LenProperties DEF TransferInv, StreamTypeOK, Procs, Streams
<1>4. e \in total["sender"] + 1 .. DataSize
  BY <1>2, <1>3, StreamAssumption DEF Smaller
<1>5. HoldsMessages(channel, iter["sender"] + 1, At("receiver"), total["sender"])
  BY <1>2 DEF Holds
<1> HIDE DEF e
<1>6. /\ Append(channel, d) \in Seq(Seq(Bytes)) /\ Len(Append(channel, d)) = Len(channel) + 1
      /\ HoldsMessages(Append(channel, d), iter["sender"] + 1, At("receiver"), e)
  BY <1>2, <1>3, <1>4, <1>5, MessageSent
<1>7. /\ channel' \in Streams(type) /\ Len(channel') <= Capacity
      /\ Holds(type, channel', iter["sender"] + 1, At("receiver"), e)
  <2>1. Len(channel) + 1 <= Capacity
    BY <1>1, <1>3, StreamAssumption
  <2> QED
    BY <2>1, <1>1, <1>6 DEF Streams, Holds
<1>8. /\ "close" \in Lines(type, "sender") \cap Labels
      /\ "close" \in After(type) \ Ended(type)
      /\ Stage(type, "close") = Stage(type, "send")
  BY DEF Lines, Labels, After, Ended, Stage, During
<1> QED
  BY <1>1, <1>4, <1>7, <1>8, SendStep

\* mq_receive: the first message is not longer than what is missing.
LEMMA MqReceiveKeeps ==
    ASSUME SyncInv, TransferInv, type = "mq", Mq!MqReceive, UNCHANGED type
    PROVE  SyncInv' /\ TransferInv'
<1> DEFINE at  == total["receiver"]
           tag == iter["receiver"] + 1
           to  == IF iter["sender"] = iter["receiver"] THEN At("sender") ELSE DataSize
           msg == Head(channel)
           e   == at + Len(msg)
<1>1. /\ pc["receiver"] = "receive" /\ channel # <<>>
      /\ received' = Placed(received, at, msg)
      /\ channel' = Tail(channel)
      /\ total' = [total EXCEPT !["receiver"] = e]
      /\ Goto("receiver", IF msg # <<>> /\ e < DataSize THEN "receive" ELSE "verify")
      /\ UNCHANGED <<type, barrier, iter>>
  BY DEF Mq!MqReceive, Mq!Goto, Mq!Placed, Mq!Larger, Mq!barrier, Goto, Placed, Larger, barrier
<1>2. /\ tag \in Tags /\ at < DataSize /\ to \in 0 .. DataSize /\ at <= to
      /\ At("receiver") = at
      /\ Holds(type, channel, tag, at, to)
  BY <1>1, Receiving
<1>3. /\ at \in 0 .. DataSize /\ channel \in Seq(Seq(Bytes))
      /\ Len(channel) \in Nat /\ Len(channel) <= Capacity
      /\ received \in Seq(Bytes)
  BY LenProperties DEF TransferInv, StreamTypeOK, Procs, Streams
<1>4. HoldsMessages(channel, tag, at, to)
  BY <1>2 DEF Holds
<1>5. /\ Len(received) = at
      /\ \A b \in 1 .. at : received[b] = Byte(tag, b)
  BY <1>1, <1>2 DEF TransferInv, ReceivedInv
<1> HIDE DEF at, tag, to
<1>6. /\ msg \in Seq(Bytes) /\ Len(msg) \in 1 .. to - at
      /\ \A k \in 1 .. Len(msg) : msg[k] = Byte(tag, at + k)
      /\ Tail(channel) \in Seq(Seq(Bytes)) /\ Len(Tail(channel)) = Len(channel) - 1
      /\ HoldsMessages(Tail(channel), tag, e, to)
  BY <1>1, <1>2, <1>3, <1>4, MessageReceived
<1>7. e \in at + 1 .. DataSize /\ e <= to /\ msg # <<>> /\ Len(msg) \in Nat
  <2>1. msg # <<>>
    BY <1>6
  <2> QED
    BY <2>1, <1>2, <1>3, <1>6, StreamAssumption
<1> HIDE DEF msg
<1> DEFINE placed == Placed(received, at, msg)
<1>8. /\ placed \in Seq(Bytes) /\ Len(placed) = Larger(Len(received), e)
      /\ \A b \in 1 .. e : placed[b] = Byte(tag, b)
  <2>1. at \in 0 .. Len(received)
    BY <1>3, <1>5, StreamAssumption
  <2> QED
    BY <2>1, <1>2, <1>3, <1>5, <1>6, PlacedBytes
<1> HIDE DEF e, placed
<1>9. Len(placed) = IF type \in {"tcp", "uds"} THEN DataSize ELSE e
  BY <1>3, <1>5, <1>7, <1>8, StreamAssumption DEF Larger
<1>10. /\ channel' \in Streams(type) /\ Len(channel') <= Capacity
       /\ Holds(type, channel', tag, e, to)
  <2>1. Len(Tail(channel)) <= Capacity
    BY <1>3, <1>6, StreamAssumption
  <2> QED
    BY <2>1, <1>1, <1>6 DEF Streams, Holds
<1>11. /\ "verify" \in Lines(type, "receiver") \cap Labels
       /\ "verify" \in After(type) \ Ended(type)
       /\ Stage(type, "verify") = Stage(type, "receive")
  BY DEF Lines, Labels, After, Ended, Stage, During
<1>12. Goto("receiver", IF e < DataSize THEN "receive" ELSE "verify") /\ received' = placed
  BY <1>1, <1>7 DEF placed
<1> QED
  BY <1>1, <1>7, <1>8, <1>9, <1>10, <1>11, <1>12, ReceiveStep DEF at, tag, to
-----------------------------------------------------------------------------
\* What is verified is this iteration's data.
LEMMA Verifying ==
    ASSUME TransferInv, pc["receiver"] = "verify"
    PROVE  Verified /\ received = Data(iter["receiver"] + 1)
<1> DEFINE tag == iter["receiver"] + 1
<1>1. /\ type \in StreamTypes /\ received \in Seq(Bytes) /\ iter["receiver"] \in 0 .. Iterations
      /\ pc["receiver"] \in Ended(type) <=> iter["receiver"] = Iterations
  BY DEF TransferInv, StreamTypeOK, LoopInv, Procs
<1>2. tag \in Tags
  BY <1>1, StreamAssumption DEF Ended, Tags
<1>3. "verify" \in After(type) /\ "verify" \notin During
  BY DEF After, During
<1>4. At("receiver") = DataSize
  BY <1>3 DEF At, Position
<1>5. Len(received) = DataSize /\ \A b \in 1 .. DataSize : received[b] = Byte(tag, b)
  BY <1>3, <1>4 DEF TransferInv, ReceivedInv
<1> HIDE DEF tag
<1>6. /\ Data(tag) \in Seq(Bytes) /\ Len(Data(tag)) = DataSize
      /\ \A b \in 1 .. DataSize : Data(tag)[b] = Byte(tag, b)
  BY <1>2, Whole DEF Data
<1>7. received = Data(tag)
  <2>1. \A b \in 1 .. Len(received) : received[b] = Data(tag)[b]
    BY <1>5, <1>6
  <2> QED
    BY <2>1, <1>1, <1>5, <1>6, SeqEqual
<1>8. Verified
  BY <1>5 DEF Verified, Byte
<1> QED
  BY <1>7, <1>8 DEF tag

\* The receiver waits for bytes only while the sender is still to send them.
LEMMA Starving ==
    ASSUME SyncInv, TransferInv, pc["receiver"] = "receive", channel = <<>>
    PROVE  iter["sender"] = iter["receiver"] /\ pc["sender"] \in {"w_begin", "send"}
<1> DEFINE s  == iter["sender"]
           r  == iter["receiver"]
           to == IF s = r THEN At("sender") ELSE DataSize
<1>1. /\ s = r => pc["sender"] \in {"w_begin", "send"} \cup After(type)
      /\ total["receiver"] < DataSize /\ to \in 0 .. DataSize /\ r + 1 \in Tags
      /\ Holds(type, channel, r + 1, total["receiver"], to)
  BY Receiving
<1>2. /\ type \in StreamTypes /\ channel \in Streams(type) /\ r + 1 \in Nat
      /\ total["receiver"] \in 0 .. DataSize
  BY StreamAssumption DEF TransferInv, StreamTypeOK, Procs
<1>3. total["receiver"] = to
  <2> HIDE DEF s, r, to
  <2> QED
    BY <1>1, <1>2, HeldLength
<1>4. s = r /\ At("sender") < DataSize
  BY <1>1, <1>3, StreamAssumption
<1>5. pc["sender"] \notin After(type)
  <2> SUFFICES ASSUME pc["sender"] \in After(type) PROVE FALSE
    OBVIOUS
  <2>1. At("sender") = DataSize
    BY DEF At, Position, During, After
  <2> QED
    BY <2>1, <1>4, StreamAssumption
<1> QED
  BY <1>1, <1>4, <1>5
-----------------------------------------------------------------------------
\* pipe_bandwidth.cc, the sender.
LEMMA PipeSender ==
    ASSUME IInv, type = "pipe", Pipe!Sender, UNCHANGED type
    PROVE  IInv'
<1>1. SyncInv /\ TransferInv /\ EndsInv
  BY DEF IInv
<1>2. pc \in [Procs -> Labels] /\ "sender" \in Procs /\ "receiver" \in Procs
  BY <1>1 DEF TransferInv, StreamTypeOK, Procs
<1>3. reading = (pc["receiver"] # "done") /\ writing = (pc["sender"] # "done")
  BY <1>1 DEF EndsInv
<1>4. CASE Pipe!ArriveAt("sender", "w_begin") /\ UNCHANGED ends
  <2>1. ArriveAt("sender", "w_begin")
    BY <1>4 DEF ArriveAt, Pipe!ArriveAt, Barrier!Arrive, Pipe!Barrier!Arrive, transfer,
       Pipe!transfer
  <2>2. "w_begin" \in Waits
    BY DEF Waits
  <2>3. SyncInv' /\ TransferInv'
    BY <2>1, <2>2, <1>1, <1>2, ArriveKeeps
  <2>4. EndsInv'
    BY <2>1, <1>1, <1>4 DEF ArriveAt, transfer, ends, EndsInv
  <2> QED
    BY <2>3, <2>4 DEF IInv
<1>5. CASE Pipe!BeginSending("w_begin") /\ UNCHANGED ends
  <2>1. BeginSending("w_begin")
    BY <1>5 DEF BeginSending, Pipe!BeginSending, Barrier!Pass, Pipe!Barrier!Pass, Procs,
       Pipe!Procs, Goto, Pipe!Goto
  <2>2. SyncInv' /\ TransferInv'
    BY <2>1, <1>1, BeginSendingKeeps
  <2>3. EndsInv'
    BY <2>1, <1>1, <1>2, <1>5 DEF BeginSending, Goto, ends, EndsInv
  <2> QED
    BY <2>2, <2>3 DEF IInv
<1>6. CASE Pipe!Send(reading, "sent") /\ UNCHANGED ends
  <2>1. Send(reading, "sent")
    BY <1>6 DEF Send, Pipe!Send, Goto, Pipe!Goto, Smaller, Pipe!Smaller, Data, Pipe!Data,
       Byte, Pipe!Byte, barrier, Pipe!barrier
  <2>2. pc["sender"] = "send"
    BY <2>1 DEF Send
  <2>3. reading = TRUE
    BY <2>2, <1>1, <1>3, Sending
  <2>4. Send(TRUE, "sent")
    BY <2>1, <2>3
  <2>5. /\ "sent" \in Lines(type, "sender") \cap Labels /\ "sent" \in After(type) \ Ended(type)
        /\ Stage(type, "sent") = Stage(type, "send")
    BY DEF Lines, Labels, After, Ended, Stage, During
  <2>6. SyncInv' /\ TransferInv'
    BY <2>4, <2>5, <1>1, SendKeeps
  <2>7. EndsInv'
    BY <2>4, <1>1, <1>2, <1>3, <1>6 DEF Send, Goto, ends, EndsInv
  <2> QED
    BY <2>6, <2>7 DEF IInv
<1>7. CASE Pipe!Sent /\ UNCHANGED ends
  <2>1. /\ pc["sender"] = "sent" /\ EndIteration("sender", "w_begin", "close")
        /\ UNCHANGED <<barrier, total, channel, received>>
    BY <1>7 DEF Pipe!Sent, Pipe!EndIteration, Pipe!Goto, Pipe!barrier, EndIteration, Goto,
       barrier
  <2>2. /\ {"w_begin", "close"} \subseteq Lines(type, "sender") \cap Labels
        /\ "w_begin" \notin Ended(type) \cup During \cup After(type)
        /\ "close" \in Ended(type) \ (During \cup After(type))
        /\ "sent" \in After(type) \ (Waits \cup During \cup Ended(type))
        /\ Stage(type, "sent") = Rounds(type)
        /\ Stage(type, "w_begin") = 0 /\ Stage(type, "close") = 0
    BY DEF Lines, Labels, After, Ended, Stage, During, Waits, Rounds
  <2>3. SyncInv' /\ TransferInv'
    BY <2>1, <2>2, <1>1, <1>2, EndStep
  <2>4. EndsInv'
    BY <2>1, <1>1, <1>2, <1>3, <1>7 DEF EndIteration, Goto, ends, EndsInv
  <2> QED
    BY <2>3, <2>4 DEF IInv
<1>8. CASE Pipe!CloseWrite
  <2>1. /\ pc["sender"] = "close" /\ Goto("sender", "done") /\ writing' = FALSE
        /\ UNCHANGED <<barrier, iter, total, channel, received, reading>>
    BY <1>8 DEF Pipe!CloseWrite, Pipe!Goto, Pipe!barrier, Goto, barrier
  <2>2. /\ "done" \in Lines(type, "sender") \cap Labels /\ Alike(type, "close", "done")
        /\ "close" \notin Waits /\ Stage(type, "done") = Stage(type, "close")
    BY DEF Lines, Labels, Alike, After, Ended, Stage, During, Waits
  <2>3. SyncInv' /\ TransferInv'
    BY <2>1, <2>2, <1>1, <1>2, MoveKeeps
  <2>4. EndsInv'
    BY <2>1, <1>1, <1>2, <1>3 DEF Goto, EndsInv
  <2> QED
    BY <2>3, <2>4 DEF IInv
<1> QED
  BY <1>4, <1>5, <1>6, <1>7, <1>8 DEF Pipe!Sender, Pipe!SenderWaits, Pipe!ends, ends

\* pipe_bandwidth.cc, the receiver.
LEMMA PipeReceiver ==
    ASSUME IInv, type = "pipe", Pipe!Receiver, UNCHANGED type
    PROVE  IInv'
<1>1. SyncInv /\ TransferInv /\ EndsInv
  BY DEF IInv
<1>2. pc \in [Procs -> Labels] /\ "sender" \in Procs /\ "receiver" \in Procs
  BY <1>1 DEF TransferInv, StreamTypeOK, Procs
<1>3. reading = (pc["receiver"] # "done") /\ writing = (pc["sender"] # "done")
  BY <1>1 DEF EndsInv
<1>4. CASE Pipe!ArriveAt("receiver", "w_begin") /\ UNCHANGED ends
  <2>1. ArriveAt("receiver", "w_begin")
    BY <1>4 DEF ArriveAt, Pipe!ArriveAt, Barrier!Arrive, Pipe!Barrier!Arrive, transfer,
       Pipe!transfer
  <2>2. "w_begin" \in Waits
    BY DEF Waits
  <2>3. SyncInv' /\ TransferInv'
    BY <2>1, <2>2, <1>1, <1>2, ArriveKeeps
  <2>4. EndsInv'
    BY <2>1, <1>1, <1>4 DEF ArriveAt, transfer, ends, EndsInv
  <2> QED
    BY <2>3, <2>4 DEF IInv
<1>5. CASE Pipe!BeginReceiving("w_begin", <<>>) /\ UNCHANGED ends
  <2>1. BeginReceiving("w_begin", <<>>)
    BY <1>5 DEF BeginReceiving, Pipe!BeginReceiving, Barrier!Pass, Pipe!Barrier!Pass, Procs,
       Pipe!Procs, Goto, Pipe!Goto
  <2>2. <<>> \in Seq(Bytes) /\ Len(<<>>) = IF type \in {"tcp", "uds"} THEN DataSize ELSE 0
    OBVIOUS
  <2>3. SyncInv' /\ TransferInv'
    BY <2>1, <2>2, <1>1, BeginReceivingKeeps
  <2>4. EndsInv'
    BY <2>1, <1>1, <1>2, <1>5 DEF BeginReceiving, Goto, ends, EndsInv
  <2> QED
    BY <2>3, <2>4 DEF IInv
<1>6. CASE Pipe!Receive(writing, "verify") /\ UNCHANGED ends
  <2>1. Receive(writing, "verify")
    BY <1>6 DEF Receive, Pipe!Receive, Goto, Pipe!Goto, Smaller, Pipe!Smaller, Larger,
       Pipe!Larger, Placed, Pipe!Placed, barrier, Pipe!barrier
  <2>2. pc["receiver"] = "receive"
    BY <2>1 DEF Receive
  <2>3. channel = <<>> => writing = TRUE
    BY <2>2, <1>1, <1>3, Starving
  <2>4. Receive(TRUE, "verify")
    BY <2>1, <2>3 DEF Receive
  <2>5. /\ "verify" \in Lines(type, "receiver") \cap Labels
        /\ "verify" \in After(type) \ Ended(type)
        /\ Stage(type, "verify") = Stage(type, "receive")
    BY DEF Lines, Labels, After, Ended, Stage, During
  <2>6. SyncInv' /\ TransferInv'
    BY <2>4, <2>5, <1>1, ReceiveKeeps
  <2>7. EndsInv'
    BY <2>4, <1>1, <1>2, <1>3, <1>6 DEF Receive, Goto, ends, EndsInv
  <2> QED
    BY <2>6, <2>7 DEF IInv
<1>7. CASE Pipe!Verify /\ UNCHANGED ends
  <2>1. pc["receiver"] = "verify"
    BY <1>7 DEF Pipe!Verify
  <2>2. Pipe!Verified
    BY <2>1, <1>1, Verifying DEF Verified, Pipe!Verified, Zeros, Pipe!Zeros, Byte, Pipe!Byte
  <2>3. /\ EndIteration("receiver", "w_begin", "close")
        /\ UNCHANGED <<barrier, total, channel, received>>
    BY <2>2, <1>7 DEF Pipe!Verify, Pipe!EndIteration, Pipe!Goto, Pipe!barrier, EndIteration,
       Goto, barrier
  <2>4. /\ {"w_begin", "close"} \subseteq Lines(type, "receiver") \cap Labels
        /\ "w_begin" \notin Ended(type) \cup During \cup After(type)
        /\ "close" \in Ended(type) \ (During \cup After(type))
        /\ "verify" \in After(type) \ (Waits \cup During \cup Ended(type))
        /\ Stage(type, "verify") = Rounds(type)
        /\ Stage(type, "w_begin") = 0 /\ Stage(type, "close") = 0
    BY DEF Lines, Labels, After, Ended, Stage, During, Waits, Rounds
  <2>5. SyncInv' /\ TransferInv'
    BY <2>1, <2>3, <2>4, <1>1, <1>2, EndStep
  <2>6. EndsInv'
    BY <2>1, <2>3, <1>1, <1>2, <1>3, <1>7 DEF EndIteration, Goto, ends, EndsInv
  <2> QED
    BY <2>5, <2>6 DEF IInv
<1>8. CASE Pipe!CloseRead
  <2>1. /\ pc["receiver"] = "close" /\ Goto("receiver", "done") /\ reading' = FALSE
        /\ UNCHANGED <<barrier, iter, total, channel, received, writing>>
    BY <1>8 DEF Pipe!CloseRead, Pipe!Goto, Pipe!barrier, Goto, barrier
  <2>2. /\ "done" \in Lines(type, "receiver") \cap Labels /\ Alike(type, "close", "done")
        /\ "close" \notin Waits /\ Stage(type, "done") = Stage(type, "close")
    BY DEF Lines, Labels, Alike, After, Ended, Stage, During, Waits
  <2>3. SyncInv' /\ TransferInv'
    BY <2>1, <2>2, <1>1, <1>2, MoveKeeps
  <2>4. EndsInv'
    BY <2>1, <1>1, <1>2, <1>3 DEF Goto, EndsInv
  <2> QED
    BY <2>3, <2>4 DEF IInv
<1> QED
  BY <1>4, <1>5, <1>6, <1>7, <1>8 DEF Pipe!Receiver, Pipe!ReceiverWaits, Pipe!ends, ends

\* fifo_bandwidth.cc: who closes leaves nothing in the FIFO that nobody keeps.
LEMMA FifoKeeps ==
    ASSUME IInv, type = "fifo"
    PROVE  /\ pc["sender"] = "close" /\ ~reading => channel = <<>>
           /\ pc["receiver"] = "close" /\ ~writing => channel = <<>>
<1>1. /\ pc \in [Procs -> Labels] /\ "sender" \in Procs /\ "receiver" \in Procs
      /\ iter \in [Procs -> 0 .. Iterations] /\ total \in [Procs -> 0 .. DataSize]
      /\ channel \in Streams("fifo")
  BY DEF IInv, TransferInv, StreamTypeOK, Procs
<1>2. iter["sender"] \in Nat /\ iter["receiver"] \in Nat
  BY <1>1, StreamAssumption
<1>3. InFlight("fifo", channel, iter["sender"], iter["receiver"], At("sender"), At("receiver"))
  BY DEF IInv, TransferInv, StreamInv
<1>4. At("sender") \in 0 .. DataSize /\ At("receiver") \in 0 .. DataSize
  BY <1>1, Placing DEF At
<1>5. \A p \in Procs : pc[p] = "close" => At(p) = DataSize
  BY DEF At, Position, During, After
<1>6. ASSUME NEW p \in Procs, NEW q \in Procs, pc[p] = "close", pc[q] \in {"open", "done"}
      PROVE  iter[p] < iter[q]
  <2>1. passed[p] = iter[p] + 1 /\ passed[q] = iter[q] /\ passed[p] <= arrived[q]
        /\ arrived[q] \in {passed[q], passed[q] + 1}
        /\ (arrived[q] # passed[q] => pc[q] \in Waits)
    BY <1>1, <1>6, StreamAssumption DEF IInv, SyncInv, Returns, Stage, During, After
  <2>2. pc[q] \notin Waits
    BY <1>6 DEF Waits
  <2> QED
    BY <2>1, <2>2, <1>1, StreamAssumption
<1>7. ASSUME pc["sender"] = "close", ~reading
      PROVE  channel = <<>>
  <2>1. pc["receiver"] \in {"open", "done"}
    BY <1>7 DEF IInv, EndsInv
  <2>2. iter["sender"] < iter["receiver"]
    BY <2>1, <1>1, <1>6, <1>7
  <2> QED
    BY <2>2, <1>2, <1>3 DEF InFlight
<1>8. ASSUME pc["receiver"] = "close", ~writing
      PROVE  channel = <<>>
  <2>1. pc["sender"] \in {"open", "done"}
    BY <1>8 DEF IInv, EndsInv
  <2>2. iter["receiver"] < iter["sender"]
    BY <2>1, <1>1, <1>6, <1>8
  <2>3. Holds("fifo", channel, iter["sender"], At("receiver"), DataSize)
    BY <2>2, <1>2, <1>3 DEF InFlight
  <2>4. At("receiver") = DataSize /\ "fifo" \in StreamTypes /\ DataSize \in 0 .. DataSize
    BY <1>1, <1>5, <1>8, StreamAssumption DEF StreamTypes
  <2> QED
    BY <2>3, <2>4, <1>1, <1>2, HeldLength
<1> QED
  BY <1>7, <1>8

\* fifo_bandwidth.cc, the sender.
LEMMA FifoSender ==
    ASSUME IInv, type = "fifo", Fifo!Sender, UNCHANGED type
    PROVE  IInv'
<1>1. SyncInv /\ TransferInv /\ EndsInv
  BY DEF IInv
<1>2. pc \in [Procs -> Labels] /\ "sender" \in Procs /\ "receiver" \in Procs
  BY <1>1 DEF TransferInv, StreamTypeOK, Procs
<1>3. /\ reading = (pc["receiver"] \notin {"open", "done"})
      /\ writing = (pc["sender"] \notin {"open", "done"})
  BY <1>1 DEF EndsInv
<1>4. CASE Fifo!ArriveAt("sender", "w_begin") /\ UNCHANGED ends
  <2>1. ArriveAt("sender", "w_begin")
    BY <1>4 DEF ArriveAt, Fifo!ArriveAt, Barrier!Arrive, Fifo!Barrier!Arrive, transfer,
       Fifo!transfer
  <2>2. "w_begin" \in Waits
    BY DEF Waits
  <2>3. SyncInv' /\ TransferInv'
    BY <2>1, <2>2, <1>1, <1>2, ArriveKeeps
  <2>4. EndsInv'
    BY <2>1, <1>1, <1>4 DEF ArriveAt, transfer, ends, EndsInv
  <2> QED
    BY <2>3, <2>4 DEF IInv
<1>5. CASE Fifo!BeginSending("w_begin") /\ UNCHANGED ends
  <2>1. BeginSending("w_begin")
    BY <1>5 DEF BeginSending, Fifo!BeginSending, Barrier!Pass, Fifo!Barrier!Pass, Procs,
       Fifo!Procs, Goto, Fifo!Goto
  <2>2. SyncInv' /\ TransferInv'
    BY <2>1, <1>1, BeginSendingKeeps
  <2>3. EndsInv'
    BY <2>1, <1>1, <1>2, <1>5 DEF BeginSending, Goto, ends, EndsInv
  <2> QED
    BY <2>2, <2>3 DEF IInv
<1>6. CASE Fifo!Send(reading, "close") /\ UNCHANGED ends
  <2>1. Send(reading, "close")
    BY <1>6 DEF Send, Fifo!Send, Goto, Fifo!Goto, Smaller, Fifo!Smaller, Data, Fifo!Data,
       Byte, Fifo!Byte, barrier, Fifo!barrier
  <2>2. pc["sender"] = "send"
    BY <2>1 DEF Send
  <2>3. reading = TRUE
    BY <2>2, <1>1, <1>3, Sending
  <2>4. Send(TRUE, "close")
    BY <2>1, <2>3
  <2>5. /\ "close" \in Lines(type, "sender") \cap Labels /\ "close" \in After(type) \ Ended(type)
        /\ Stage(type, "close") = Stage(type, "send")
    BY DEF Lines, Labels, After, Ended, Stage, During
  <2>6. SyncInv' /\ TransferInv'
    BY <2>4, <2>5, <1>1, SendKeeps
  <2>7. EndsInv'
    BY <2>4, <1>1, <1>2, <1>3, <1>6 DEF Send, Goto, ends, EndsInv
  <2> QED
    BY <2>6, <2>7 DEF IInv
<1>7. CASE Fifo!OpenWrite
  <2> DEFINE next == IF reading THEN "w_begin" ELSE "opening"
  <2>1. /\ pc["sender"] = "open" /\ Goto("sender", next) /\ writing' = TRUE
        /\ UNCHANGED <<barrier, iter, total, channel, received, reading>>
    BY <1>7 DEF Fifo!OpenWrite, Fifo!Goto, Fifo!barrier, Goto, barrier
  <2>2. /\ next \in Lines(type, "sender") \cap Labels /\ Alike(type, "open", next)
        /\ "open" \notin Waits /\ Stage(type, next) = Stage(type, "open")
        /\ next \notin {"open", "done"}
    BY DEF Lines, Labels, Alike, After, Ended, Stage, During, Waits
  <2> HIDE DEF next
  <2>3. SyncInv' /\ TransferInv'
    BY <2>1, <2>2, <1>1, <1>2, MoveKeeps
  <2>4. EndsInv'
    BY <2>1, <2>2, <1>1, <1>2, <1>3 DEF Goto, EndsInv
  <2> QED
    BY <2>3, <2>4 DEF IInv
<1>8. CASE Fifo!Opened("sender")
  <2>1. /\ pc["sender"] = "opening" /\ Goto("sender", "w_begin")
        /\ UNCHANGED <<barrier, ends, iter, total, channel, received>>
    BY <1>8 DEF Fifo!Opened, Fifo!Goto, Fifo!barrier, Fifo!ends, Goto, barrier, ends
  <2>2. /\ "w_begin" \in Lines(type, "sender") \cap Labels /\ Alike(type, "opening", "w_begin")
        /\ "opening" \notin Waits /\ Stage(type, "w_begin") = Stage(type, "opening")
    BY DEF Lines, Labels, Alike, After, Ended, Stage, During, Waits
  <2>3. SyncInv' /\ TransferInv'
    BY <2>1, <2>2, <1>1, <1>2, MoveKeeps
  <2>4. EndsInv'
    BY <2>1, <1>1, <1>2, <1>3 DEF Goto, ends, EndsInv
  <2> QED
    BY <2>3, <2>4 DEF IInv
<1>9. CASE Fifo!CloseWrite
  <2>1. /\ pc["sender"] = "close" /\ EndIteration("sender", "open", "done") /\ writing' = FALSE
        /\ channel' = IF reading THEN channel ELSE <<>>
        /\ UNCHANGED <<barrier, total, received, reading>>
    BY <1>9 DEF Fifo!CloseWrite, Fifo!Kept, Fifo!EndIteration, Fifo!Goto, Fifo!barrier,
       EndIteration, Goto, barrier
  <2>2. channel' = channel
    BY <2>1, FifoKeeps
  <2>3. /\ {"open", "done"} \subseteq Lines(type, "sender") \cap Labels
        /\ "open" \notin Ended(type) \cup During \cup After(type)
        /\ "done" \in Ended(type) \ (During \cup After(type))
        /\ "close" \in After(type) \ (Waits \cup During \cup Ended(type))
        /\ Stage(type, "close") = Rounds(type)
        /\ Stage(type, "open") = 0 /\ Stage(type, "done") = 0
    BY DEF Lines, Labels, After, Ended, Stage, During, Waits, Rounds
  <2>4. SyncInv' /\ TransferInv'
    BY <2>1, <2>2, <2>3, <1>1, <1>2, EndStep
  <2>5. EndsInv'
    BY <2>1, <1>1, <1>2, <1>3 DEF EndIteration, Goto, EndsInv
  <2> QED
    BY <2>4, <2>5 DEF IInv
<1> QED
  BY <1>4, <1>5, <1>6, <1>7, <1>8, <1>9 DEF Fifo!Sender, Fifo!SenderWaits, Fifo!ends, ends

\* fifo_bandwidth.cc, the receiver.
LEMMA FifoReceiver ==
    ASSUME IInv, type = "fifo", Fifo!Receiver, UNCHANGED type
    PROVE  IInv'
<1>1. SyncInv /\ TransferInv /\ EndsInv
  BY DEF IInv
<1>2. pc \in [Procs -> Labels] /\ "sender" \in Procs /\ "receiver" \in Procs
  BY <1>1 DEF TransferInv, StreamTypeOK, Procs
<1>3. /\ reading = (pc["receiver"] \notin {"open", "done"})
      /\ writing = (pc["sender"] \notin {"open", "done"})
  BY <1>1 DEF EndsInv
<1>4. CASE Fifo!ArriveAt("receiver", "w_begin") /\ UNCHANGED ends
  <2>1. ArriveAt("receiver", "w_begin")
    BY <1>4 DEF ArriveAt, Fifo!ArriveAt, Barrier!Arrive, Fifo!Barrier!Arrive, transfer,
       Fifo!transfer
  <2>2. "w_begin" \in Waits
    BY DEF Waits
  <2>3. SyncInv' /\ TransferInv'
    BY <2>1, <2>2, <1>1, <1>2, ArriveKeeps
  <2>4. EndsInv'
    BY <2>1, <1>1, <1>4 DEF ArriveAt, transfer, ends, EndsInv
  <2> QED
    BY <2>3, <2>4 DEF IInv
<1>5. CASE Fifo!BeginReceiving("w_begin", <<>>) /\ UNCHANGED ends
  <2>1. BeginReceiving("w_begin", <<>>)
    BY <1>5 DEF BeginReceiving, Fifo!BeginReceiving, Barrier!Pass, Fifo!Barrier!Pass, Procs,
       Fifo!Procs, Goto, Fifo!Goto
  <2>2. <<>> \in Seq(Bytes) /\ Len(<<>>) = IF type \in {"tcp", "uds"} THEN DataSize ELSE 0
    OBVIOUS
  <2>3. SyncInv' /\ TransferInv'
    BY <2>1, <2>2, <1>1, BeginReceivingKeeps
  <2>4. EndsInv'
    BY <2>1, <1>1, <1>2, <1>5 DEF BeginReceiving, Goto, ends, EndsInv
  <2> QED
    BY <2>3, <2>4 DEF IInv
<1>6. CASE Fifo!Receive(writing, "verify") /\ UNCHANGED ends
  <2>1. Receive(writing, "verify")
    BY <1>6 DEF Receive, Fifo!Receive, Goto, Fifo!Goto, Smaller, Fifo!Smaller, Larger,
       Fifo!Larger, Placed, Fifo!Placed, barrier, Fifo!barrier
  <2>2. pc["receiver"] = "receive"
    BY <2>1 DEF Receive
  <2>3. channel = <<>> => writing = TRUE
    BY <2>2, <1>1, <1>3, Starving
  <2>4. Receive(TRUE, "verify")
    BY <2>1, <2>3 DEF Receive
  <2>5. /\ "verify" \in Lines(type, "receiver") \cap Labels
        /\ "verify" \in After(type) \ Ended(type)
        /\ Stage(type, "verify") = Stage(type, "receive")
    BY DEF Lines, Labels, After, Ended, Stage, During
  <2>6. SyncInv' /\ TransferInv'
    BY <2>4, <2>5, <1>1, ReceiveKeeps
  <2>7. EndsInv'
    BY <2>4, <1>1, <1>2, <1>3, <1>6 DEF Receive, Goto, ends, EndsInv
  <2> QED
    BY <2>6, <2>7 DEF IInv
<1>7. CASE Fifo!Verify
  <2>1. pc["receiver"] = "verify"
    BY <1>7 DEF Fifo!Verify
  <2>2. Fifo!Verified
    BY <2>1, <1>1, Verifying DEF Verified, Fifo!Verified, Zeros, Fifo!Zeros, Byte, Fifo!Byte
  <2>3. Goto("receiver", "close") /\ UNCHANGED <<barrier, iter, total, channel, received, ends>>
    BY <2>2, <1>7 DEF Fifo!Verify, Fifo!Goto, Fifo!barrier, Fifo!ends, Goto, barrier, ends
  <2>4. /\ "close" \in Lines(type, "receiver") \cap Labels /\ Alike(type, "verify", "close")
        /\ "verify" \notin Waits /\ Stage(type, "close") = Stage(type, "verify")
    BY DEF Lines, Labels, Alike, After, Ended, Stage, During, Waits
  <2>5. SyncInv' /\ TransferInv'
    BY <2>1, <2>3, <2>4, <1>1, <1>2, MoveKeeps
  <2>6. EndsInv'
    BY <2>1, <2>3, <1>1, <1>2, <1>3 DEF Goto, ends, EndsInv
  <2> QED
    BY <2>5, <2>6 DEF IInv
<1>8. CASE Fifo!OpenRead
  <2> DEFINE next == IF writing THEN "w_begin" ELSE "opening"
  <2>1. /\ pc["receiver"] = "open" /\ Goto("receiver", next) /\ reading' = TRUE
        /\ UNCHANGED <<barrier, iter, total, channel, received, writing>>
    BY <1>8 DEF Fifo!OpenRead, Fifo!Goto, Fifo!barrier, Goto, barrier
  <2>2. /\ next \in Lines(type, "receiver") \cap Labels /\ Alike(type, "open", next)
        /\ "open" \notin Waits /\ Stage(type, next) = Stage(type, "open")
        /\ next \notin {"open", "done"}
    BY DEF Lines, Labels, Alike, After, Ended, Stage, During, Waits
  <2> HIDE DEF next
  <2>3. SyncInv' /\ TransferInv'
    BY <2>1, <2>2, <1>1, <1>2, MoveKeeps
  <2>4. EndsInv'
    BY <2>1, <2>2, <1>1, <1>2, <1>3 DEF Goto, EndsInv
  <2> QED
    BY <2>3, <2>4 DEF IInv
<1>9. CASE Fifo!Opened("receiver")
  <2>1. /\ pc["receiver"] = "opening" /\ Goto("receiver", "w_begin")
        /\ UNCHANGED <<barrier, ends, iter, total, channel, received>>
    BY <1>9 DEF Fifo!Opened, Fifo!Goto, Fifo!barrier, Fifo!ends, Goto, barrier, ends
  <2>2. /\ "w_begin" \in Lines(type, "receiver") \cap Labels /\ Alike(type, "opening", "w_begin")
        /\ "opening" \notin Waits /\ Stage(type, "w_begin") = Stage(type, "opening")
    BY DEF Lines, Labels, Alike, After, Ended, Stage, During, Waits
  <2>3. SyncInv' /\ TransferInv'
    BY <2>1, <2>2, <1>1, <1>2, MoveKeeps
  <2>4. EndsInv'
    BY <2>1, <1>1, <1>2, <1>3 DEF Goto, ends, EndsInv
  <2> QED
    BY <2>3, <2>4 DEF IInv
<1>10. CASE Fifo!CloseRead
  <2>1. /\ pc["receiver"] = "close" /\ EndIteration("receiver", "open", "done") /\ reading' = FALSE
        /\ channel' = IF writing THEN channel ELSE <<>>
        /\ UNCHANGED <<barrier, total, received, writing>>
    BY <1>10 DEF Fifo!CloseRead, Fifo!Kept, Fifo!EndIteration, Fifo!Goto, Fifo!barrier,
       EndIteration, Goto, barrier
  <2>2. channel' = channel
    BY <2>1, FifoKeeps
  <2>3. /\ {"open", "done"} \subseteq Lines(type, "receiver") \cap Labels
        /\ "open" \notin Ended(type) \cup During \cup After(type)
        /\ "done" \in Ended(type) \ (During \cup After(type))
        /\ "close" \in After(type) \ (Waits \cup During \cup Ended(type))
        /\ Stage(type, "close") = Rounds(type)
        /\ Stage(type, "open") = 0 /\ Stage(type, "done") = 0
    BY DEF Lines, Labels, After, Ended, Stage, During, Waits, Rounds
  <2>4. SyncInv' /\ TransferInv'
    BY <2>1, <2>2, <2>3, <1>1, <1>2, EndStep
  <2>5. EndsInv'
    BY <2>1, <1>1, <1>2, <1>3 DEF EndIteration, Goto, EndsInv
  <2> QED
    BY <2>4, <2>5 DEF IInv
<1> QED
  BY <1>4, <1>5, <1>6, <1>7, <1>8, <1>9, <1>10 DEF Fifo!Receiver, Fifo!ReceiverWaits,
     Fifo!ends, ends

\* mq_bandwidth.cc.
LEMMA MqSender ==
    ASSUME IInv, type = "mq", Mq!Sender, UNCHANGED type
    PROVE  IInv'
<1>1. SyncInv /\ TransferInv
  BY DEF IInv
<1>2. pc \in [Procs -> Labels] /\ "sender" \in Procs
  BY <1>1 DEF TransferInv, StreamTypeOK, Procs
<1> SUFFICES SyncInv' /\ TransferInv'
  BY DEF IInv, EndsInv
<1>3. CASE Mq!ArriveAt("sender", "w_begin")
  <2>1. ArriveAt("sender", "w_begin")
    BY <1>3 DEF ArriveAt, Mq!ArriveAt, Barrier!Arrive, Mq!Barrier!Arrive, transfer, Mq!transfer
  <2>2. "w_begin" \in Waits
    BY DEF Waits
  <2> QED
    BY <2>1, <2>2, <1>1, <1>2, ArriveKeeps
<1>4. CASE Mq!BeginSending("w_begin")
  <2>1. BeginSending("w_begin")
    BY <1>4 DEF BeginSending, Mq!BeginSending, Barrier!Pass, Mq!Barrier!Pass, Procs, Mq!Procs,
       Goto, Mq!Goto
  <2> QED
    BY <2>1, <1>1, BeginSendingKeeps
<1>5. CASE Mq!MqSend
  BY <1>5, <1>1, MqSendKeeps
<1>6. CASE Mq!MqClose
  <2>1. /\ pc["sender"] = "close" /\ EndIteration("sender", "w_begin", "done")
        /\ UNCHANGED <<barrier, total, channel, received>>
    BY <1>6 DEF Mq!MqClose, Mq!EndIteration, Mq!Goto, Mq!barrier, EndIteration, Goto, barrier
  <2>2. /\ {"w_begin", "done"} \subseteq Lines(type, "sender") \cap Labels
        /\ "w_begin" \notin Ended(type) \cup During \cup After(type)
        /\ "done" \in Ended(type) \ (During \cup After(type))
        /\ "close" \in After(type) \ (Waits \cup During \cup Ended(type))
        /\ Stage(type, "close") = Rounds(type)
        /\ Stage(type, "w_begin") = 0 /\ Stage(type, "done") = 0
    BY DEF Lines, Labels, After, Ended, Stage, During, Waits, Rounds
  <2> QED
    BY <2>1, <2>2, <1>1, <1>2, EndStep
<1> QED
  BY <1>3, <1>4, <1>5, <1>6 DEF Mq!Sender, Mq!SenderWaits

\* mq_bandwidth.cc, the receiver.
LEMMA MqReceiver ==
    ASSUME IInv, type = "mq", Mq!Receiver, UNCHANGED type
    PROVE  IInv'
<1>1. SyncInv /\ TransferInv
  BY DEF IInv
<1>2. pc \in [Procs -> Labels] /\ "receiver" \in Procs
  BY <1>1 DEF TransferInv, StreamTypeOK, Procs
<1> SUFFICES SyncInv' /\ TransferInv'
  BY DEF IInv, EndsInv
<1>3. CASE Mq!ArriveAt("receiver", "w_begin")
  <2>1. ArriveAt("receiver", "w_begin")
    BY <1>3 DEF ArriveAt, Mq!ArriveAt, Barrier!Arrive, Mq!Barrier!Arrive, transfer, Mq!transfer
  <2>2. "w_begin" \in Waits
    BY DEF Waits
  <2> QED
    BY <2>1, <2>2, <1>1, <1>2, ArriveKeeps
<1>4. CASE Mq!BeginReceiving("w_begin", <<>>)
  <2>1. BeginReceiving("w_begin", <<>>)
    BY <1>4 DEF BeginReceiving, Mq!BeginReceiving, Barrier!Pass, Mq!Barrier!Pass, Procs,
       Mq!Procs, Goto, Mq!Goto
  <2>2. <<>> \in Seq(Bytes) /\ Len(<<>>) = IF type \in {"tcp", "uds"} THEN DataSize ELSE 0
    OBVIOUS
  <2> QED
    BY <2>1, <2>2, <1>1, BeginReceivingKeeps
<1>5. CASE Mq!MqReceive
  BY <1>5, <1>1, MqReceiveKeeps
<1>6. CASE Mq!Verify
  <2>1. pc["receiver"] = "verify"
    BY <1>6 DEF Mq!Verify
  <2>2. Mq!Verified
    BY <2>1, <1>1, Verifying DEF Verified, Mq!Verified, Zeros, Mq!Zeros, Byte, Mq!Byte
  <2>3. /\ EndIteration("receiver", "w_begin", "done")
        /\ UNCHANGED <<barrier, total, channel, received>>
    BY <2>2, <1>6 DEF Mq!Verify, Mq!EndIteration, Mq!Goto, Mq!barrier, EndIteration, Goto,
       barrier
  <2>4. /\ {"w_begin", "done"} \subseteq Lines(type, "receiver") \cap Labels
        /\ "w_begin" \notin Ended(type) \cup During \cup After(type)
        /\ "done" \in Ended(type) \ (During \cup After(type))
        /\ "verify" \in After(type) \ (Waits \cup During \cup Ended(type))
        /\ Stage(type, "verify") = Rounds(type)
        /\ Stage(type, "w_begin") = 0 /\ Stage(type, "done") = 0
    BY DEF Lines, Labels, After, Ended, Stage, During, Waits, Rounds
  <2> QED
    BY <2>1, <2>3, <2>4, <1>1, <1>2, EndStep
<1> QED
  BY <1>3, <1>4, <1>5, <1>6 DEF Mq!Receiver, Mq!ReceiverWaits
-----------------------------------------------------------------------------
\* Where the receiver of tcp_bandwidth.cc is when the sender connects, waits or
\* closes: what its three waits of an iteration order.
LEMMA TcpPlaces ==
    ASSUME SyncInv, TransferInv, type = "tcp"
    PROVE  LET s == pc["sender"]
               r == pc["receiver"]
           IN  /\ s = "connect" => /\ iter["sender"] = iter["receiver"]
                                   /\ r \in {"w_ready", "accept", "w_begin"}
               /\ s = "w_begin" => /\ r # "listen"
                                   /\ r = "accept" => iter["sender"] = iter["receiver"]
               /\ s = "w_begin" /\ passed["sender"] < arrived["sender"]
                  /\ arrived["sender"] <= arrived["receiver"] => r \notin {"w_ready", "accept"}
               /\ s = "close" => r \notin {"w_begin", "receive"}
<1> DEFINE s == iter["sender"]
           r == iter["receiver"]
           f == Stage("tcp", pc["sender"])
           g == Stage("tcp", pc["receiver"])
<1>1. /\ s \in Nat /\ r \in Nat /\ pc["receiver"] \in Lines("tcp", "receiver")
      /\ "sender" \in Procs /\ "receiver" \in Procs
  BY StreamAssumption DEF TransferInv, StreamTypeOK, LoopInv, Procs
<1>2. /\ passed["sender"] = 3 * s + f /\ passed["receiver"] = 3 * r + g
      /\ arrived["sender"] \in {3 * s + f, 3 * s + f + 1}
      /\ arrived["receiver"] \in {3 * r + g, 3 * r + g + 1}
      /\ arrived["sender"] # 3 * s + f => pc["sender"] \in Waits
      /\ arrived["receiver"] # 3 * r + g => pc["receiver"] \in Waits
      /\ 3 * s + f <= arrived["receiver"] /\ 3 * r + g <= arrived["sender"]
  BY <1>1 DEF SyncInv, Returns
<1>3. f \in 0 .. 3 /\ g \in 0 .. 3
  BY Returning DEF StreamTypes
<1>4. /\ pc["sender"] \in {"connect", "w_begin"} => f = 1
      /\ pc["sender"] = "close" => f = 3
      /\ pc["receiver"] \in {"listen", "w_ready", "done"} => g = 0
      /\ pc["receiver"] \in {"accept", "w_begin"} => g = 1
      /\ pc["receiver"] \in {"receive", "w_end"} => g = 2
      /\ pc["receiver"] \in {"verify", "close"} => g = 3
  BY DEF Stage, During, After
<1>5. /\ pc["sender"] \in Waits => pc["sender"] \notin {"connect", "close"}
      /\ pc["receiver"] \in Waits => pc["receiver"] \in {"w_ready", "w_begin", "w_end"}
      /\ pc["receiver"] \in {"w_ready", "w_begin", "w_end", "close", "done", "listen", "accept",
                             "receive", "verify"}
  BY <1>1 DEF Waits, Lines
<1> HIDE DEF s, r, f, g
<1>6. ASSUME pc["sender"] = "connect"
      PROVE  s = r /\ pc["receiver"] \in {"w_ready", "accept", "w_begin"}
  <2>1. arrived["sender"] = 3 * s + 1 /\ f = 1
    BY <1>2, <1>4, <1>5, <1>6
  <2>2. CASE pc["receiver"] \in {"listen", "done"}
    BY <2>1, <2>2, <1>1, <1>2, <1>4, <1>5
  <2>3. CASE pc["receiver"] \in {"w_ready", "accept", "w_begin"}
    BY <2>1, <2>3, <1>1, <1>2, <1>4, <1>5
  <2>4. CASE pc["receiver"] \in {"receive", "w_end", "verify", "close"}
    BY <2>1, <2>4, <1>1, <1>2, <1>4, <1>5
  <2> QED
    BY <2>2, <2>3, <2>4, <1>5
<1>7. ASSUME pc["sender"] = "w_begin"
      PROVE  pc["receiver"] # "listen" /\ (pc["receiver"] = "accept" => s = r)
  BY <1>1, <1>2, <1>4, <1>5, <1>7
<1>8. ASSUME pc["sender"] = "w_begin", passed["sender"] < arrived["sender"],
             arrived["sender"] <= arrived["receiver"]
      PROVE  pc["receiver"] \notin {"w_ready", "accept"}
  <2>1. arrived["sender"] = 3 * s + 2
    BY <1>1, <1>2, <1>4, <1>8
  <2>2. CASE pc["receiver"] = "w_ready"
    BY <2>1, <2>2, <1>1, <1>2, <1>4, <1>8
  <2>3. CASE pc["receiver"] = "accept"
    BY <2>1, <2>3, <1>1, <1>2, <1>4, <1>5, <1>8
  <2> QED
    BY <2>2, <2>3
<1>9. ASSUME pc["sender"] = "close"
      PROVE  pc["receiver"] \notin {"w_begin", "receive"}
  BY <1>1, <1>2, <1>4, <1>5, <1>9
<1> QED
  BY <1>6, <1>7, <1>8, <1>9 DEF s, r

\* The same of uds_bandwidth.cc, with two waits.
LEMMA UdsPlaces ==
    ASSUME SyncInv, TransferInv, type = "uds"
    PROVE  LET s == pc["sender"]
               r == pc["receiver"]
           IN  /\ s = "connect" =>
                     /\ r = "accept" => iter["sender"] = iter["receiver"]
                     /\ r \in {"w_end", "close", "close_listener"} =>
                            iter["sender"] = iter["receiver"] + 1
               /\ s = "w_begin" /\ passed["sender"] < arrived["sender"]
                  /\ arrived["sender"] <= arrived["receiver"] => r \in {"w_begin", "receive"}
               /\ s = "w_begin" /\ r = "w_end" => iter["sender"] # iter["receiver"]
               /\ s = "close" /\ iter["sender"] = iter["receiver"] =>
                     r \notin {"w_begin", "receive"}
<1> DEFINE s == iter["sender"]
           r == iter["receiver"]
           f == Stage("uds", pc["sender"])
           g == Stage("uds", pc["receiver"])
<1>1. /\ s \in Nat /\ r \in Nat /\ pc["receiver"] \in Lines("uds", "receiver")
      /\ "sender" \in Procs /\ "receiver" \in Procs
      /\ total \in [Procs -> 0 .. DataSize]
  BY StreamAssumption DEF TransferInv, StreamTypeOK, LoopInv, Procs
<1>2. /\ passed["sender"] = 2 * s + f /\ passed["receiver"] = 2 * r + g
      /\ arrived["sender"] \in {2 * s + f, 2 * s + f + 1}
      /\ arrived["receiver"] \in {2 * r + g, 2 * r + g + 1}
      /\ arrived["sender"] # 2 * s + f => pc["sender"] \in Waits
      /\ arrived["receiver"] # 2 * r + g => pc["receiver"] \in Waits
      /\ 2 * s + f <= arrived["receiver"] /\ 2 * r + g <= arrived["sender"]
  BY <1>1 DEF SyncInv, Returns
<1>3. f \in 0 .. 3 /\ g \in 0 .. 3
  BY Returning DEF StreamTypes
<1>4. /\ pc["sender"] \in {"connect", "w_begin"} => f = 0
      /\ pc["sender"] = "close" => f = 2
      /\ pc["receiver"] \in {"bind", "listen", "accept", "w_begin", "done"} => g = 0
      /\ pc["receiver"] \in {"receive", "w_end"} => g = 1
      /\ pc["receiver"] \in {"close", "close_listener", "verify"} => g = 2
  BY DEF Stage, During, After
<1>5. /\ pc["sender"] \in Waits => pc["sender"] \notin {"connect", "close"}
      /\ pc["receiver"] \in Waits => pc["receiver"] \in {"w_begin", "w_end"}
      /\ pc["receiver"] \in {"bind", "listen", "accept", "w_begin", "done", "receive", "w_end",
                             "close", "close_listener", "verify"}
  BY <1>1 DEF Waits, Lines
<1>6. pc["sender"] = "w_begin" /\ pc["receiver"] = "w_end" => s # r
  <2> SUFFICES ASSUME pc["sender"] = "w_begin", pc["receiver"] = "w_end", s = r PROVE FALSE
    OBVIOUS
  <2>1. At("sender") = 0 /\ At("receiver") = DataSize
    BY DEF At, Position, During, After
  <2>2. At("receiver") <= At("sender")
    BY <2>1, <1>1 DEF TransferInv, StreamInv, InFlight
  <2> QED
    BY <2>1, <2>2, StreamAssumption
<1> HIDE DEF s, r, f, g
<1>7. ASSUME pc["sender"] = "connect"
      PROVE  /\ pc["receiver"] = "accept" => s = r
             /\ pc["receiver"] \in {"w_end", "close", "close_listener"} => s = r + 1
  <2>1. arrived["sender"] = 2 * s /\ f = 0
    BY <1>1, <1>2, <1>4, <1>5, <1>7
  <2>2. CASE pc["receiver"] = "accept"
    BY <2>1, <2>2, <1>1, <1>2, <1>4, <1>5
  <2>3. CASE pc["receiver"] = "w_end"
    BY <2>1, <2>3, <1>1, <1>2, <1>4, <1>5
  <2>4. CASE pc["receiver"] \in {"close", "close_listener"}
    BY <2>1, <2>4, <1>1, <1>2, <1>4, <1>5
  <2> QED
    BY <2>2, <2>3, <2>4
<1>8. ASSUME pc["sender"] = "w_begin", passed["sender"] < arrived["sender"],
             arrived["sender"] <= arrived["receiver"]
      PROVE  pc["receiver"] \in {"w_begin", "receive"}
  <2>1. arrived["sender"] = 2 * s + 1
    BY <1>1, <1>2, <1>4, <1>8
  <2>2. CASE pc["receiver"] \in {"bind", "listen", "accept", "done"}
    BY <2>1, <2>2, <1>1, <1>2, <1>4, <1>5, <1>8
  <2>3. CASE pc["receiver"] = "w_end"
    BY <2>1, <2>3, <1>1, <1>2, <1>4, <1>6, <1>8
  <2>4. CASE pc["receiver"] \in {"close", "close_listener", "verify"}
    BY <2>1, <2>4, <1>1, <1>2, <1>4, <1>5, <1>8
  <2> QED
    BY <2>2, <2>3, <2>4, <1>5
<1>9. ASSUME pc["sender"] = "close", s = r
      PROVE  pc["receiver"] \notin {"w_begin", "receive"}
  BY <1>1, <1>2, <1>4, <1>5, <1>9
<1> QED
  BY <1>6, <1>7, <1>8, <1>9 DEF s, r

\* tcp_bandwidth.cc, the sender.
LEMMA TcpSender ==
    ASSUME IInv, type = "tcp", Tcp!Sender, UNCHANGED type
    PROVE  IInv'
<1>1. SyncInv /\ TransferInv /\ TcpInv
  BY DEF IInv
<1>2. /\ pc \in [Procs -> Labels] /\ "sender" \in Procs /\ "receiver" \in Procs
      /\ iter \in [Procs -> 0 .. Iterations]
  BY <1>1 DEF TransferInv, StreamTypeOK, Procs
<1> SUFFICES SyncInv' /\ TransferInv' /\ TcpInv'
  BY DEF IInv, EndsInv
<1> DEFINE sockets == <<listener, connected, pending, accepted, shut>>
<1>3. ASSUME NEW w \in {"w_ready", "w_begin", "w_end"}, Tcp!ArriveAt("sender", w),
             UNCHANGED sockets
      PROVE  SyncInv' /\ TransferInv' /\ TcpInv'
  <2>1. ArriveAt("sender", w)
    BY <1>3 DEF ArriveAt, Tcp!ArriveAt, Barrier!Arrive, Tcp!Barrier!Arrive, transfer,
       Tcp!transfer
  <2>2. SyncInv' /\ TransferInv'
    BY <2>1, <1>1, <1>2, ArriveKeeps DEF Waits
  <2>3. TcpInv'
    BY <2>1, <1>1, <1>3 DEF ArriveAt, transfer, TcpInv
  <2> QED
    BY <2>2, <2>3
<1>4. CASE Tcp!ReturnFrom("sender", "w_ready", "connect") /\ UNCHANGED sockets
  <2>1. ReturnFrom("sender", "w_ready", "connect")
    BY <1>4 DEF ReturnFrom, Tcp!ReturnFrom, Barrier!Pass, Tcp!Barrier!Pass, Procs, Tcp!Procs,
       Goto, Tcp!Goto
  <2>2. /\ "connect" \in Lines(type, "sender") \cap Labels /\ "w_ready" \in Waits
        /\ Alike(type, "w_ready", "connect")
        /\ Stage(type, "connect") = Stage(type, "w_ready") + 1
    BY DEF Lines, Labels, Alike, After, Ended, Stage, During, Waits
  <2>3. SyncInv' /\ TransferInv'
    BY <2>1, <2>2, <1>1, <1>2, ReturnKeeps
  <2>4. TcpInv'
    BY <2>1, <1>1, <1>2, <1>4 DEF ReturnFrom, Goto, TcpInv
  <2> QED
    BY <2>3, <2>4
<1>5. CASE Tcp!BeginSending("w_begin") /\ UNCHANGED sockets
  <2>1. BeginSending("w_begin")
    BY <1>5 DEF BeginSending, Tcp!BeginSending, Barrier!Pass, Tcp!Barrier!Pass, Procs,
       Tcp!Procs, Goto, Tcp!Goto
  <2>2. SyncInv' /\ TransferInv'
    BY <2>1, <1>1, BeginSendingKeeps
  <2>3. pc["receiver"] \notin {"w_ready", "accept"}
    BY <2>1, <1>1, <1>2, TcpPlaces DEF BeginSending, Barrier!Pass
  <2>4. TcpInv'
    BY <2>1, <2>3, <1>1, <1>2, <1>5 DEF BeginSending, Goto, TcpInv
  <2> QED
    BY <2>2, <2>4
<1>6. CASE Tcp!ReturnFrom("sender", "w_end", "close") /\ UNCHANGED sockets
  <2>1. ReturnFrom("sender", "w_end", "close")
    BY <1>6 DEF ReturnFrom, Tcp!ReturnFrom, Barrier!Pass, Tcp!Barrier!Pass, Procs, Tcp!Procs,
       Goto, Tcp!Goto
  <2>2. /\ "close" \in Lines(type, "sender") \cap Labels /\ "w_end" \in Waits
        /\ Alike(type, "w_end", "close")
        /\ Stage(type, "close") = Stage(type, "w_end") + 1
    BY DEF Lines, Labels, Alike, After, Ended, Stage, During, Waits
  <2>3. SyncInv' /\ TransferInv'
    BY <2>1, <2>2, <1>1, <1>2, ReturnKeeps
  <2>4. TcpInv'
    BY <2>1, <1>1, <1>2, <1>6 DEF ReturnFrom, Goto, TcpInv
  <2> QED
    BY <2>3, <2>4
<1>7. CASE Tcp!Send(pending \/ accepted = connected, "shutdown") /\ UNCHANGED sockets
  <2>1. pc["sender"] = "send"
    BY <1>7 DEF Tcp!Send
  <2>2. accepted = connected
    BY <2>1, <1>1, <1>2, Sending DEF TcpInv
  <2>3. Send(TRUE, "shutdown")
    BY <2>2, <1>7 DEF Send, Tcp!Send, Goto, Tcp!Goto, Smaller, Tcp!Smaller, Data, Tcp!Data,
       Byte, Tcp!Byte, barrier, Tcp!barrier
  <2>4. /\ "shutdown" \in Lines(type, "sender") \cap Labels
        /\ "shutdown" \in After(type) \ Ended(type)
        /\ Stage(type, "shutdown") = Stage(type, "send")
    BY DEF Lines, Labels, After, Ended, Stage, During
  <2>5. SyncInv' /\ TransferInv'
    BY <2>3, <2>4, <1>1, SendKeeps
  <2>6. /\ pc'["sender"] \in {"send", "shutdown"} /\ pc'["receiver"] = pc["receiver"]
        /\ iter' = iter /\ UNCHANGED sockets
    BY <2>3, <1>2, <1>7 DEF Send, Goto
  <2>7. TcpInv'
    BY <2>1, <2>6, <1>1 DEF TcpInv
  <2> QED
    BY <2>5, <2>7
<1>8. CASE Tcp!Connect
  <2>1. /\ pc["sender"] = "connect" /\ connected' = listener /\ pending' = TRUE /\ shut' = FALSE
        /\ Goto("sender", "w_begin")
        /\ UNCHANGED <<barrier, iter, total, channel, received, listener, accepted>>
    BY <1>8 DEF Tcp!Connect, Tcp!Goto, Tcp!barrier, Goto, barrier
  <2>2. /\ "w_begin" \in Lines(type, "sender") \cap Labels /\ Alike(type, "connect", "w_begin")
        /\ "connect" \notin Waits /\ Stage(type, "w_begin") = Stage(type, "connect")
    BY DEF Lines, Labels, Alike, After, Ended, Stage, During, Waits
  <2>3. SyncInv' /\ TransferInv'
    BY <2>1, <2>2, <1>1, <1>2, MoveKeeps
  <2>4. /\ iter["sender"] = iter["receiver"] /\ pc["receiver"] \in {"w_ready", "accept", "w_begin"}
    BY <2>1, <1>1, TcpPlaces
  <2>5. pc["receiver"] \in {"w_ready", "accept"} /\ listener = iter["sender"] + 1
    <3>1. connected # iter["receiver"] + 1
      BY <2>1, <1>1, <1>2, StreamAssumption DEF TcpInv
    <3> QED
      BY <3>1, <2>4, <1>1 DEF TcpInv
  <2>6. TcpInv'
    BY <2>1, <2>5, <1>1, <1>2 DEF Goto, TcpInv
  <2> QED
    BY <2>3, <2>6
<1>9. CASE Tcp!Shutdown
  <2>1. /\ pc["sender"] = "shutdown" /\ shut' = TRUE /\ Goto("sender", "w_end")
        /\ UNCHANGED <<barrier, iter, total, channel, received, listener, connected, pending,
                       accepted>>
    BY <1>9 DEF Tcp!Shutdown, Tcp!Goto, Tcp!barrier, Goto, barrier
  <2>2. /\ "w_end" \in Lines(type, "sender") \cap Labels /\ Alike(type, "shutdown", "w_end")
        /\ "shutdown" \notin Waits /\ Stage(type, "w_end") = Stage(type, "shutdown")
    BY DEF Lines, Labels, Alike, After, Ended, Stage, During, Waits
  <2>3. SyncInv' /\ TransferInv'
    BY <2>1, <2>2, <1>1, <1>2, MoveKeeps
  <2>4. TcpInv'
    BY <2>1, <1>1, <1>2 DEF Goto, TcpInv
  <2> QED
    BY <2>3, <2>4
<1>10. CASE Tcp!Close
  <2>1. /\ pc["sender"] = "close" /\ connected' = 0 /\ EndIteration("sender", "w_ready", "done")
        /\ UNCHANGED <<barrier, total, channel, received, listener, pending, accepted, shut>>
    BY <1>10 DEF Tcp!Close, Tcp!EndIteration, Tcp!Goto, Tcp!barrier, EndIteration, Goto, barrier
  <2>2. /\ {"w_ready", "done"} \subseteq Lines(type, "sender") \cap Labels
        /\ "w_ready" \notin Ended(type) \cup During \cup After(type)
        /\ "done" \in Ended(type) \ (During \cup After(type))
        /\ "close" \in After(type) \ (Waits \cup During \cup Ended(type))
        /\ Stage(type, "close") = Rounds(type)
        /\ Stage(type, "w_ready") = 0 /\ Stage(type, "done") = 0
    BY DEF Lines, Labels, After, Ended, Stage, During, Waits, Rounds
  <2>3. SyncInv' /\ TransferInv'
    BY <2>1, <2>2, <1>1, <1>2, EndStep
  <2>4. pc["receiver"] \notin {"w_begin", "receive"}
    BY <2>1, <1>1, TcpPlaces
  <2>5. /\ pc'["sender"] \in {"w_ready", "done"} /\ pc'["receiver"] = pc["receiver"]
        /\ iter'["receiver"] = iter["receiver"]
    BY <2>1, <1>2 DEF EndIteration, Goto
  <2>6. TcpInv'
    BY <2>1, <2>4, <2>5, <1>1 DEF TcpInv
  <2> QED
    BY <2>3, <2>6
<1>11. Tcp!Sender => \/ \E w \in {"w_ready", "w_begin", "w_end"} :
                            Tcp!ArriveAt("sender", w) /\ UNCHANGED sockets
                     \/ Tcp!ReturnFrom("sender", "w_ready", "connect") /\ UNCHANGED sockets
                     \/ Tcp!BeginSending("w_begin") /\ UNCHANGED sockets
                     \/ Tcp!ReturnFrom("sender", "w_end", "close") /\ UNCHANGED sockets
                     \/ Tcp!Send(pending \/ accepted = connected, "shutdown") /\ UNCHANGED sockets
                     \/ Tcp!Connect \/ Tcp!Shutdown \/ Tcp!Close
  BY Zenon DEF Tcp!Sender, Tcp!SenderWaits, Tcp!sockets
<1> QED
  BY <1>3, <1>4, <1>5, <1>6, <1>7, <1>8, <1>9, <1>10, <1>11

\* tcp_bandwidth.cc, the receiver.
LEMMA TcpReceiver ==
    ASSUME IInv, type = "tcp", Tcp!Receiver, UNCHANGED type
    PROVE  IInv'
<1>1. SyncInv /\ TransferInv /\ TcpInv
  BY DEF IInv
<1>2. /\ pc \in [Procs -> Labels] /\ "sender" \in Procs /\ "receiver" \in Procs
      /\ iter \in [Procs -> 0 .. Iterations]
  BY <1>1 DEF TransferInv, StreamTypeOK, Procs
<1> SUFFICES SyncInv' /\ TransferInv' /\ TcpInv'
  BY DEF IInv, EndsInv
<1> DEFINE sockets == <<listener, connected, pending, accepted, shut>>
<1>3. ASSUME NEW w \in {"w_ready", "w_begin", "w_end"}, Tcp!ArriveAt("receiver", w),
             UNCHANGED sockets
      PROVE  SyncInv' /\ TransferInv' /\ TcpInv'
  <2>1. ArriveAt("receiver", w)
    BY <1>3 DEF ArriveAt, Tcp!ArriveAt, Barrier!Arrive, Tcp!Barrier!Arrive, transfer,
       Tcp!transfer
  <2>2. SyncInv' /\ TransferInv'
    BY <2>1, <1>1, <1>2, ArriveKeeps DEF Waits
  <2>3. TcpInv'
    BY <2>1, <1>1, <1>3 DEF ArriveAt, transfer, TcpInv
  <2> QED
    BY <2>2, <2>3
<1>4. CASE Tcp!ReturnFrom("receiver", "w_ready", "accept") /\ UNCHANGED sockets
  <2>1. ReturnFrom("receiver", "w_ready", "accept")
    BY <1>4 DEF ReturnFrom, Tcp!ReturnFrom, Barrier!Pass, Tcp!Barrier!Pass, Procs, Tcp!Procs,
       Goto, Tcp!Goto
  <2>2. /\ "accept" \in Lines(type, "receiver") \cap Labels /\ "w_ready" \in Waits
        /\ Alike(type, "w_ready", "accept")
        /\ Stage(type, "accept") = Stage(type, "w_ready") + 1
    BY DEF Lines, Labels, Alike, After, Ended, Stage, During, Waits
  <2>3. SyncInv' /\ TransferInv'
    BY <2>1, <2>2, <1>1, <1>2, ReturnKeeps
  <2>4. TcpInv'
    BY <2>1, <1>1, <1>2, <1>4 DEF ReturnFrom, Goto, TcpInv
  <2> QED
    BY <2>3, <2>4
<1>5. CASE Tcp!BeginReceiving("w_begin", Tcp!Zeros) /\ UNCHANGED sockets
  <2>1. BeginReceiving("w_begin", Zeros)
    BY <1>5 DEF BeginReceiving, Tcp!BeginReceiving, Barrier!Pass, Tcp!Barrier!Pass, Procs,
       Tcp!Procs, Goto, Tcp!Goto, Zeros, Tcp!Zeros, Byte, Tcp!Byte
  <2>2. Zeros \in Seq(Bytes) /\ Len(Zeros) = IF type \in {"tcp", "uds"} THEN DataSize ELSE 0
    BY ZerosSeq
  <2>3. SyncInv' /\ TransferInv'
    BY <2>1, <2>2, <1>1, BeginReceivingKeeps
  <2>4. TcpInv'
    BY <2>1, <1>1, <1>2, <1>5 DEF BeginReceiving, Goto, TcpInv
  <2> QED
    BY <2>3, <2>4
<1>6. CASE Tcp!ReturnFrom("receiver", "w_end", "verify") /\ UNCHANGED sockets
  <2>1. ReturnFrom("receiver", "w_end", "verify")
    BY <1>6 DEF ReturnFrom, Tcp!ReturnFrom, Barrier!Pass, Tcp!Barrier!Pass, Procs, Tcp!Procs,
       Goto, Tcp!Goto
  <2>2. /\ "verify" \in Lines(type, "receiver") \cap Labels /\ "w_end" \in Waits
        /\ Alike(type, "w_end", "verify")
        /\ Stage(type, "verify") = Stage(type, "w_end") + 1
    BY DEF Lines, Labels, Alike, After, Ended, Stage, During, Waits
  <2>3. SyncInv' /\ TransferInv'
    BY <2>1, <2>2, <1>1, <1>2, ReturnKeeps
  <2>4. TcpInv'
    BY <2>1, <1>1, <1>2, <1>6 DEF ReturnFrom, Goto, TcpInv
  <2> QED
    BY <2>3, <2>4
<1>7. CASE Tcp!Receive(~shut, "w_end") /\ UNCHANGED sockets
  <2>1. pc["receiver"] = "receive"
    BY <1>7 DEF Tcp!Receive
  <2>2. channel = <<>> => ~shut
    BY <2>1, <1>1, Starving DEF TcpInv
  <2>3. Receive(TRUE, "w_end")
    BY <2>2, <1>7 DEF Receive, Tcp!Receive, Goto, Tcp!Goto, Smaller, Tcp!Smaller, Larger,
       Tcp!Larger, Placed, Tcp!Placed, barrier, Tcp!barrier
  <2>4. /\ "w_end" \in Lines(type, "receiver") \cap Labels
        /\ "w_end" \in After(type) \ Ended(type)
        /\ Stage(type, "w_end") = Stage(type, "receive")
    <3>1. "w_end" \in Lines(type, "receiver") \cap Labels
      BY DEF Lines, Labels, Waits
    <3>2. "w_end" \in After(type) \ Ended(type)
      BY DEF After, Ended
    <3>3. Stage(type, "w_end") = 2 /\ Stage(type, "receive") = 2
      BY DEF Stage, After, During
    <3> QED
      BY <3>1, <3>2, <3>3
  <2>5. SyncInv' /\ TransferInv'
    BY <2>3, <2>4, <1>1, ReceiveKeeps
  <2>6. /\ pc'["receiver"] \in {"receive", "w_end"} /\ pc'["sender"] = pc["sender"]
        /\ iter' = iter /\ UNCHANGED sockets
    BY <2>3, <1>2, <1>7 DEF Receive, Goto
  <2>7. TcpInv'
    BY <2>1, <2>6, <1>1 DEF TcpInv
  <2> QED
    BY <2>5, <2>7
<1>8. CASE Tcp!Listen
  <2>1. /\ pc["receiver"] = "listen" /\ listener' = iter["receiver"] + 1
        /\ Goto("receiver", IF listener = 0 THEN "w_ready" ELSE "aborted")
        /\ UNCHANGED <<barrier, iter, total, channel, received, connected, pending, accepted,
                       shut>>
    BY <1>8 DEF Tcp!Listen, Tcp!Goto, Tcp!barrier, Goto, barrier
  <2>2. Goto("receiver", "w_ready")
    BY <2>1, <1>1 DEF TcpInv
  <2>3. /\ "w_ready" \in Lines(type, "receiver") \cap Labels /\ Alike(type, "listen", "w_ready")
        /\ "listen" \notin Waits /\ Stage(type, "w_ready") = Stage(type, "listen")
    BY DEF Lines, Labels, Alike, After, Ended, Stage, During, Waits
  <2>4. SyncInv' /\ TransferInv'
    BY <2>1, <2>2, <2>3, <1>1, <1>2, MoveKeeps
  <2>5. pc["sender"] # "w_begin"
    BY <2>1, <1>1, TcpPlaces
  <2>6. TcpInv'
    BY <2>1, <2>2, <2>5, <1>1, <1>2 DEF Goto, TcpInv
  <2> QED
    BY <2>4, <2>6
<1>9. CASE Tcp!Accept
  <2>1. /\ pc["receiver"] = "accept" /\ pending /\ pending' = FALSE /\ accepted' = connected
        /\ Goto("receiver", "w_begin")
        /\ UNCHANGED <<barrier, iter, total, channel, received, listener, connected, shut>>
    BY <1>9 DEF Tcp!Accept, Tcp!Goto, Tcp!barrier, Goto, barrier
  <2>2. /\ "w_begin" \in Lines(type, "receiver") \cap Labels /\ Alike(type, "accept", "w_begin")
        /\ "accept" \notin Waits /\ Stage(type, "w_begin") = Stage(type, "accept")
    BY DEF Lines, Labels, Alike, After, Ended, Stage, During, Waits
  <2>3. SyncInv' /\ TransferInv'
    BY <2>1, <2>2, <1>1, <1>2, MoveKeeps
  <2>4. pc["sender"] = "w_begin"
    BY <2>1, <1>1 DEF TcpInv
  <2>5. connected = iter["receiver"] + 1
    BY <2>1, <2>4, <1>1, TcpPlaces DEF TcpInv
  <2>6. TcpInv'
    BY <2>1, <2>5, <1>1, <1>2 DEF Goto, TcpInv
  <2> QED
    BY <2>3, <2>6
<1>10. CASE Tcp!VerifyAndClose
  <2>1. pc["receiver"] = "verify"
    BY <1>10 DEF Tcp!VerifyAndClose
  <2>2. Tcp!Verified
    BY <2>1, <1>1, Verifying DEF Verified, Tcp!Verified, Zeros, Tcp!Zeros, Byte, Tcp!Byte
  <2>3. /\ accepted' = 0 /\ Goto("receiver", "close")
        /\ UNCHANGED <<barrier, iter, total, channel, received, listener, connected, pending,
                       shut>>
    BY <2>2, <1>10 DEF Tcp!VerifyAndClose, Tcp!Goto, Tcp!barrier, Goto, barrier
  <2>4. /\ "close" \in Lines(type, "receiver") \cap Labels /\ Alike(type, "verify", "close")
        /\ "verify" \notin Waits /\ Stage(type, "close") = Stage(type, "verify")
    BY DEF Lines, Labels, Alike, After, Ended, Stage, During, Waits
  <2>5. SyncInv' /\ TransferInv'
    BY <2>1, <2>3, <2>4, <1>1, <1>2, MoveKeeps
  <2>6. TcpInv'
    BY <2>1, <2>3, <1>1, <1>2 DEF Goto, TcpInv
  <2> QED
    BY <2>5, <2>6
<1>11. CASE Tcp!CloseListener
  <2>1. /\ pc["receiver"] = "close" /\ listener' = 0 /\ pending' = FALSE
        /\ EndIteration("receiver", "listen", "done")
        /\ UNCHANGED <<barrier, total, channel, received, connected, accepted, shut>>
    BY <1>11 DEF Tcp!CloseListener, Tcp!EndIteration, Tcp!Goto, Tcp!barrier, EndIteration,
       Goto, barrier
  <2>2. /\ {"listen", "done"} \subseteq Lines(type, "receiver") \cap Labels
        /\ "listen" \notin Ended(type) \cup During \cup After(type)
        /\ "done" \in Ended(type) \ (During \cup After(type))
        /\ "close" \in After(type) \ (Waits \cup During \cup Ended(type))
        /\ Stage(type, "close") = Rounds(type)
        /\ Stage(type, "listen") = 0 /\ Stage(type, "done") = 0
    BY DEF Lines, Labels, After, Ended, Stage, During, Waits, Rounds
  <2>3. SyncInv' /\ TransferInv'
    BY <2>1, <2>2, <1>1, <1>2, EndStep
  <2>4. /\ pc'["receiver"] \in {"listen", "done"} /\ pc'["sender"] = pc["sender"]
        /\ iter'["sender"] = iter["sender"]
    BY <2>1, <1>2 DEF EndIteration, Goto
  <2>5. TcpInv'
    BY <2>1, <2>4, <1>1 DEF TcpInv
  <2> QED
    BY <2>3, <2>5
<1>12. Tcp!Receiver => \/ \E w \in {"w_ready", "w_begin", "w_end"} :
                              Tcp!ArriveAt("receiver", w) /\ UNCHANGED sockets
                       \/ Tcp!ReturnFrom("receiver", "w_ready", "accept") /\ UNCHANGED sockets
                       \/ Tcp!BeginReceiving("w_begin", Tcp!Zeros) /\ UNCHANGED sockets
                       \/ Tcp!ReturnFrom("receiver", "w_end", "verify") /\ UNCHANGED sockets
                       \/ Tcp!Receive(~shut, "w_end") /\ UNCHANGED sockets
                       \/ Tcp!Listen \/ Tcp!Accept \/ Tcp!VerifyAndClose \/ Tcp!CloseListener
  BY Zenon DEF Tcp!Receiver, Tcp!ReceiverWaits, Tcp!sockets
<1> QED
  BY <1>3, <1>4, <1>5, <1>6, <1>7, <1>8, <1>9, <1>10, <1>11, <1>12

\* uds_bandwidth.cc, the sender.
LEMMA UdsSender ==
    ASSUME IInv, type = "uds", Uds!Sender, UNCHANGED type
    PROVE  IInv'
<1>1. SyncInv /\ TransferInv /\ UdsInv
  BY DEF IInv
<1>2. /\ pc \in [Procs -> Labels] /\ "sender" \in Procs /\ "receiver" \in Procs
      /\ iter \in [Procs -> 0 .. Iterations]
  BY <1>1 DEF TransferInv, StreamTypeOK, Procs
<1> SUFFICES SyncInv' /\ TransferInv' /\ UdsInv'
  BY DEF IInv, EndsInv
<1> DEFINE sockets == <<path, listening, connected, pending, accepted>>
<1>3. ASSUME NEW w \in {"w_begin", "w_end"}, Uds!ArriveAt("sender", w),
             UNCHANGED sockets
      PROVE  SyncInv' /\ TransferInv' /\ UdsInv'
  <2>1. ArriveAt("sender", w)
    BY <1>3 DEF ArriveAt, Uds!ArriveAt, Barrier!Arrive, Uds!Barrier!Arrive, transfer,
       Uds!transfer
  <2>2. SyncInv' /\ TransferInv'
    BY <2>1, <1>1, <1>2, ArriveKeeps DEF Waits
  <2>3. UdsInv'
    BY <2>1, <1>1, <1>3 DEF ArriveAt, transfer, UdsInv
  <2> QED
    BY <2>2, <2>3
<1>4. CASE Uds!BeginSending("w_begin") /\ UNCHANGED sockets
  <2>1. BeginSending("w_begin")
    BY <1>4 DEF BeginSending, Uds!BeginSending, Barrier!Pass, Uds!Barrier!Pass, Procs,
       Uds!Procs, Goto, Uds!Goto
  <2>2. SyncInv' /\ TransferInv'
    BY <2>1, <1>1, BeginSendingKeeps
  <2>3. pc["receiver"] \in {"w_begin", "receive"}
    BY <2>1, <1>1, <1>2, UdsPlaces DEF BeginSending, Barrier!Pass
  <2>4. ~pending /\ connected = iter["sender"] + 1
    BY <2>3, <1>1 DEF UdsInv
  <2>5. /\ pc'["sender"] = "send" /\ pc'["receiver"] = pc["receiver"]
        /\ iter' = iter /\ UNCHANGED sockets /\ pc["sender"] = "w_begin"
    BY <2>1, <1>2, <1>4 DEF BeginSending, Goto
  <2>6. UdsInv'
    BY <2>4, <2>5, <1>1 DEF UdsInv
  <2> QED
    BY <2>2, <2>6
<1>5. CASE Uds!ReturnFrom("sender", "w_end", "close") /\ UNCHANGED sockets
  <2>1. ReturnFrom("sender", "w_end", "close")
    BY <1>5 DEF ReturnFrom, Uds!ReturnFrom, Barrier!Pass, Uds!Barrier!Pass, Procs, Uds!Procs,
       Goto, Uds!Goto
  <2>2. /\ "close" \in Lines(type, "sender") \cap Labels /\ "w_end" \in Waits
        /\ Alike(type, "w_end", "close")
        /\ Stage(type, "close") = Stage(type, "w_end") + 1
    BY DEF Lines, Labels, Alike, After, Ended, Stage, During, Waits
  <2>3. SyncInv' /\ TransferInv'
    BY <2>1, <2>2, <1>1, <1>2, ReturnKeeps
  <2>4. /\ pc'["sender"] = "close" /\ pc'["receiver"] = pc["receiver"]
        /\ iter' = iter /\ UNCHANGED sockets /\ pc["sender"] = "w_end"
    BY <2>1, <1>2, <1>5 DEF ReturnFrom, Goto
  <2>5. UdsInv'
    BY <2>4, <1>1 DEF UdsInv
  <2> QED
    BY <2>3, <2>5
<1>6. CASE Uds!Send(pending \/ accepted = connected, "w_end") /\ UNCHANGED sockets
  <2>1. pc["sender"] = "send"
    BY <1>6 DEF Uds!Send
  <2>2. accepted = connected
    BY <2>1, <1>1, <1>2, Sending DEF UdsInv
  <2>3. Send(TRUE, "w_end")
    BY <2>2, <1>6 DEF Send, Uds!Send, Goto, Uds!Goto, Smaller, Uds!Smaller, Data, Uds!Data,
       Byte, Uds!Byte, barrier, Uds!barrier
  <2>4. /\ "w_end" \in Lines(type, "sender") \cap Labels
        /\ "w_end" \in After(type) \ Ended(type)
        /\ Stage(type, "w_end") = Stage(type, "send")
    <3>1. "w_end" \in Lines(type, "sender") \cap Labels
      BY DEF Lines, Labels, Waits
    <3>2. "w_end" \in After(type) \ Ended(type)
      BY DEF After, Ended
    <3>3. Stage(type, "w_end") = 1 /\ Stage(type, "send") = 1
      BY DEF Stage, After, During
    <3> QED
      BY <3>1, <3>2, <3>3
  <2>5. SyncInv' /\ TransferInv'
    BY <2>3, <2>4, <1>1, SendKeeps
  <2>6. /\ pc'["sender"] \in {"send", "w_end"} /\ pc'["receiver"] = pc["receiver"]
        /\ iter' = iter /\ UNCHANGED sockets
    BY <2>3, <1>2, <1>6 DEF Send, Goto
  <2>7. UdsInv'
    BY <2>1, <2>6, <1>1 DEF UdsInv
  <2> QED
    BY <2>5, <2>7
<1>7. CASE Uds!Connect
  <2>1. /\ pc["sender"] = "connect" /\ path # 0 /\ path = listening
        /\ connected' = path /\ pending' = TRUE
        /\ Goto("sender", "w_begin")
        /\ UNCHANGED <<barrier, iter, total, channel, received, path, listening, accepted>>
    BY <1>7 DEF Uds!Connect, Uds!Goto, Uds!barrier, Goto, barrier
  <2>2. /\ "w_begin" \in Lines(type, "sender") \cap Labels /\ Alike(type, "connect", "w_begin")
        /\ "connect" \notin Waits /\ Stage(type, "w_begin") = Stage(type, "connect")
    BY DEF Lines, Labels, Alike, After, Ended, Stage, During, Waits
  <2>3. SyncInv' /\ TransferInv'
    BY <2>1, <2>2, <1>1, <1>2, MoveKeeps
  <2>4. pc["receiver"] \notin {"w_begin", "receive"}
    <3>1. connected # iter["receiver"] + 1
      BY <2>1, <1>1, <1>2, StreamAssumption DEF UdsInv
    <3> QED
      BY <3>1, <1>1 DEF UdsInv
  <2>5. path = iter["receiver"] + 1 /\ path \in 0 .. Iterations
        /\ pc["receiver"] \in {"accept", "w_end", "close", "close_listener"}
    <3>1. /\ pc["receiver"] \in Lines("uds", "receiver")
          /\ pc["receiver"] \in Ended("uds") <=> iter["receiver"] = Iterations
          /\ iter["receiver"] \in 0 .. Iterations
      BY <1>1, <1>2 DEF TransferInv, LoopInv
    <3>2. pc["receiver"] \notin {"bind", "listen", "verify", "done"}
      BY <2>1, <1>1 DEF UdsInv
    <3>3. path = iter["receiver"] + 1
      BY <2>1, <1>1 DEF UdsInv
    <3>4. iter["receiver"] # Iterations
      BY <3>1, <3>2 DEF Ended
    <3>5. iter["receiver"] + 1 \in 0 .. Iterations
      BY <3>1, <3>4, StreamAssumption
    <3> QED
      BY <3>1, <3>2, <3>3, <3>5, <2>4 DEF Lines
  <2>6. /\ pc["receiver"] = "accept" => iter["sender"] = iter["receiver"]
        /\ pc["receiver"] # "accept" => iter["sender"] = iter["receiver"] + 1
    BY <2>1, <2>5, <1>1, UdsPlaces
  <2>7. /\ pc'["sender"] = "w_begin" /\ pc'["receiver"] = pc["receiver"]
    BY <2>1, <1>2 DEF Goto
  <2>8. UdsInv'
    BY <2>1, <2>5, <2>6, <2>7, <1>1 DEF UdsInv
  <2> QED
    BY <2>3, <2>8
<1>8. CASE Uds!Close
  <2>1. /\ pc["sender"] = "close" /\ connected' = 0 /\ EndIteration("sender", "connect", "done")
        /\ UNCHANGED <<barrier, total, channel, received, path, listening, pending, accepted>>
    BY <1>8 DEF Uds!Close, Uds!EndIteration, Uds!Goto, Uds!barrier, EndIteration, Goto, barrier
  <2>2. /\ {"connect", "done"} \subseteq Lines(type, "sender") \cap Labels
        /\ "connect" \notin Ended(type) \cup During \cup After(type)
        /\ "done" \in Ended(type) \ (During \cup After(type))
        /\ "close" \in After(type) \ (Waits \cup During \cup Ended(type))
        /\ Stage(type, "close") = Rounds(type)
        /\ Stage(type, "connect") = 0 /\ Stage(type, "done") = 0
    BY DEF Lines, Labels, After, Ended, Stage, During, Waits, Rounds
  <2>3. SyncInv' /\ TransferInv'
    BY <2>1, <2>2, <1>1, <1>2, EndStep
  <2>4. pc["receiver"] \notin {"w_begin", "receive"}
    BY <2>1, <1>1, UdsPlaces DEF UdsInv
  <2>5. /\ pc'["sender"] \in {"connect", "done"} /\ pc'["receiver"] = pc["receiver"]
        /\ iter'["receiver"] = iter["receiver"]
    BY <2>1, <1>2 DEF EndIteration, Goto
  <2>6. ~pending /\ 0 \in 0 .. Iterations
    BY <2>1, <1>1, StreamAssumption DEF UdsInv
  <2>7. UdsInv'
    BY <2>1, <2>4, <2>5, <2>6, <1>1 DEF UdsInv
  <2> QED
    BY <2>3, <2>7
<1>9. Uds!Sender => \/ \E w \in {"w_begin", "w_end"} :
                           Uds!ArriveAt("sender", w) /\ UNCHANGED sockets
                    \/ Uds!BeginSending("w_begin") /\ UNCHANGED sockets
                    \/ Uds!ReturnFrom("sender", "w_end", "close") /\ UNCHANGED sockets
                    \/ Uds!Send(pending \/ accepted = connected, "w_end") /\ UNCHANGED sockets
                    \/ Uds!Connect \/ Uds!Close
  BY Zenon DEF Uds!Sender, Uds!SenderWaits, Uds!sockets
<1> QED
  BY <1>3, <1>4, <1>5, <1>6, <1>7, <1>8, <1>9

\* uds_bandwidth.cc, the receiver.
LEMMA UdsReceiver ==
    ASSUME IInv, type = "uds", Uds!Receiver, UNCHANGED type
    PROVE  IInv'
<1>1. SyncInv /\ TransferInv /\ UdsInv
  BY DEF IInv
<1>2. /\ pc \in [Procs -> Labels] /\ "sender" \in Procs /\ "receiver" \in Procs
      /\ iter \in [Procs -> 0 .. Iterations]
  BY <1>1 DEF TransferInv, StreamTypeOK, Procs
<1> SUFFICES SyncInv' /\ TransferInv' /\ UdsInv'
  BY DEF IInv, EndsInv
<1> DEFINE sockets == <<path, listening, connected, pending, accepted>>
<1>3. ASSUME NEW w \in {"w_begin", "w_end"}, Uds!ArriveAt("receiver", w),
             UNCHANGED sockets
      PROVE  SyncInv' /\ TransferInv' /\ UdsInv'
  <2>1. ArriveAt("receiver", w)
    BY <1>3 DEF ArriveAt, Uds!ArriveAt, Barrier!Arrive, Uds!Barrier!Arrive, transfer,
       Uds!transfer
  <2>2. SyncInv' /\ TransferInv'
    BY <2>1, <1>1, <1>2, ArriveKeeps DEF Waits
  <2>3. UdsInv'
    BY <2>1, <1>1, <1>3 DEF ArriveAt, transfer, UdsInv
  <2> QED
    BY <2>2, <2>3
<1>4. CASE Uds!BeginReceiving("w_begin", received) /\ UNCHANGED sockets
  <2>1. BeginReceiving("w_begin", received)
    BY <1>4 DEF BeginReceiving, Uds!BeginReceiving, Barrier!Pass, Uds!Barrier!Pass, Procs,
       Uds!Procs, Goto, Uds!Goto
  <2>2. received \in Seq(Bytes)
        /\ Len(received) = IF type \in {"tcp", "uds"} THEN DataSize ELSE 0
    BY <1>1 DEF TransferInv, StreamTypeOK, ReceivedInv
  <2>3. SyncInv' /\ TransferInv'
    BY <2>1, <2>2, <1>1, BeginReceivingKeeps
  <2>4. /\ pc'["receiver"] = "receive" /\ pc'["sender"] = pc["sender"]
        /\ iter' = iter /\ UNCHANGED sockets /\ pc["receiver"] = "w_begin"
    BY <2>1, <1>2, <1>4 DEF BeginReceiving, Goto
  <2>5. UdsInv'
    BY <2>4, <1>1 DEF UdsInv
  <2> QED
    BY <2>3, <2>5
<1>5. CASE Uds!ReturnFrom("receiver", "w_end", "close") /\ UNCHANGED sockets
  <2>1. ReturnFrom("receiver", "w_end", "close")
    BY <1>5 DEF ReturnFrom, Uds!ReturnFrom, Barrier!Pass, Uds!Barrier!Pass, Procs, Uds!Procs,
       Goto, Uds!Goto
  <2>2. /\ "close" \in Lines(type, "receiver") \cap Labels /\ "w_end" \in Waits
        /\ Alike(type, "w_end", "close")
        /\ Stage(type, "close") = Stage(type, "w_end") + 1
    BY DEF Lines, Labels, Alike, After, Ended, Stage, During, Waits
  <2>3. SyncInv' /\ TransferInv'
    BY <2>1, <2>2, <1>1, <1>2, ReturnKeeps
  <2>4. /\ pc'["receiver"] = "close" /\ pc'["sender"] = pc["sender"]
        /\ iter' = iter /\ UNCHANGED sockets /\ pc["receiver"] = "w_end"
    BY <2>1, <1>2, <1>5 DEF ReturnFrom, Goto
  <2>5. pc["sender"] = "w_begin" => iter["sender"] # iter["receiver"]
    BY <2>4, <1>1, UdsPlaces
  <2>6. UdsInv'
    BY <2>4, <2>5, <1>1 DEF UdsInv
  <2> QED
    BY <2>3, <2>6
<1>6. CASE Uds!Receive(connected # 0, "w_end") /\ UNCHANGED sockets
  <2>1. pc["receiver"] = "receive"
    BY <1>6 DEF Uds!Receive
  <2>2. channel = <<>> => connected # 0
    BY <2>1, <1>1, Starving DEF UdsInv
  <2>3. Receive(TRUE, "w_end")
    BY <2>2, <1>6 DEF Receive, Uds!Receive, Goto, Uds!Goto, Smaller, Uds!Smaller, Larger,
       Uds!Larger, Placed, Uds!Placed, barrier, Uds!barrier
  <2>4. /\ "w_end" \in Lines(type, "receiver") \cap Labels
        /\ "w_end" \in After(type) \ Ended(type)
        /\ Stage(type, "w_end") = Stage(type, "receive")
    <3>1. "w_end" \in Lines(type, "receiver") \cap Labels
      BY DEF Lines, Labels, Waits
    <3>2. "w_end" \in After(type) \ Ended(type)
      BY DEF After, Ended
    <3>3. Stage(type, "w_end") = 1 /\ Stage(type, "receive") = 1
      BY DEF Stage, After, During
    <3> QED
      BY <3>1, <3>2, <3>3
  <2>5. SyncInv' /\ TransferInv'
    BY <2>3, <2>4, <1>1, ReceiveKeeps
  <2>6. /\ pc'["receiver"] \in {"receive", "w_end"} /\ pc'["sender"] = pc["sender"]
        /\ iter' = iter /\ UNCHANGED sockets
    BY <2>3, <1>2, <1>6 DEF Receive, Goto
  <2>7. UdsInv'
    BY <2>1, <2>6, <1>1 DEF UdsInv
  <2> QED
    BY <2>5, <2>7
<1>7. CASE Uds!Bind
  <2>1. /\ pc["receiver"] = "bind" /\ path' = iter["receiver"] + 1 /\ Goto("receiver", "listen")
        /\ UNCHANGED <<barrier, iter, total, channel, received, listening, connected, pending,
                       accepted>>
    BY <1>7 DEF Uds!Bind, Uds!Current, Uds!Goto, Uds!barrier, Goto, barrier
  <2>2. /\ "listen" \in Lines(type, "receiver") \cap Labels /\ Alike(type, "bind", "listen")
        /\ "bind" \notin Waits /\ Stage(type, "listen") = Stage(type, "bind")
    BY DEF Lines, Labels, Alike, After, Ended, Stage, During, Waits
  <2>3. SyncInv' /\ TransferInv'
    BY <2>1, <2>2, <1>1, <1>2, MoveKeeps
  <2>4. pc'["receiver"] = "listen" /\ pc'["sender"] = pc["sender"]
    BY <2>1, <1>2 DEF Goto
  <2>5. UdsInv'
    BY <2>1, <2>4, <1>1 DEF UdsInv
  <2> QED
    BY <2>3, <2>5
<1>8. CASE Uds!Listen
  <2>1. /\ pc["receiver"] = "listen" /\ listening' = iter["receiver"] + 1
        /\ Goto("receiver", "accept")
        /\ UNCHANGED <<barrier, iter, total, channel, received, path, connected, pending, accepted>>
    BY <1>8 DEF Uds!Listen, Uds!Current, Uds!Goto, Uds!barrier, Goto, barrier
  <2>2. /\ "accept" \in Lines(type, "receiver") \cap Labels /\ Alike(type, "listen", "accept")
        /\ "listen" \notin Waits /\ Stage(type, "accept") = Stage(type, "listen")
    BY DEF Lines, Labels, Alike, After, Ended, Stage, During, Waits
  <2>3. SyncInv' /\ TransferInv'
    BY <2>1, <2>2, <1>1, <1>2, MoveKeeps
  <2>4. pc'["receiver"] = "accept" /\ pc'["sender"] = pc["sender"]
    BY <2>1, <1>2 DEF Goto
  <2>5. UdsInv'
    BY <2>1, <2>4, <1>1 DEF UdsInv
  <2> QED
    BY <2>3, <2>5
<1>9. CASE Uds!Accept
  <2>1. /\ pc["receiver"] = "accept" /\ pending /\ pending' = FALSE
        /\ accepted' = connected /\ Goto("receiver", "w_begin")
        /\ UNCHANGED <<barrier, iter, total, channel, received, path, listening, connected>>
    BY <1>9 DEF Uds!Accept, Uds!Current, Uds!Goto, Uds!barrier, Goto, barrier
  <2>2. /\ "w_begin" \in Lines(type, "receiver") \cap Labels /\ Alike(type, "accept", "w_begin")
        /\ "accept" \notin Waits /\ Stage(type, "w_begin") = Stage(type, "accept")
    BY DEF Lines, Labels, Alike, After, Ended, Stage, During, Waits
  <2>3. SyncInv' /\ TransferInv'
    BY <2>1, <2>2, <1>1, <1>2, MoveKeeps
  <2>4. pc'["receiver"] = "w_begin" /\ pc'["sender"] = pc["sender"]
    BY <2>1, <1>2 DEF Goto
  <2>5. UdsInv'
    BY <2>1, <2>4, <1>1 DEF UdsInv
  <2> QED
    BY <2>3, <2>5
<1>10. CASE Uds!CloseConnection
  <2>1. /\ pc["receiver"] = "close" /\ accepted' = 0 /\ Goto("receiver", "close_listener")
        /\ UNCHANGED <<barrier, iter, total, channel, received, path, listening, connected,
                       pending>>
    BY <1>10 DEF Uds!CloseConnection, Uds!Current, Uds!Goto, Uds!barrier, Goto, barrier
  <2>2. /\ "close_listener" \in Lines(type, "receiver") \cap Labels
        /\ Alike(type, "close", "close_listener")
        /\ "close" \notin Waits /\ Stage(type, "close_listener") = Stage(type, "close")
    BY DEF Lines, Labels, Alike, After, Ended, Stage, During, Waits
  <2>3. SyncInv' /\ TransferInv'
    BY <2>1, <2>2, <1>1, <1>2, MoveKeeps
  <2>4. pc'["receiver"] = "close_listener" /\ pc'["sender"] = pc["sender"]
    BY <2>1, <1>2 DEF Goto
  <2>5. UdsInv'
    BY <2>1, <2>4, <1>1 DEF UdsInv
  <2> QED
    BY <2>3, <2>5
<1>11. CASE Uds!CloseListener
  <2>1. /\ pc["receiver"] = "close_listener" /\ listening' = 0 /\ pending' = FALSE
        /\ Goto("receiver", "verify")
        /\ UNCHANGED <<barrier, iter, total, channel, received, path, connected, accepted>>
    BY <1>11 DEF Uds!CloseListener, Uds!Current, Uds!Goto, Uds!barrier, Goto, barrier
  <2>2. /\ "verify" \in Lines(type, "receiver") \cap Labels
        /\ Alike(type, "close_listener", "verify")
        /\ "close_listener" \notin Waits /\ Stage(type, "verify") = Stage(type, "close_listener")
    BY DEF Lines, Labels, Alike, After, Ended, Stage, During, Waits
  <2>3. SyncInv' /\ TransferInv'
    BY <2>1, <2>2, <1>1, <1>2, MoveKeeps
  <2>4. pc'["receiver"] = "verify" /\ pc'["sender"] = pc["sender"]
    BY <2>1, <1>2 DEF Goto
  <2>5. UdsInv'
    BY <2>1, <2>4, <1>1 DEF UdsInv
  <2> QED
    BY <2>3, <2>5
<1>12. CASE Uds!Remove
  <2>1. /\ pc["receiver"] = "verify" /\ path' = 0 /\ EndIteration("receiver", "bind", "done")
        /\ UNCHANGED <<barrier, total, channel, received, listening, connected, pending, accepted>>
    BY <1>12 DEF Uds!Remove, Uds!EndIteration, Uds!Goto, Uds!barrier, EndIteration, Goto,
       barrier
  <2>2. /\ {"bind", "done"} \subseteq Lines(type, "receiver") \cap Labels
        /\ "bind" \notin Ended(type) \cup During \cup After(type)
        /\ "done" \in Ended(type) \ (During \cup After(type))
        /\ "verify" \in After(type) \ (Waits \cup During \cup Ended(type))
        /\ Stage(type, "verify") = Rounds(type)
        /\ Stage(type, "bind") = 0 /\ Stage(type, "done") = 0
    BY DEF Lines, Labels, After, Ended, Stage, During, Waits, Rounds
  <2>3. SyncInv' /\ TransferInv'
    BY <2>1, <2>2, <1>1, <1>2, EndStep
  <2>4. /\ pc'["receiver"] \in {"bind", "done"} /\ pc'["sender"] = pc["sender"]
        /\ iter'["sender"] = iter["sender"]
    BY <2>1, <1>2 DEF EndIteration, Goto
  <2>5. ~pending
    BY <2>1, <1>1 DEF UdsInv
  <2>6. UdsInv'
    BY <2>1, <2>4, <2>5, <1>1 DEF UdsInv
  <2> QED
    BY <2>3, <2>6
<1>13. Uds!Receiver => \/ \E w \in {"w_begin", "w_end"} :
                              Uds!ArriveAt("receiver", w) /\ UNCHANGED sockets
                       \/ Uds!BeginReceiving("w_begin", received) /\ UNCHANGED sockets
                       \/ Uds!ReturnFrom("receiver", "w_end", "close") /\ UNCHANGED sockets
                       \/ Uds!Receive(connected # 0, "w_end") /\ UNCHANGED sockets
                       \/ Uds!Bind \/ Uds!Listen \/ Uds!Accept \/ Uds!CloseConnection
                       \/ Uds!CloseListener \/ Uds!Remove
  BY Zenon DEF Uds!Receiver, Uds!ReceiverWaits, Uds!sockets
<1> QED
  BY <1>3, <1>4, <1>5, <1>6, <1>7, <1>8, <1>9, <1>10, <1>11, <1>12, <1>13
-----------------------------------------------------------------------------
\* What is the same in all initial states.
LEMMA BeginsWith ==
    ASSUME TransferInit, type \in StreamTypes,
           \A p \in Procs : /\ pc[p] \in Lines(type, p) \cap Labels
                            /\ pc[p] \notin Ended(type) \cup During \cup After(type)
                            /\ Stage(type, pc[p]) = 0,
           pc \in [Procs -> Labels],
           received = IF type \in {"tcp", "uds"} THEN Zeros ELSE <<>>
    PROVE  SyncInv /\ TransferInv
<1>1. /\ \A p \in Procs : arrived[p] = 0 /\ passed[p] = 0 /\ iter[p] = 0 /\ total[p] = 0
      /\ arrived \in [Procs -> Nat] /\ passed \in [Procs -> Nat]
      /\ iter \in [Procs -> 0 .. Iterations] /\ total \in [Procs -> 0 .. DataSize]
      /\ channel = <<>> /\ "sender" \in Procs /\ "receiver" \in Procs
  BY StreamAssumption DEF TransferInit, Procs
<1>2. SyncInv
  <2>1. \A p \in Procs : Returns(type, iter[p], pc[p]) = 0
    BY <1>1 DEF Returns
  <2> QED
    BY <2>1, <1>1 DEF SyncInv
<1>3. StreamTypeOK
  <2>1. received \in Seq(Bytes) /\ channel \in Streams(type)
    BY <1>1, ZerosSeq DEF Streams
  <2>2. Len(channel) <= Capacity
    BY <1>1, StreamAssumption
  <2> QED
    BY <2>1, <2>2, <1>1 DEF StreamTypeOK
<1>4. LoopInv
  BY <1>1, StreamAssumption DEF LoopInv
<1>5. At("sender") = 0 /\ At("receiver") = 0
  BY <1>1 DEF At, Position
<1>6. StreamInv
  <2>1. Holds(type, <<>>, 1, 0, 0)
    BY EmptyHolds, StreamAssumption
  <2> QED
    BY <2>1, <1>1, <1>5 DEF StreamInv, InFlight
<1>7. ReceivedInv
  BY <1>1, ZerosSeq DEF ReceivedInv, During
<1> QED
  BY <1>2, <1>3, <1>4, <1>6, <1>7 DEF TransferInv

\* RunBandwidthBenchmarks begins with nothing counted, sent or received.
LEMMA Begins == Init => IInv
<1>1. ASSUME type = "pipe", Pipe!Init
      PROVE  IInv
  <2>1. TransferInit /\ pc = [p \in Procs |-> "w_begin"] /\ received = <<>>
        /\ reading = TRUE /\ writing = TRUE
    BY <1>1 DEF Pipe!Init, Pipe!TransferInit, Pipe!Procs, TransferInit, Procs
  <2>2. /\ pc \in [Procs -> Labels]
        /\ \A p \in Procs : /\ pc[p] \in Lines(type, p) \cap Labels
                            /\ pc[p] \notin Ended(type) \cup During \cup After(type)
                            /\ Stage(type, pc[p]) = 0
    BY <2>1, <1>1 DEF Lines, Labels, Waits, Ended, During, After, Stage
  <2>3. SyncInv /\ TransferInv
    BY <2>1, <2>2, <1>1, BeginsWith DEF StreamTypes
  <2>4. EndsInv
    BY <2>1, <1>1 DEF EndsInv, Procs
  <2> QED
    BY <2>3, <2>4, <1>1 DEF IInv
<1>2. ASSUME type = "fifo", Fifo!Init
      PROVE  IInv
  <2>1. TransferInit /\ pc = [p \in Procs |-> "open"] /\ received = <<>>
        /\ reading = FALSE /\ writing = FALSE
    BY <1>2 DEF Fifo!Init, Fifo!TransferInit, Fifo!Procs, TransferInit, Procs
  <2>2. /\ pc \in [Procs -> Labels]
        /\ \A p \in Procs : /\ pc[p] \in Lines(type, p) \cap Labels
                            /\ pc[p] \notin Ended(type) \cup During \cup After(type)
                            /\ Stage(type, pc[p]) = 0
    BY <2>1, <1>2 DEF Lines, Labels, Waits, Ended, During, After, Stage
  <2>3. SyncInv /\ TransferInv
    BY <2>1, <2>2, <1>2, BeginsWith DEF StreamTypes
  <2>4. EndsInv
    BY <2>1, <1>2 DEF EndsInv, Procs
  <2> QED
    BY <2>3, <2>4, <1>2 DEF IInv
<1>3. ASSUME type = "tcp", Tcp!Init
      PROVE  IInv
  <2>1. /\ TransferInit /\ received = Zeros
        /\ pc = [p \in Procs |-> IF p = "sender" THEN "w_ready" ELSE "listen"]
        /\ listener = 0 /\ connected = 0 /\ pending = FALSE /\ accepted = 0 /\ shut = FALSE
    BY <1>3 DEF Tcp!Init, Tcp!TransferInit, Tcp!Procs, Tcp!Zeros, Tcp!Byte, TransferInit,
       Procs, Zeros, Byte
  <2>2. /\ pc \in [Procs -> Labels] /\ pc["sender"] = "w_ready" /\ pc["receiver"] = "listen"
        /\ \A p \in Procs : /\ pc[p] \in Lines(type, p) \cap Labels
                            /\ pc[p] \notin Ended(type) \cup During \cup After(type)
                            /\ Stage(type, pc[p]) = 0
    BY <2>1, <1>3 DEF Procs, Lines, Labels, Waits, Ended, During, After, Stage
  <2>3. SyncInv /\ TransferInv
    BY <2>1, <2>2, <1>3, BeginsWith DEF StreamTypes
  <2>4. EndsInv /\ TcpInv
    BY <2>1, <2>2, <1>3 DEF EndsInv, TcpInv
  <2> QED
    BY <2>3, <2>4, <1>3 DEF IInv
<1>4. ASSUME type = "uds", Uds!Init
      PROVE  IInv
  <2>1. /\ TransferInit /\ received = Zeros
        /\ pc = [p \in Procs |-> IF p = "sender" THEN "connect" ELSE "bind"]
        /\ path = 0 /\ listening = 0 /\ connected = 0 /\ pending = FALSE /\ accepted = 0
    BY <1>4 DEF Uds!Init, Uds!TransferInit, Uds!Procs, Uds!Zeros, Uds!Byte, TransferInit,
       Procs, Zeros, Byte
  <2>2. /\ pc \in [Procs -> Labels] /\ pc["sender"] = "connect" /\ pc["receiver"] = "bind"
        /\ \A p \in Procs : /\ pc[p] \in Lines(type, p) \cap Labels
                            /\ pc[p] \notin Ended(type) \cup During \cup After(type)
                            /\ Stage(type, pc[p]) = 0
    BY <2>1, <1>4 DEF Procs, Lines, Labels, Waits, Ended, During, After, Stage
  <2>3. SyncInv /\ TransferInv
    BY <2>1, <2>2, <1>4, BeginsWith DEF StreamTypes
  <2>4. EndsInv
    BY <1>4 DEF EndsInv
  <2>5. UdsInv
    <3>1. connected \in 0 .. Iterations
      BY <2>1, StreamAssumption
    <3>2. pending \in BOOLEAN /\ ~pending
      BY <2>1
    <3> QED
      BY <3>1, <3>2, <2>1, <2>2 DEF UdsInv
  <2> QED
    BY <2>3, <2>4, <2>5, <1>4 DEF IInv
<1>5. ASSUME type = "mq", Mq!Init
      PROVE  IInv
  <2>1. TransferInit /\ pc = [p \in Procs |-> "w_begin"] /\ received = <<>>
    BY <1>5 DEF Mq!Init, Mq!TransferInit, Mq!Procs, TransferInit, Procs
  <2>2. /\ pc \in [Procs -> Labels]
        /\ \A p \in Procs : /\ pc[p] \in Lines(type, p) \cap Labels
                            /\ pc[p] \notin Ended(type) \cup During \cup After(type)
                            /\ Stage(type, pc[p]) = 0
    BY <2>1, <1>5 DEF Lines, Labels, Waits, Ended, During, After, Stage
  <2>3. SyncInv /\ TransferInv
    BY <2>1, <2>2, <1>5, BeginsWith DEF StreamTypes
  <2> QED
    BY <2>3, <1>5 DEF IInv, EndsInv
<1> QED
  BY <1>1, <1>2, <1>3, <1>4, <1>5 DEF Init

(***************************************************************************)
(* The strengthening holds in every state of every benchmark.              *)
(***************************************************************************)
THEOREM Invariance == Spec => []IInv
<1>1. Init => IInv
  BY Begins
<1>2. IInv /\ [Next]_vars => IInv'
  <2>1. ASSUME IInv, Sender
        PROVE  IInv'
    <3>1. UNCHANGED type
      BY <2>1 DEF Sender
    <3>2. \/ type = "pipe" /\ Pipe!Sender
          \/ type = "fifo" /\ Fifo!Sender
          \/ type = "tcp" /\ Tcp!Sender
          \/ type = "uds" /\ Uds!Sender
          \/ type = "mq" /\ Mq!Sender
      BY <2>1, Zenon DEF Sender
    <3> QED
      BY <2>1, <3>1, <3>2, PipeSender, FifoSender, TcpSender, UdsSender, MqSender
  <2>2. ASSUME IInv, Receiver
        PROVE  IInv'
    <3>1. UNCHANGED type
      BY <2>2 DEF Receiver
    <3>2. \/ type = "pipe" /\ Pipe!Receiver
          \/ type = "fifo" /\ Fifo!Receiver
          \/ type = "tcp" /\ Tcp!Receiver
          \/ type = "uds" /\ Uds!Receiver
          \/ type = "mq" /\ Mq!Receiver
      BY <2>2, Zenon DEF Receiver
    <3> QED
      BY <2>2, <3>1, <3>2, PipeReceiver, FifoReceiver, TcpReceiver, UdsReceiver, MqReceiver
  <2>3. ASSUME IInv, UNCHANGED vars
        PROVE  IInv'
    <3>1. /\ UNCHANGED <<arrived, passed, pc, iter, total, channel, received, type>>
          /\ UNCHANGED <<reading, writing, connected, pending, accepted, listener, shut>>
          /\ UNCHANGED <<path, listening>>
      BY <2>3 DEF vars, barrier, transfer, ends, conns, tcp_only, uds_only
    <3>2. SyncInv'
      BY <2>3, <3>1 DEF IInv, SyncInv
    <3>3. TransferInv'
      BY <2>3, <3>1 DEF IInv, TransferInv, StreamTypeOK, LoopInv, StreamInv, ReceivedInv, At
    <3>4. EndsInv' /\ (type' = "tcp" => TcpInv') /\ (type' = "uds" => UdsInv')
      BY <2>3, <3>1 DEF IInv, EndsInv, TcpInv, UdsInv
    <3> QED
      BY <3>2, <3>3, <3>4 DEF IInv
  <2> QED
    BY <2>1, <2>2, <2>3 DEF Next, Done
<1>3. QED
  BY <1>1, <1>2, PTL DEF Spec
-----------------------------------------------------------------------------
(***************************************************************************)
(* Every variable keeps its type and the kernel's buffer its bound, in     *)
(* every benchmark.                                                        *)
(***************************************************************************)
THEOREM TypeCorrect == Spec => []TypeOK
<1>1. ASSUME IInv
      PROVE  TypeOK
  <2>1. /\ arrived \in [Procs -> Nat] /\ passed \in [Procs -> Nat]
        /\ iter \in [Procs -> 0 .. Iterations] /\ total \in [Procs -> 0 .. DataSize]
        /\ received \in Seq(Bytes) /\ channel \in Streams(type) /\ Len(channel) <= Capacity
        /\ pc \in [Procs -> Labels] /\ \A p \in Procs : pc[p] \in Lines(type, p)
        /\ \A p \in Procs : iter[p] = Iterations => pc[p] \in Ended(type)
    BY <1>1 DEF IInv, SyncInv, TransferInv, StreamTypeOK, LoopInv
  <2>2. pc \in [Procs -> Lines(type, "sender") \cup Lines(type, "receiver")]
    BY <2>1 DEF Procs
  <2>3. ASSUME type = "pipe" PROVE Pipe!TypeOK
    <3>1. Pipe!TransferTypeOK /\ channel \in Seq(Pipe!Bytes)
      BY <2>1, <2>3 DEF Pipe!TransferTypeOK, Pipe!Procs, Procs, Pipe!Bytes, Pipe!Tags, Bytes,
         Tags, Streams
    <3>2. reading \in BOOLEAN /\ writing \in BOOLEAN
      BY <1>1, <2>3 DEF IInv, EndsInv
    <3>3. pc \in [Procs -> {"w_begin", "send", "sent", "receive", "verify", "close", "done",
                            "aborted"}]
      BY <2>2, <2>3 DEF Lines
    <3> QED
      BY <2>1, <3>1, <3>2, <3>3 DEF Pipe!TypeOK, Pipe!ends, Pipe!Procs, Procs
  <2>4. ASSUME type = "fifo" PROVE Fifo!TypeOK
    <3>1. Fifo!TransferTypeOK /\ channel \in Seq(Fifo!Bytes)
      BY <2>1, <2>4 DEF Fifo!TransferTypeOK, Fifo!Procs, Procs, Fifo!Bytes, Fifo!Tags, Bytes,
         Tags, Streams
    <3>2. reading \in BOOLEAN /\ writing \in BOOLEAN
      BY <1>1, <2>4 DEF IInv, EndsInv
    <3>3. pc \in [Procs -> {"open", "opening", "w_begin", "send", "receive", "verify", "close",
                            "done", "aborted"}]
      BY <2>2, <2>4 DEF Lines
    <3> QED
      BY <2>1, <3>1, <3>2, <3>3 DEF Fifo!TypeOK, Fifo!ends, Fifo!Procs, Procs
  <2>5. ASSUME type = "tcp" PROVE Tcp!TypeOK
    <3>1. Tcp!TransferTypeOK /\ channel \in Seq(Tcp!Bytes)
      BY <2>1, <2>5 DEF Tcp!TransferTypeOK, Tcp!Procs, Procs, Tcp!Bytes, Tcp!Tags, Bytes,
         Tags, Streams
    <3>2. TcpInv
      BY <1>1, <2>5 DEF IInv
    <3>3. ASSUME NEW p \in Procs, pc[p] # "done"
          PROVE  iter[p] + 1 \in 0 .. Iterations /\ 0 \in 0 .. Iterations
      <4>1. iter[p] # Iterations
        BY <2>1, <2>5, <3>3 DEF Ended
      <4> QED
        BY <4>1, <2>1, StreamAssumption
    <3>4. listener \in 0 .. Iterations /\ connected \in 0 .. Iterations
          /\ accepted \in 0 .. Iterations /\ pending \in BOOLEAN /\ shut \in BOOLEAN
      <4>1. 0 \in 0 .. Iterations
        BY StreamAssumption
      <4>2. "sender" \in Procs /\ "receiver" \in Procs
        BY DEF Procs
      <4>3. listener \in 0 .. Iterations
        BY <3>2, <3>3, <4>1, <4>2 DEF TcpInv
      <4>4. connected \in 0 .. Iterations
        BY <3>2, <3>3, <4>1, <4>2 DEF TcpInv
      <4>5. accepted \in 0 .. Iterations
        BY <3>2, <3>3, <4>1, <4>2 DEF TcpInv
      <4> QED
        BY <3>2, <4>3, <4>4, <4>5 DEF TcpInv
    <3>5. pc \in [Procs -> {"listen", "w_ready", "accept", "connect", "w_begin", "send",
                            "shutdown", "receive", "w_end", "verify", "close", "done",
                            "aborted"}]
      BY <2>2, <2>5 DEF Lines
    <3> QED
      BY <2>1, <3>1, <3>4, <3>5 DEF Tcp!TypeOK, Tcp!Procs, Procs
  <2>6. ASSUME type = "uds" PROVE Uds!TypeOK
    <3>1. Uds!TransferTypeOK /\ channel \in Seq(Uds!Bytes)
      BY <2>1, <2>6 DEF Uds!TransferTypeOK, Uds!Procs, Procs, Uds!Bytes, Uds!Tags, Bytes,
         Tags, Streams
    <3>2. UdsInv
      BY <1>1, <2>6 DEF IInv
    <3>3. ASSUME pc["receiver"] # "done"
          PROVE  iter["receiver"] + 1 \in 0 .. Iterations
      <4>1. "receiver" \in Procs
        BY DEF Procs
      <4>2. iter["receiver"] # Iterations
        BY <2>1, <2>6, <3>3, <4>1 DEF Ended
      <4> QED
        BY <4>1, <4>2, <2>1, StreamAssumption
    <3>4. 0 \in 0 .. Iterations
      BY StreamAssumption
    <3>5. path \in 0 .. Iterations /\ listening \in 0 .. Iterations
      BY <3>2, <3>3, <3>4 DEF UdsInv
    <3>6. accepted \in 0 .. Iterations
      BY <3>2, <3>3, <3>4 DEF UdsInv
    <3>7. connected \in 0 .. Iterations /\ pending \in BOOLEAN
      BY <3>2 DEF UdsInv
    <3>8. pc \in [Procs -> {"bind", "listen", "accept", "connect", "w_begin", "send", "receive",
                            "w_end", "close", "close_listener", "verify", "done", "aborted"}]
      BY <2>2, <2>6 DEF Lines
    <3> QED
      BY <2>1, <3>1, <3>5, <3>6, <3>7, <3>8 DEF Uds!TypeOK, Uds!Procs, Procs
  <2>7. ASSUME type = "mq" PROVE Mq!TypeOK
    <3>1. Mq!TransferTypeOK /\ channel \in Seq(Seq(Mq!Bytes))
      BY <2>1, <2>7 DEF Mq!TransferTypeOK, Mq!Procs, Procs, Mq!Bytes, Mq!Tags, Bytes, Tags,
         Streams
    <3>2. pc \in [Procs -> {"w_begin", "send", "close", "receive", "verify", "done", "aborted"}]
      BY <2>2, <2>7 DEF Lines
    <3> QED
      BY <2>1, <3>1, <3>2 DEF Mq!TypeOK, Mq!Procs, Procs
  <2> QED
    BY <2>3, <2>4, <2>5, <2>6, <2>7 DEF TypeOK
<1>2. QED
  BY <1>1, Invariance, PTL

(***************************************************************************)
(* No process aborts: no write without a reader (SIGPIPE), no bind of a    *)
(* port that is in use, no failed verification.                            *)
(***************************************************************************)
THEOREM NobodyAborts == Spec => [](\A p \in Procs : pc[p] # "aborted")
<1>1. IInv => \A p \in Procs : pc[p] # "aborted"
  BY DEF IInv, TransferInv, StreamTypeOK, Labels, Waits, During
<1>2. QED
  BY <1>1, Invariance, PTL

(***************************************************************************)
(* A read takes no byte of another iteration, though it asks for as many as*)
(* its buffer holds: what the receiver has is the beginning of what this   *)
(* iteration sent.                                                         *)
(***************************************************************************)
THEOREM OwnIterationIsRead == Spec => []ReadsOwnIteration
<1>1. ASSUME IInv, pc["receiver"] \in {"receive", "w_end", "verify"}
      PROVE  /\ total["receiver"] <= DataSize
             /\ SubSeq(received, 1, total["receiver"]) =
                    SubSeq(Data(iter["receiver"] + 1), 1, total["receiver"])
  <2> DEFINE at  == total["receiver"]
             tag == iter["receiver"] + 1
  <2>1. /\ type \in StreamTypes /\ received \in Seq(Bytes) /\ iter["receiver"] \in 0 .. Iterations
        /\ at \in 0 .. DataSize
        /\ pc["receiver"] \in Ended(type) <=> iter["receiver"] = Iterations
    BY <1>1 DEF IInv, TransferInv, StreamTypeOK, LoopInv, Procs
  <2>2. tag \in Tags
    BY <1>1, <2>1, StreamAssumption DEF Ended, Tags
  <2>3. /\ pc["receiver"] \in {"receive"} \cup After(type)
        /\ ReceivedInv
    BY <1>1 DEF IInv, TransferInv, After
  <2>4. /\ type \in {"tcp", "uds"} => Len(received) = DataSize
        /\ type \notin {"tcp", "uds"} => Len(received) = at
        /\ \A b \in 1 .. at : received[b] = Byte(tag, b)
    BY <2>3 DEF ReceivedInv
  <2> HIDE DEF at, tag
  <2>5. at \in 0 .. Len(received) /\ Len(received) \in Nat
    BY <2>1, <2>4, LenProperties
  <2>6. \A b \in 1 .. at : received[b] \in Bytes
    BY <2>1, <2>5, ElementOfSeq
  <2>7. /\ SubSeq(received, 1, at) \in Seq(Bytes)
        /\ Len(SubSeq(received, 1, at)) = at
        /\ \A b \in 1 .. at : SubSeq(received, 1, at)[b] = Byte(tag, b)
    <3>1. 1 \in Int /\ at \in Int
      BY <2>5
    <3>2. /\ SubSeq(received, 1, at) \in Seq(Bytes)
          /\ Len(SubSeq(received, 1, at)) = IF 1 <= at THEN at - 1 + 1 ELSE 0
          /\ \A b \in 1 .. at - 1 + 1 : SubSeq(received, 1, at)[b] = received[1 + b - 1]
      BY <2>6, <3>1, SubSeqProperties
    <3>3. \A b \in 1 .. at : b \in 1 .. at - 1 + 1 /\ 1 + b - 1 = b
      BY <2>5
    <3>4. Len(SubSeq(received, 1, at)) = at
      BY <3>2, <2>5
    <3> QED
      BY <3>2, <3>3, <3>4, <2>4
  <2>8. /\ SubSeq(Data(tag), 1, at) \in Seq(Bytes)
        /\ Len(SubSeq(Data(tag), 1, at)) = at
        /\ \A b \in 1 .. at : SubSeq(Data(tag), 1, at)[b] = Byte(tag, b)
    <3>1. 0 \in 0 .. DataSize /\ at \in 0 .. DataSize /\ 0 + 1 = 1 /\ at - 0 = at
          /\ \A b \in 1 .. at : 0 + b = b
      BY <2>1, StreamAssumption
    <3>2. /\ SubSeq(Data(tag), 0 + 1, at) \in Seq(Bytes)
          /\ Len(SubSeq(Data(tag), 0 + 1, at)) = at - 0
          /\ \A b \in 1 .. at - 0 : SubSeq(Data(tag), 0 + 1, at)[b] = Byte(tag, 0 + b)
      BY <2>2, <3>1, Chunk
    <3> QED
      BY <3>1, <3>2
  <2>9. \A b \in 1 .. Len(SubSeq(received, 1, at)) :
            SubSeq(received, 1, at)[b] = SubSeq(Data(tag), 1, at)[b]
    BY <2>7, <2>8
  <2>10. SubSeq(received, 1, at) = SubSeq(Data(tag), 1, at)
    BY <2>7, <2>8, <2>9, SeqEqual
  <2>11. at <= DataSize
    BY <2>1
  <2> QED
    BY <2>10, <2>11 DEF at, tag
<1>2. IInv => ReadsOwnIteration
  BY <1>1 DEF ReadsOwnIteration
<1>3. QED
  BY <1>2, Invariance, PTL

(***************************************************************************)
(* VerifyDataReceived gets this iteration's data, all of it, though it     *)
(* would not notice another iteration's or a vector of zeros.              *)
(***************************************************************************)
THEOREM FreshDataIsVerified == Spec => []VerifiesFreshData
<1>1. IInv => VerifiesFreshData
  BY Verifying DEF IInv, VerifiesFreshData
<1>2. QED
  BY <1>1, Invariance, PTL

(***************************************************************************)
(* The pipe and the FIFO have a reader while the sender sends, and lose    *)
(* their writer only with the rest of the iteration's bytes in the buffer. *)
(***************************************************************************)
THEOREM EndsAreOpen == Spec => []EndsStayOpen
<1>1. ASSUME IInv, type \in {"pipe", "fifo"}, pc["sender"] = "send"
      PROVE  reading
  <2>1. pc["receiver"] \in {"w_begin", "receive"}
    BY <1>1, Sending DEF IInv
  <2> QED
    BY <2>1, <1>1 DEF IInv, EndsInv
<1>2. ASSUME IInv, type \in {"pipe", "fifo"}, pc["receiver"] = "receive", ~writing
      PROVE  Len(channel) = DataSize - total["receiver"]
  <2>1. pc["sender"] \in {"open", "done"}
    BY <1>2 DEF IInv, EndsInv
  <2>2. /\ iter["sender"] = iter["receiver"] =>
               pc["sender"] \in {"w_begin", "send"} \cup After(type)
        /\ Holds(type, channel, iter["receiver"] + 1, total["receiver"],
                 IF iter["sender"] = iter["receiver"] THEN At("sender") ELSE DataSize)
    BY <1>2, Receiving DEF IInv
  <2>3. iter["sender"] # iter["receiver"]
    BY <2>1, <2>2 DEF After
  <2>4. HoldsBytes(channel, iter["receiver"] + 1, total["receiver"], DataSize)
    BY <2>2, <2>3, <1>2 DEF Holds
  <2> QED
    BY <2>4 DEF HoldsBytes
<1>3. IInv => EndsStayOpen
  BY <1>1, <1>2 DEF EndsStayOpen
<1>4. QED
  BY <1>3, Invariance, PTL

(***************************************************************************)
(* Both sides of tcp and uds transfer through this iteration's connection, *)
(* and the sender of tcp connects to this iteration's listener.            *)
(***************************************************************************)
THEOREM ConnectionIsOwn == Spec => []OwnConnection
<1>1. ASSUME IInv, type = "tcp"
      PROVE  OwnConnection
  <2>1. TcpInv /\ SyncInv /\ TransferInv
    BY <1>1 DEF IInv
  <2>2. /\ pc["sender"] = "send" => connected = iter["sender"] + 1
        /\ pc["receiver"] = "receive" => /\ connected = iter["receiver"] + 1
                                         /\ accepted = iter["receiver"] + 1
    BY <2>1 DEF TcpInv
  <2>3. pc["sender"] # "receive" /\ pc["receiver"] # "send"
    BY <2>1, <1>1 DEF TransferInv, LoopInv, Lines, Procs
  <2>4. pc["sender"] = "connect" => listener = iter["sender"] + 1
    <3>1. pc["sender"] = "connect" => /\ iter["sender"] = iter["receiver"]
                                      /\ pc["receiver"] \in {"w_ready", "accept", "w_begin"}
      BY <2>1, <1>1, TcpPlaces
    <3> QED
      BY <3>1, <2>1 DEF TcpInv
  <2> QED
    BY <2>2, <2>3, <2>4, <1>1 DEF OwnConnection, Procs
<1>2. ASSUME IInv, type = "uds"
      PROVE  OwnConnection
  <2>1. UdsInv /\ SyncInv /\ TransferInv
    BY <1>2 DEF IInv
  <2>2. /\ pc["sender"] = "send" => connected = iter["sender"] + 1
        /\ pc["receiver"] = "receive" => /\ connected = iter["receiver"] + 1
                                         /\ accepted = iter["receiver"] + 1
    BY <2>1 DEF UdsInv
  <2>3. pc["sender"] # "receive" /\ pc["receiver"] # "send"
    BY <2>1, <1>2 DEF TransferInv, LoopInv, Lines, Procs
  <2> QED
    BY <2>2, <2>3, <1>2 DEF OwnConnection, Procs
<1>3. IInv => OwnConnection
  BY <1>1, <1>2 DEF OwnConnection
<1>4. QED
  BY <1>3, Invariance, PTL
-----------------------------------------------------------------------------
\* What Blocked says of the line p is at.
LEMMA BlockedLines ==
    ASSUME SyncInv, TransferInv, NEW p \in Procs, Blocked(p)
    PROVE  /\ pc[p] \in Waits \cup {"send", "receive", "done", "opening", "accept", "connect"}
           /\ pc[p] \in Waits => /\ passed[p] < arrived[p]
                                 /\ \E q \in Procs : arrived[q] < arrived[p]
           /\ pc[p] = "send" => Len(channel) = Capacity
           /\ pc[p] = "receive" => channel = <<>>
           /\ type = "fifo" /\ pc[p] = "opening" => ~(reading /\ writing)
           /\ type \in {"tcp", "uds"} /\ pc[p] = "accept" => ~pending
           /\ type = "tcp" /\ pc[p] = "connect" => listener = 0
           /\ type = "uds" /\ pc[p] = "connect" => path = 0 \/ path # listening \/ pending
<1>1. pc[p] \in Lines(type, p) /\ pc[p] # "aborted"
  BY DEF TransferInv, LoopInv, StreamTypeOK, Labels, Waits, During
<1>2. /\ arrived[p] \in Nat /\ passed[p] \in Nat
      /\ passed[p] < arrived[p] => pc[p] \in Waits
  BY DEF SyncInv
<1>3. CASE type = "pipe"
  <2>1. Pipe!Blocked(p)
    BY <1>3 DEF Blocked
  <2> QED
    BY <2>1, <1>1, <1>2, <1>3
    DEF Pipe!Blocked, Pipe!Stuck, Pipe!Barrier!Waiting, Pipe!Procs, Procs, Waits
<1>4. CASE type = "fifo"
  <2>1. Fifo!Blocked(p)
    BY <1>4 DEF Blocked
  <2> QED
    BY <2>1, <1>1, <1>2, <1>4
    DEF Fifo!Blocked, Fifo!Stuck, Fifo!Barrier!Waiting, Fifo!Procs, Procs, Waits
<1>5. CASE type = "tcp"
  <2>1. Tcp!Blocked(p)
    BY <1>5 DEF Blocked
  <2> QED
    BY <2>1, <1>1, <1>2, <1>5
    DEF Tcp!Blocked, Tcp!Stuck, Tcp!Barrier!Waiting, Tcp!Procs, Procs, Waits
<1>6. CASE type = "uds"
  <2>1. Uds!Blocked(p)
    BY <1>6 DEF Blocked
  <2> QED
    BY <2>1, <1>1, <1>2, <1>6
    DEF Uds!Blocked, Uds!Stuck, Uds!Barrier!Waiting, Uds!Procs, Procs, Waits
<1>7. CASE type = "mq"
  <2>1. Mq!Blocked(p)
    BY <1>7 DEF Blocked
  <2> QED
    BY <2>1, <1>1, <1>2, <1>7
    DEF Mq!Blocked, Mq!Stuck, Mq!Barrier!Waiting, Mq!Procs, Procs, Waits
<1> QED
  BY <1>3, <1>4, <1>5, <1>6, <1>7 DEF TransferInv, StreamTypeOK, StreamTypes

\* When all that are at a wait wait in vain, both processes have returned from as
\* many waits, and at most one is at the next.
LEMMA MeetUp ==
    ASSUME SyncInv,
           \A p \in Procs : pc[p] \in Waits => /\ passed[p] < arrived[p]
                                               /\ \E q \in Procs : arrived[q] < arrived[p]
    PROVE  /\ Returns(type, iter["sender"], pc["sender"]) =
                  Returns(type, iter["receiver"], pc["receiver"])
           /\ pc["sender"] \notin Waits \/ pc["receiver"] \notin Waits
<1> DEFINE s == "sender"
           r == "receiver"
<1>1. /\ arrived[s] \in Nat /\ arrived[r] \in Nat /\ passed[s] \in Nat /\ passed[r] \in Nat
      /\ arrived[s] = passed[s] \/ arrived[s] = passed[s] + 1
      /\ arrived[r] = passed[r] \/ arrived[r] = passed[r] + 1
      /\ passed[s] <= arrived[r] /\ passed[r] <= arrived[s]
      /\ pc[s] \notin Waits => arrived[s] = passed[s]
      /\ pc[r] \notin Waits => arrived[r] = passed[r]
  BY DEF SyncInv, Procs
<1>2. /\ pc[s] \in Waits => passed[s] < arrived[s] /\ arrived[r] < arrived[s]
      /\ pc[r] \in Waits => passed[r] < arrived[r] /\ arrived[s] < arrived[r]
  BY <1>1 DEF Procs
<1>3. passed[s] = passed[r] /\ (pc[s] \notin Waits \/ pc[r] \notin Waits)
  BY <1>1, <1>2
<1> QED
  BY <1>3 DEF SyncInv, Procs

\* Who sends and who receives is not stopped by the kernel's buffer for ever: the
\* other has not filled it, or has not emptied it, unless it is at a wait.
LEMMA BuffersMove ==
    ASSUME SyncInv, TransferInv,
           Returns(type, iter["sender"], pc["sender"]) =
               Returns(type, iter["receiver"], pc["receiver"]),
           pc["sender"] = "send" => Len(channel) = Capacity,
           pc["receiver"] = "receive" => channel = <<>>
    PROVE  pc["sender"] \notin During /\ pc["receiver"] \notin During
<1>1. /\ type \in StreamTypes /\ iter["sender"] \in Nat /\ iter["receiver"] \in Nat
      /\ pc["sender"] \in Lines(type, "sender")
      /\ pc["receiver"] \in Lines(type, "receiver")
  BY StreamAssumption DEF TransferInv, StreamTypeOK, LoopInv, Procs
<1>2. iter["sender"] = iter["receiver"] =>
          Stage(type, pc["sender"]) = Stage(type, pc["receiver"])
  <2>1. /\ Stage(type, pc["sender"]) \in 0 .. 3
        /\ Stage(type, pc["receiver"]) \in 0 .. 3
    BY <1>1 DEF Stage, During, After
  <2> QED
    BY <1>1, <2>1 DEF Returns
<1>3. Stage(type, "w_begin") < Stage(type, "send") /\ Stage(type, "receive") = Stage(type, "send")
  BY <1>1 DEF Stage, During, After, StreamTypes
<1>4. Stage(type, "send") \in Nat /\ Stage(type, "w_begin") \in Nat
  BY <1>1 DEF Stage, During, After, StreamTypes
<1>5. ~(pc["sender"] = "send" /\ pc["receiver"] = "receive")
  <2>1. Len(<<>>) # Capacity
    BY StreamAssumption
  <2> QED
    BY <2>1
<1>6. pc["sender"] # "send"
  <2>1. SUFFICES ASSUME pc["sender"] = "send"
                 PROVE  FALSE
    OBVIOUS
  <2>2. iter["receiver"] = iter["sender"] /\ pc["receiver"] \in {"w_begin", "receive"}
    BY <2>1, Sending
  <2> QED
    BY <2>1, <2>2, <1>2, <1>3, <1>4, <1>5
<1>7. pc["receiver"] # "receive"
  <2>1. SUFFICES ASSUME pc["receiver"] = "receive"
                 PROVE  FALSE
    OBVIOUS
  <2>2. iter["receiver"] = iter["sender"] /\ pc["sender"] \in {"w_begin", "send"}
    BY <2>1, Starving
  <2> QED
    BY <2>1, <2>2, <1>2, <1>3, <1>4, <1>5
<1>8. pc["sender"] # "receive" /\ pc["receiver"] # "send"
  BY <1>1 DEF Lines
<1> QED
  BY <1>6, <1>7, <1>8 DEF During

\* pipe and mq: both wait at the one wait, or have ended.
LEMMA PipeAndMqEnd ==
    ASSUME SyncInv, TransferInv, type \in {"pipe", "mq"},
           \A p \in Procs : pc[p] \in {"w_begin", "done"},
           Returns(type, iter["sender"], pc["sender"]) =
               Returns(type, iter["receiver"], pc["receiver"]),
           pc["sender"] \notin Waits \/ pc["receiver"] \notin Waits
    PROVE  AllDone
<1>1. /\ iter["sender"] \in Nat /\ iter["receiver"] \in Nat
      /\ \A p \in Procs : pc[p] = "done" <=> iter[p] = Iterations
  BY StreamAssumption DEF TransferInv, StreamTypeOK, LoopInv, Procs, Ended
<1>2. \A p \in Procs : Returns(type, iter[p], pc[p]) = iter[p]
  BY <1>1 DEF Returns, Stage, During, After, Procs
<1>3. iter["sender"] = iter["receiver"]
  BY <1>2 DEF Procs
<1> QED
  BY <1>1, <1>3 DEF AllDone, Procs, Waits

\* fifo: who opens it finds that the other has it open, or is to open it next.
LEMMA FifoEnds ==
    ASSUME SyncInv, TransferInv, EndsInv, type = "fifo",
           \A p \in Procs : /\ pc[p] \in {"opening", "w_begin", "done"}
                            /\ pc[p] = "opening" => ~(reading /\ writing),
           Returns(type, iter["sender"], pc["sender"]) =
               Returns(type, iter["receiver"], pc["receiver"]),
           pc["sender"] \notin Waits \/ pc["receiver"] \notin Waits
    PROVE  AllDone
<1>1. /\ iter["sender"] \in Nat /\ iter["receiver"] \in Nat
      /\ \A p \in Procs : pc[p] = "done" <=> iter[p] = Iterations
  BY StreamAssumption DEF TransferInv, StreamTypeOK, LoopInv, Procs, Ended
<1>2. \A p \in Procs : Returns(type, iter[p], pc[p]) = iter[p]
  BY <1>1 DEF Returns, Stage, During, After, Procs
<1>3. iter["sender"] = iter["receiver"]
  BY <1>2 DEF Procs
<1>4. /\ reading = (pc["receiver"] \notin {"open", "done"})
      /\ writing = (pc["sender"] \notin {"open", "done"})
  BY DEF EndsInv
<1> QED
  BY <1>1, <1>3, <1>4 DEF AllDone, Procs, Waits

\* tcp: connect finds the listener of this iteration, and accept its connection.
LEMMA TcpEnds ==
    ASSUME SyncInv, TransferInv, TcpInv, type = "tcp",
           \A p \in Procs : /\ pc[p] \in Waits \cup {"accept", "connect", "done"}
                            /\ pc[p] = "accept" => ~pending
                            /\ pc[p] = "connect" => listener = 0,
           Returns(type, iter["sender"], pc["sender"]) =
               Returns(type, iter["receiver"], pc["receiver"]),
           pc["sender"] \notin Waits \/ pc["receiver"] \notin Waits
    PROVE  AllDone
<1> DEFINE ss == Stage("tcp", pc["sender"])
           rs == Stage("tcp", pc["receiver"])
<1>1. /\ iter["sender"] \in Nat /\ iter["receiver"] \in Nat
      /\ \A p \in Procs : pc[p] = "done" <=> iter[p] = Iterations
  BY StreamAssumption DEF TransferInv, StreamTypeOK, LoopInv, Procs, Ended
<1>2. /\ pc["sender"] \in {"w_ready", "w_begin", "w_end", "connect", "done"}
      /\ pc["receiver"] \in {"w_ready", "w_begin", "w_end", "accept", "done"}
  BY DEF TransferInv, LoopInv, Lines, Procs, Waits
<1>3. /\ ss \in 0 .. 2 /\ rs \in 0 .. 2
      /\ ss = 0 <=> pc["sender"] \in {"w_ready", "done"}
      /\ rs = 0 <=> pc["receiver"] \in {"w_ready", "done"}
      /\ ss = 2 <=> pc["sender"] = "w_end"
      /\ rs = 2 <=> pc["receiver"] = "w_end"
  BY <1>2 DEF Stage, During, After
<1>4. 3 * iter["sender"] + ss = 3 * iter["receiver"] + rs
  BY DEF Returns
<1>5. iter["sender"] = iter["receiver"] /\ ss = rs
  BY <1>1, <1>3, <1>4
<1>6. CASE ss = 1
  <2>1. pc["sender"] \in {"connect", "w_begin"} /\ pc["receiver"] \in {"accept", "w_begin"}
    BY <1>2, <1>3, <1>5, <1>6
  <2>2. listener # 0
    BY <2>1, <1>1 DEF TcpInv
  <2>3. pc["sender"] = "w_begin" /\ pc["receiver"] = "accept"
    BY <2>1, <2>2 DEF Procs, Waits
  <2>4. pending
    BY <2>3 DEF TcpInv
  <2> QED
    BY <2>3, <2>4 DEF Procs
<1>7. CASE ss = 2
  BY <1>3, <1>5, <1>7 DEF Waits
<1>8. CASE ss = 0
  <2>1. pc["sender"] \in {"w_ready", "done"} /\ pc["receiver"] \in {"w_ready", "done"}
    BY <1>3, <1>5, <1>8
  <2> QED
    BY <2>1, <1>1, <1>5 DEF AllDone, Procs, Waits
<1> QED
  BY <1>3, <1>6, <1>7, <1>8

\* uds: accept waits for a connection that comes, or one is lost.
LEMMA UdsEnds ==
    ASSUME SyncInv, TransferInv, UdsInv, type = "uds",
           \A p \in Procs :
              /\ pc[p] \in Waits \cup {"accept", "connect", "done"}
              /\ pc[p] = "accept" => ~pending
              /\ pc[p] = "connect" => path = 0 \/ path # listening \/ pending,
           Returns(type, iter["sender"], pc["sender"]) =
               Returns(type, iter["receiver"], pc["receiver"]),
           pc["sender"] \notin Waits \/ pc["receiver"] \notin Waits
    PROVE  AllDone \/ Lost
<1> DEFINE ss == Stage("uds", pc["sender"])
           rs == Stage("uds", pc["receiver"])
<1>1. /\ iter["sender"] \in Nat /\ iter["receiver"] \in Nat
      /\ \A p \in Procs : pc[p] = "done" <=> iter[p] = Iterations
  BY StreamAssumption DEF TransferInv, StreamTypeOK, LoopInv, Procs, Ended
<1>2. /\ pc["sender"] \in {"w_begin", "w_end", "connect", "done"}
      /\ pc["receiver"] \in {"w_begin", "w_end", "accept", "done"}
  BY DEF TransferInv, LoopInv, Lines, Procs, Waits
<1>3. /\ ss \in 0 .. 1 /\ rs \in 0 .. 1
      /\ ss = 1 <=> pc["sender"] = "w_end"
      /\ rs = 1 <=> pc["receiver"] = "w_end"
  BY <1>2 DEF Stage, During, After
<1>4. 2 * iter["sender"] + ss = 2 * iter["receiver"] + rs
  BY DEF Returns
<1>5. iter["sender"] = iter["receiver"] /\ ss = rs
  BY <1>1, <1>3, <1>4
<1>6. pc["sender"] # "w_end" /\ pc["receiver"] # "w_end"
  BY <1>3, <1>5 DEF Waits
<1>7. CASE pc["sender"] = "done" \/ pc["receiver"] = "done"
  BY <1>1, <1>5, <1>7 DEF AllDone, Procs
<1>8. CASE pc["sender"] = "connect" /\ pc["receiver"] \in {"w_begin", "accept"}
  <2>1. path = iter["receiver"] + 1 /\ listening = iter["receiver"] + 1
    BY <1>8 DEF UdsInv
  <2>2. ~pending
    BY <1>8 DEF UdsInv
  <2> QED
    BY <2>1, <2>2, <1>1, <1>8 DEF Procs
<1>9. CASE pc["sender"] = "w_begin" /\ pc["receiver"] = "accept"
  <2>1. ~pending
    BY <1>9 DEF Procs
  <2>2. connected = iter["sender"] /\ connected # 0
    BY <1>9, <2>1 DEF UdsInv
  <2> QED
    BY <2>1, <2>2 DEF Lost, Uds!Lost
<1> QED
  BY <1>2, <1>6, <1>7, <1>8, <1>9 DEF Waits

(***************************************************************************)
(* The sender and the receiver never wait for each other: in all five      *)
(* benchmarks one of them can go on until both have ended, unless a        *)
(* connection is lost with an old listener of uds_bandwidth.cc.            *)
(***************************************************************************)
THEOREM NobodyWaitsInVain == Spec => []NoDeadlock
<1>1. ASSUME IInv, \A p \in Procs : Blocked(p)
      PROVE  AllDone \/ Lost
  <2>1. SyncInv /\ TransferInv /\ EndsInv
    BY <1>1 DEF IInv
  <2>2. \A p \in Procs :
           /\ pc[p] \in Waits \cup {"send", "receive", "done", "opening", "accept", "connect"}
           /\ pc[p] \in Waits => /\ passed[p] < arrived[p]
                                 /\ \E q \in Procs : arrived[q] < arrived[p]
           /\ pc[p] = "send" => Len(channel) = Capacity
           /\ pc[p] = "receive" => channel = <<>>
           /\ type = "fifo" /\ pc[p] = "opening" => ~(reading /\ writing)
           /\ type \in {"tcp", "uds"} /\ pc[p] = "accept" => ~pending
           /\ type = "tcp" /\ pc[p] = "connect" => listener = 0
           /\ type = "uds" /\ pc[p] = "connect" => path = 0 \/ path # listening \/ pending
    BY <2>1, <1>1, BlockedLines
  <2>3. /\ Returns(type, iter["sender"], pc["sender"]) =
               Returns(type, iter["receiver"], pc["receiver"])
        /\ pc["sender"] \notin Waits \/ pc["receiver"] \notin Waits
    <3>1. \A p \in Procs : pc[p] \in Waits => /\ passed[p] < arrived[p]
                                              /\ \E q \in Procs : arrived[q] < arrived[p]
      BY <2>2
    <3> QED
      BY <2>1, <3>1, MeetUp
  <2>4. pc["sender"] \notin During /\ pc["receiver"] \notin During
    <3>1. /\ pc["sender"] = "send" => Len(channel) = Capacity
          /\ pc["receiver"] = "receive" => channel = <<>>
      BY <2>2 DEF Procs
    <3> QED
      BY <2>1, <2>3, <3>1, BuffersMove
  <2>5. \A p \in Procs : /\ pc[p] \in Lines(type, p)
                         /\ pc[p] \in Waits \cup {"done", "opening", "accept", "connect"}
    BY <2>1, <2>2, <2>4 DEF TransferInv, LoopInv, During, Procs
  <2>6. CASE type \in {"pipe", "mq"}
    <3>1. \A p \in Procs : pc[p] \in {"w_begin", "done"}
      BY <2>5, <2>6 DEF Lines, Waits, Procs
    <3> QED
      BY <2>1, <2>3, <2>6, <3>1, PipeAndMqEnd
  <2>7. CASE type = "fifo"
    <3>1. \A p \in Procs : /\ pc[p] \in {"opening", "w_begin", "done"}
                           /\ pc[p] = "opening" => ~(reading /\ writing)
      BY <2>2, <2>5, <2>7 DEF Lines, Waits, Procs
    <3> QED
      BY <2>1, <2>3, <2>7, <3>1, FifoEnds
  <2>8. CASE type = "tcp"
    <3>1. \A p \in Procs : /\ pc[p] \in Waits \cup {"accept", "connect", "done"}
                           /\ pc[p] = "accept" => ~pending
                           /\ pc[p] = "connect" => listener = 0
      BY <2>2, <2>5, <2>8 DEF Lines, Procs
    <3>2. TcpInv
      BY <1>1, <2>8 DEF IInv
    <3> QED
      BY <2>1, <2>3, <2>8, <3>1, <3>2, TcpEnds
  <2>9. CASE type = "uds"
    <3>1. \A p \in Procs :
             /\ pc[p] \in Waits \cup {"accept", "connect", "done"}
             /\ pc[p] = "accept" => ~pending
             /\ pc[p] = "connect" => path = 0 \/ path # listening \/ pending
      BY <2>2, <2>5, <2>9 DEF Lines, Procs
    <3>2. UdsInv
      BY <1>1, <2>9 DEF IInv
    <3> QED
      BY <2>1, <2>3, <2>9, <3>1, <3>2, UdsEnds
  <2> QED
    BY <2>1, <2>6, <2>7, <2>8, <2>9 DEF TransferInv, StreamTypeOK, StreamTypes
<1>2. IInv => NoDeadlock
  BY <1>1 DEF NoDeadlock
<1>3. QED
  BY <1>2, Invariance, PTL
-----------------------------------------------------------------------------
\* A set of numbers has a smallest one: what takes the place of an induction.
LEMMA Least ==
    ASSUME NEW T \in SUBSET Nat, T # {}
    PROVE  \E x \in T : \A y \in T : x <= y
<1> DEFINE F == {0 .. x : x \in T}
           R == StrictSubsetOrdering(Nat)
<1>1. IsWellFoundedOn(R, FiniteSubsetsOf(Nat))
  BY FS_StrictSubsetOrderingWellFounded
<1>2. \A x \in T : 0 .. x \subseteq Nat /\ IsFiniteSet(0 .. x)
  BY FS_Interval
<1>3. F \subseteq FiniteSubsetsOf(Nat) /\ F # {}
  BY <1>2 DEF FiniteSubsetsOf
<1>4. PICK I \in F : \A J \in F : ~(<<J, I>> \in R)
  <2> HIDE DEF F, R
  <2> QED
    BY <1>1, <1>3, WFMin
<1>5. PICK x \in T : I = 0 .. x
  OBVIOUS
<1>6. ASSUME NEW y \in T, y < x
      PROVE  FALSE
  <2>1. 0 .. y \in F /\ 0 .. y \subseteq Nat /\ 0 .. x \subseteq Nat
    OBVIOUS
  <2>2. 0 .. y \subseteq 0 .. x /\ x \in 0 .. x /\ x \notin 0 .. y
    BY <1>6
  <2>3. <<0 .. y, I>> \in R
    BY <2>1, <2>2, <1>5 DEF StrictSubsetOrdering
  <2> QED
    BY <2>1, <2>3, <1>4
<1> QED
  BY <1>6

\* The sums that BytesConserved defines by recursion are those of a function
\* that grows as they do.
LEMMA Summing ==
    ASSUME NEW c, NEW t, Len(c) \in Nat, NEW sum \in [0 .. Len(c) -> Nat], sum[0] = 0,
           \A j \in 1 .. Len(c) : sum[j] = sum[j - 1] + (IF t = "mq" THEN Len(c[j]) ELSE 1)
    PROVE  LET held[j \in 0 .. Len(c)] ==
                   IF j = 0 THEN 0
                   ELSE held[j - 1] + (IF t = "mq" THEN Len(c[j]) ELSE 1)
           IN  held[Len(c)] = sum[Len(c)]
<1> DEFINE n == Len(c)
           held[j \in 0 .. Len(c)] ==
               IF j = 0 THEN 0
               ELSE held[j - 1] + (IF t = "mq" THEN Len(c[j]) ELSE 1)
           Sums(f) == f = [j \in 0 .. Len(c) |->
                              IF j = 0 THEN 0
                              ELSE f[j - 1] + (IF t = "mq" THEN Len(c[j]) ELSE 1)]
<1>1. Sums(sum)
  OBVIOUS
<1>2. held = CHOOSE f : Sums(f)
  OBVIOUS
<1>3. Sums(held)
  <2> HIDE DEF held, Sums
  <2> QED
    BY <1>1, <1>2
<1> HIDE DEF held
<1>4. held = [j \in 0 .. Len(c) |->
                 IF j = 0 THEN 0
                 ELSE held[j - 1] + (IF t = "mq" THEN Len(c[j]) ELSE 1)]
  BY <1>3
<1>5. held[Len(c)] = sum[Len(c)]
  <2> SUFFICES ASSUME held[Len(c)] # sum[Len(c)]
               PROVE  FALSE
    OBVIOUS
  <2> DEFINE T == {j \in 0 .. Len(c) : held[j] # sum[j]}
  <2>1. T \in SUBSET Nat /\ T # {}
    OBVIOUS
  <2>2. PICK j \in T : \A i \in T : j <= i
    <3> HIDE DEF T
    <3> QED
      BY <2>1, Least
  <2>3. j # 0
    BY <1>4
  <2>4. j - 1 \in 0 .. Len(c) /\ j - 1 \notin T /\ j \in 1 .. Len(c)
    BY <2>2, <2>3
  <2>5. held[j] = held[j - 1] + (IF t = "mq" THEN Len(c[j]) ELSE 1)
    BY <2>4, <1>4
  <2> QED
    BY <2>2, <2>4, <2>5
<1> QED
  BY <1>5 DEF held

\* What a channel holds, its bytes or the lengths of its messages, adds up to
\* the distance between its ends.
LEMMA HeldSum ==
    ASSUME NEW t \in StreamTypes, NEW c \in Streams(t), NEW n \in Tags,
           NEW a \in 0 .. DataSize, NEW b \in 0 .. DataSize, Holds(t, c, n, a, b)
    PROVE  /\ Len(c) \in Nat
           /\ \E sum \in [0 .. Len(c) -> Nat] :
                 /\ sum[0] = 0
                 /\ \A j \in 1 .. Len(c) :
                       sum[j] = sum[j - 1] + (IF t = "mq" THEN Len(c[j]) ELSE 1)
                 /\ a + sum[Len(c)] = b
<1>1. Len(c) \in Nat /\ DataSize \in Nat
  BY LenProperties, StreamAssumption DEF Streams
<1>2. CASE t = "mq"
  <2>1. PICK cut \in [0 .. Len(c) -> 0 .. DataSize] : Cuts(c, n, a, b, cut)
    BY <1>2 DEF Holds, HoldsMessages
  <2>2. /\ cut[0] = a /\ cut[Len(c)] = b
        /\ \A j, k \in 0 .. Len(c) : j < k => cut[j] < cut[k]
        /\ \A k \in 1 .. Len(c) : c[k] = SubSeq(Data(n), cut[k - 1] + 1, cut[k])
    BY <2>1 DEF Cuts
  <2> DEFINE sum == [j \in 0 .. Len(c) |-> cut[j] - a]
  <2>3. sum \in [0 .. Len(c) -> Nat]
    <3>1. \A j \in 0 .. Len(c) : cut[j] \in 0 .. DataSize
      OBVIOUS
    <3>2. \A j \in 0 .. Len(c) : j = 0 \/ cut[0] < cut[j]
      BY <1>1, <2>2
    <3>3. \A j \in 0 .. Len(c) : cut[j] - a \in Nat
      BY <3>1, <3>2, <2>2, <1>1
    <3> QED
      BY <3>3
  <2>4. sum[0] = 0 /\ a + sum[Len(c)] = b
    BY <2>2, <1>1
  <2>5. ASSUME NEW j \in 1 .. Len(c)
        PROVE  sum[j] = sum[j - 1] + Len(c[j])
    <3>1. j \in 0 .. Len(c) /\ j - 1 \in 0 .. Len(c) /\ j - 1 < j
      BY <1>1
    <3>2. cut[j - 1] \in 0 .. DataSize /\ cut[j] \in 0 .. DataSize /\ cut[j - 1] < cut[j]
      BY <3>1, <2>2
    <3>3. PICK lo \in 0 .. DataSize : lo = cut[j - 1]
      BY <3>2
    <3>4. PICK hi \in lo .. DataSize : hi = cut[j]
      BY <3>2, <3>3, <1>1
    <3>5. Len(SubSeq(Data(n), lo + 1, hi)) = hi - lo
      BY Chunk
    <3>6. Len(c[j]) = hi - lo
      BY <3>3, <3>4, <3>5, <2>2
    <3>7. sum[j] = hi - a /\ sum[j - 1] = lo - a
      BY <3>1, <3>3, <3>4
    <3> HIDE DEF sum
    <3> QED
      BY <3>6, <3>7, <1>1
  <2> HIDE DEF sum
  <2> QED
    BY <2>3, <2>4, <2>5, <1>1, <1>2
<1>3. CASE t # "mq"
  <2> DEFINE sum == [j \in 0 .. Len(c) |-> j]
  <2>1. Len(c) = b - a
    BY <1>3 DEF Holds, HoldsBytes
  <2>2. sum \in [0 .. Len(c) -> Nat] /\ sum[0] = 0 /\ a + sum[Len(c)] = b
    BY <2>1, <1>1
  <2>3. \A j \in 1 .. Len(c) : sum[j] = sum[j - 1] + 1
    BY <1>1
  <2> HIDE DEF sum
  <2> QED
    BY <2>2, <2>3, <1>1, <1>3
<1> QED
  BY <1>2, <1>3

(***************************************************************************)
(* What the receiver has and what the kernel holds add up to what the      *)
(* sender has counted of the receiver's iteration.                         *)
(***************************************************************************)
THEOREM NothingIsLost == Spec => []BytesConserved
<1>1. ASSUME IInv, pc["receiver"] = "receive"
      PROVE  BytesConserved
  <2> DEFINE behind == pc["sender"] = "w_begin" /\ iter["sender"] = iter["receiver"]
             counted == IF behind THEN 0
                        ELSE IF pc["sender"] = "send" THEN total["sender"] ELSE DataSize
             to == IF iter["sender"] = iter["receiver"] THEN At("sender") ELSE DataSize
             at == total["receiver"]
             tag == iter["receiver"] + 1
  <2>1. /\ tag \in Tags
        /\ iter["sender"] = iter["receiver"] =>
               pc["sender"] \in {"w_begin", "send"} \cup After(type)
        /\ to \in 0 .. DataSize
        /\ Holds(type, channel, tag, at, to)
    BY <1>1, Receiving DEF IInv
  <2>2. type \in StreamTypes /\ channel \in Streams(type) /\ at \in 0 .. DataSize
    BY <1>1 DEF IInv, TransferInv, StreamTypeOK, Procs
  <2>3. counted = to
    <3>1. CASE iter["sender"] = iter["receiver"]
      <4>1. "w_begin" \notin During \cup After(type) /\ "send" \in During
            /\ "send" \notin After(type) /\ After(type) \cap During = {}
        BY DEF During, After
      <4> QED
        BY <4>1, <3>1, <2>1 DEF At, Position
    <3>2. CASE iter["sender"] # iter["receiver"]
      <4>1. pc["sender"] # "send"
        BY <3>2, <1>1, Sending DEF IInv
      <4> QED
        BY <4>1, <3>2
    <3> QED
      BY <3>1, <3>2
  <2> HIDE DEF to, at, tag, counted
  <2>4. /\ Len(channel) \in Nat
        /\ \E sum \in [0 .. Len(channel) -> Nat] :
              /\ sum[0] = 0
              /\ \A j \in 1 .. Len(channel) :
                    sum[j] = sum[j - 1] + (IF type = "mq" THEN Len(channel[j]) ELSE 1)
              /\ at + sum[Len(channel)] = to
    <3>1. Holds(type, channel, tag, at, to)
      BY <2>1
    <3>2. tag \in Tags /\ to \in 0 .. DataSize
      BY <2>1
    <3> QED
      BY <3>1, <3>2, <2>2, HeldSum
  <2>5. PICK sum \in [0 .. Len(channel) -> Nat] :
              /\ sum[0] = 0
              /\ \A j \in 1 .. Len(channel) :
                    sum[j] = sum[j - 1] + (IF type = "mq" THEN Len(channel[j]) ELSE 1)
              /\ at + sum[Len(channel)] = to
    BY <2>4
  <2> DEFINE held[j \in 0 .. Len(channel)] ==
                 IF j = 0 THEN 0
                 ELSE held[j - 1] + (IF type = "mq" THEN Len(channel[j]) ELSE 1)
  <2>6. held[Len(channel)] = sum[Len(channel)]
    BY <2>4, <2>5, Summing
  <2>7. at + held[Len(channel)] = counted
    <3> HIDE DEF held
    <3> QED
      BY <2>3, <2>5, <2>6
  <2> QED
    BY <2>7 DEF BytesConserved, at, counted
<1>2. IInv => BytesConserved
  BY <1>1 DEF BytesConserved
<1>3. QED
  BY <1>2, Invariance, PTL
=============================================================================
