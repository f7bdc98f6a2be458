---------------------------- MODULE DoubleBuffer ----------------------------
(***************************************************************************)
(* The pipeline that shm_bandwidth.cc and mmap_bandwidth.cc share: a buffer*)
(* of two slots in shared memory, each with its size.  In step i, between  *)
(* two barrier waits, the sender fills slot i % 2 and the receiver empties *)
(* slot (i + 1) % 2, the one filled in step i - 1.  memcpy copies one byte *)
(* per step, so the two copies overlap as they do on two processors.       *)
(* Opening, mapping and closing the memory is left to the two users of this*)
(* module; barrier.Wait() is the pair Arrive, Pass of AbstractBarrier.     *)
(***************************************************************************)
EXTENDS Naturals

CONSTANTS DataSize,    \* data_size: bytes of one transfer
          BufferSize,  \* buffer_size: bytes of one slot
          Iterations   \* num_warmups + num_iterations

ASSUME SizeAssumption == /\ DataSize \in Nat \ {0}
                         /\ BufferSize \in Nat \ {0}
                         /\ Iterations \in Nat \ {0}

VARIABLES
    arrived, passed,   \* the barrier both processes construct
    pc,                \* pc[p]: what p does next; a wait has a name w_...
    iter,              \* iter[p]: iterations p has finished
    i,                 \* i[p]: the pipeline step p is in
    count,             \* count[p]: bytes_send of the sender, bytes_received
    len,               \* len[p]: the length of p's current memcpy
    k,                 \* k[p]: how far this memcpy is
    map,               \* map[p]: the memory p has mapped, 0 for none
    size,              \* size[o][s]: data_size[s] in memory o
    bytes,             \* bytes[o][s]: the bytes of slot s of memory o
    received           \* received_data, byte by byte

barrier  == <<arrived, passed>>
pipeline == <<pc, iter, i, count, len, k, map, size, bytes, received>>

Procs == {"sender", "receiver"}
Slots == {0, 1}
Memories == 1 .. Iterations        \* at most one new object per iteration

Barrier == INSTANCE AbstractBarrier

\* Every byte is told from every other; 0 is the initial content of a vector.
DataToSend == [b \in 1 .. DataSize |-> b]
Nothing    == [b \in 1 .. DataSize |-> 0]

\* VerifyDataReceived compares an exclusive or of the bytes, which a vector of
\* zeros passes as well as the data does.
Verified == received \in {DataToSend, Nothing}

ZeroSizes  == [s \in Slots |-> 0]
ZeroBytes  == [s \in Slots |-> [b \in 1 .. BufferSize |-> 0]]

\* n_pipeline: one step per chunk, and one more to drain the second slot.
NPipeline == (DataSize + BufferSize - 1) \div BufferSize + 1

\* Mutant: PIPELINE_INDEX is 0 on both sides.
Slot_Same(p) == i[p] % 2

\* (i + PIPELINE_INDEX) % 2, with index 0 for the sender and 1 for the receiver.
Slot(p) == IF p = "sender" THEN i[p] % 2 ELSE (i[p] + 1) % 2

Smaller(a, b) == IF a < b THEN a ELSE b

PipelineInit ==
    /\ arrived = [p \in Procs |-> 0]
    /\ passed = [p \in Procs |-> 0]
    /\ iter = [p \in Procs |-> 0]
    /\ i = [p \in Procs |-> 0]
    /\ count = [p \in Procs |-> 0]
    /\ len = [p \in Procs |-> 0]
    /\ k = [p \in Procs |-> 0]
    /\ map = [p \in Procs |-> 0]
    /\ size = [o \in Memories |-> ZeroSizes]
    /\ bytes = [o \in Memories |-> ZeroBytes]
    /\ received = Nothing

Goto(p, line) == pc' = [pc EXCEPT ![p] = line]
-----------------------------------------------------------------------------
\* barrier.Wait(): be counted, and return when the other is counted too.
ArriveAt(p, line) ==
    /\ pc[p] = line
    /\ Barrier!Arrive(p)
    /\ UNCHANGED pipeline

ReturnFrom(p, line, next) ==
    /\ pc[p] = line
    /\ Barrier!Pass(p)
    /\ Goto(p, next)
    /\ UNCHANGED <<iter, i, count, len, k, map, size, bytes, received>>

\* The wait before the loop resets the loop variables; the loop itself waits.
EnterLoop(p, line) ==
    /\ pc[p] = line
    /\ Barrier!Pass(p)
    /\ i' = [i EXCEPT ![p] = 0]
    /\ count' = [count EXCEPT ![p] = 0]
    /\ Goto(p, "w_slot")
    /\ UNCHANGED <<iter, len, k, map, size, bytes, received>>

\* The end of step i: the next one, or the wait after the loop.
NextStep(p, n) ==
    /\ count' = [count EXCEPT ![p] = @ + n]
    /\ i' = [i EXCEPT ![p] = @ + 1]
    /\ Goto(p, IF i[p] + 1 < NPipeline THEN "w_slot" ELSE "w_end")

\* Mutant: the last chunk is not cut to what is left.
SendStart_Full ==
    /\ pc["sender"] = "start"
    /\ len' = [len EXCEPT !["sender"] = BufferSize]
    /\ k' = [k EXCEPT !["sender"] = 0]
    /\ Goto("sender", "copy")
    /\ UNCHANGED <<barrier, iter, i, count, map, size, bytes, received>>

\* size_to_send = min(data_size - bytes_sent, buffer_size).
SendStart ==
    /\ pc["sender"] = "start"
    /\ len' = [len EXCEPT !["sender"] = Smaller(DataSize - count["sender"], BufferSize)]
    /\ k' = [k EXCEPT !["sender"] = 0]
    /\ Goto("sender", "copy")
    /\ UNCHANGED <<barrier, iter, i, count, map, size, bytes, received>>

\* Mutant: every chunk starts at data_to_send.data().
SendByte_FromStart ==
    /\ pc["sender"] = "copy"
    /\ k["sender"] < len["sender"]
    /\ bytes' = [bytes EXCEPT ![map["sender"]][Slot("sender")][k["sender"] + 1] =
                     DataToSend[k["sender"] + 1]]
    /\ k' = [k EXCEPT !["sender"] = @ + 1]
    /\ UNCHANGED <<barrier, pc, iter, i, count, len, map, size, received>>

SendByte ==
    /\ pc["sender"] = "copy"
    /\ k["sender"] < len["sender"]
    /\ bytes' = [bytes EXCEPT ![map["sender"]][Slot("sender")][k["sender"] + 1] =
                     DataToSend[count["sender"] + k["sender"] + 1]]
    /\ k' = [k EXCEPT !["sender"] = @ + 1]
    /\ UNCHANGED <<barrier, pc, iter, i, count, len, map, size, received>>

\* The size is stored once the bytes are.
SendSize ==
    /\ pc["sender"] = "copy"
    /\ k["sender"] = len["sender"]
    /\ size' = [size EXCEPT ![map["sender"]][Slot("sender")] = len["sender"]]
    /\ NextStep("sender", len["sender"])
    /\ UNCHANGED <<barrier, iter, len, k, map, bytes, received>>

\* The size of the slot, read for the memcpy.
ReceiveSize ==
    /\ pc["receiver"] = "start"
    /\ len' = [len EXCEPT !["receiver"] = size[map["receiver"]][Slot("receiver")]]
    /\ k' = [k EXCEPT !["receiver"] = 0]
    /\ Goto("receiver", "copy")
    /\ UNCHANGED <<barrier, iter, i, count, map, size, bytes, received>>

ReceiveByte ==
    /\ pc["receiver"] = "copy"
    /\ k["receiver"] < len["receiver"]
    /\ received' = [received EXCEPT ![count["receiver"] + k["receiver"] + 1] =
                        bytes[map["receiver"]][Slot("receiver")][k["receiver"] + 1]]
    /\ k' = [k EXCEPT !["receiver"] = @ + 1]
    /\ UNCHANGED <<barrier, pc, iter, i, count, len, map, size, bytes>>

\* bytes_received grows by n: what n is differs between the two users.
ReceiveAdvance(n) ==
    /\ pc["receiver"] = "copy"
    /\ k["receiver"] = len["receiver"]
    /\ NextStep("receiver", n)
    /\ UNCHANGED <<barrier, iter, len, k, map, size, bytes, received>>

PipelineSend == SendStart \/ SendByte \/ SendSize
-----------------------------------------------------------------------------
InStep(p) == pc[p] \in {"start", "copy"}

PipelineTypeOK ==
    /\ arrived \in [Procs -> Nat]
    /\ passed \in [Procs -> Nat]
    /\ iter \in [Procs -> 0 .. Iterations]
    /\ i \in [Procs -> 0 .. NPipeline]
    /\ count \in [Procs -> 0 .. DataSize]
    /\ len \in [Procs -> 0 .. BufferSize]
    /\ k \in [Procs -> 0 .. BufferSize]
    /\ map \in [Procs -> {0} \cup Memories]
    /\ size \in [Memories -> [Slots -> 0 .. BufferSize]]
    /\ bytes \in [Memories -> [Slots -> [1 .. BufferSize -> 0 .. DataSize]]]
    /\ received \in [1 .. DataSize -> 0 .. DataSize]

(***************************************************************************)
(* While both copy, they do it in the same memory and in different slots:  *)
(* no byte and no size is written while it is read.                        *)
(***************************************************************************)
SlotExclusion ==
    InStep("sender") /\ InStep("receiver") =>
        /\ map["sender"] = map["receiver"]
        /\ Slot("sender") # Slot("receiver")

(***************************************************************************)
(* The receiver is one slot behind the sender: what it has counted is the  *)
(* same bytes in the same order, and nothing the sender has not counted.   *)
(* What it verifies is all of the data, and not the zeros of a transfer    *)
(* that moved nothing, which would pass (common.cc:73).                    *)
(***************************************************************************)
ReceivedIsPrefix ==
    /\ pc["receiver"] \in {"w_slot", "start", "copy", "w_end"} =>
           \A b \in 1 .. count["receiver"] : received[b] = DataToSend[b]
    /\ pc["receiver"] = "verify" => received = DataToSend

(***************************************************************************)
(* No memcpy passes the end of its slot, nor that of the vector it reads   *)
(* or fills: data_to_send of the sender, received_data of the receiver,    *)
(* whose lengths come from the slot (shm_bandwidth.cc:90 and :174).        *)
(***************************************************************************)
NoOverrun ==
    \A p \in Procs : pc[p] = "copy" => len[p] <= BufferSize /\ count[p] + len[p] <= DataSize
=============================================================================
