--------------------------- MODULE StreamTransfer ---------------------------
(***************************************************************************)
(* The transfer loop that pipe_, fifo_, uds_, tcp_ and mq_bandwidth.cc     *)
(* share: the sender writes data_size bytes in chunks of at most           *)
(* buffer_size into a kernel buffer, the receiver reads up to buffer_size  *)
(* bytes at a time until it has data_size of them or reads the end of file.*)
(* A read does not know where an iteration ends: that it never takes bytes *)
(* of the next one rests on the barrier and on where each file waits.      *)
(* Opening, connecting and closing is left to the users of this module;    *)
(* barrier.Wait() is the pair Arrive, Pass of AbstractBarrier.             *)
(***************************************************************************)
EXTENDS Naturals, Sequences

CONSTANTS DataSize,    \* data_size: bytes of one transfer
          BufferSize,  \* buffer_size: bytes of one chunk
          Capacity,    \* bytes (messages of a queue) the kernel keeps
          Iterations   \* num_warmups + num_iterations

ASSUME StreamAssumption == /\ DataSize \in Nat \ {0}
                           /\ BufferSize \in Nat \ {0}
                           /\ Capacity \in Nat \ {0}
                           /\ Iterations \in Nat \ {0}

VARIABLES
    arrived, passed,   \* the barrier both processes construct
    pc,                \* pc[p]: what p does next; a wait has a name w_...
    iter,              \* iter[p]: iterations p has finished
    total,             \* total[p]: total_sent of the sender, total_received
    channel,           \* what is written and not yet read, in order
    received           \* received_data

barrier  == <<arrived, passed>>
transfer == <<pc, iter, total, channel, received>>

Procs == {"sender", "receiver"}

Barrier == INSTANCE AbstractBarrier

\* Byte b of iteration n.  The code sends the same bytes in every iteration;
\* the number tells a byte that is read late from one that is not.
Byte(n, b) == <<n, b>>
Data(n)    == [b \in 1 .. DataSize |-> Byte(n, b)]
Zeros      == [b \in 1 .. DataSize |-> Byte(0, 0)]

Smaller(a, b) == IF a < b THEN a ELSE b
Larger(a, b)  == IF a < b THEN b ELSE a

\* memcpy of new into s from offset at on; appends when s ends there.
Placed(s, at, new) ==
    [b \in 1 .. Larger(Len(s), at + Len(new)) |->
        IF b \in at + 1 .. at + Len(new) THEN new[b - at] ELSE s[b]]

\* VerifyDataReceived: the size, and the bytes by their exclusive or, which does
\* not tell the iterations apart and which a vector of zeros passes too.
Verified == /\ Len(received) = DataSize
            /\ (\A b \in 1 .. DataSize : received[b][2] = b) \/ received = Zeros

TransferInit ==
    /\ arrived = [p \in Procs |-> 0]
    /\ passed = [p \in Procs |-> 0]
    /\ iter = [p \in Procs |-> 0]
    /\ total = [p \in Procs |-> 0]
    /\ channel = <<>>

Goto(p, line) == pc' = [pc EXCEPT ![p] = line]

\* The end of p's iteration: the next one, or what follows the loop.
EndIteration(p, first, end) ==
    /\ iter' = [iter EXCEPT ![p] = @ + 1]
    /\ Goto(p, IF iter[p] + 1 < Iterations THEN first ELSE end)
-----------------------------------------------------------------------------
\* barrier.Wait(): be counted, and return when the other is counted too.
ArriveAt(p, line) ==
    /\ pc[p] = line
    /\ Barrier!Arrive(p)
    /\ UNCHANGED transfer

ReturnFrom(p, line, next) ==
    /\ pc[p] = line
    /\ Barrier!Pass(p)
    /\ Goto(p, next)
    /\ UNCHANGED <<iter, total, channel, received>>

\* A mutant's way past a wait.
Skip(p, line, next) ==
    /\ pc[p] = line
    /\ Goto(p, next)
    /\ UNCHANGED <<barrier, iter, total, channel, received>>

\* The wait before the sender's loop: total_sent = 0.
BeginSending(line) ==
    /\ pc["sender"] = line
    /\ Barrier!Pass("sender")
    /\ total' = [total EXCEPT !["sender"] = 0]
    /\ Goto("sender", "send")
    /\ UNCHANGED <<iter, channel, received>>

\* Mutant: total_received and received_data are not reset.
BeginReceiving_Kept(line, fresh) ==
    /\ pc["receiver"] = line
    /\ Barrier!Pass("receiver")
    /\ Goto("receiver", "receive")
    /\ UNCHANGED <<iter, total, channel, received>>

\* The wait before the receiver's loop: total_received = 0, and received_data
\* as this iteration declared it.
BeginReceiving(line, fresh) ==
    /\ pc["receiver"] = line
    /\ Barrier!Pass("receiver")
    /\ total' = [total EXCEPT !["receiver"] = 0]
    /\ received' = fresh
    /\ Goto("receiver", "receive")
    /\ UNCHANGED <<iter, channel>>

\* write() or send(): n more bytes enter the kernel's buffer, and the loop ends
\* with data_size of them.  Without a reader SIGPIPE ends the process.
Send(reader, next) ==
    /\ pc["sender"] = "send"
    /\ \E n \in 1 .. Smaller(BufferSize, DataSize - total["sender"]) :
          /\ Len(channel) + n <= Capacity
          /\ channel' = channel \o SubSeq(Data(iter["sender"] + 1),
                                          total["sender"] + 1, total["sender"] + n)
          /\ total' = [total EXCEPT !["sender"] = @ + n]
          /\ Goto("sender", IF ~reader THEN "aborted"
                            ELSE IF total["sender"] + n < DataSize THEN "send" ELSE next)
    /\ UNCHANGED <<barrier, iter, received>>

\* Mutant: the loop ends with the first read.
Receive_Once(writer, next) ==
    /\ pc["receiver"] = "receive"
    /\ \E n \in 0 .. Smaller(BufferSize, Len(channel)) :
          /\ n = 0 => channel = <<>> /\ ~writer
          /\ received' = Placed(received, total["receiver"], SubSeq(channel, 1, n))
          /\ channel' = SubSeq(channel, n + 1, Len(channel))
          /\ total' = [total EXCEPT !["receiver"] = @ + n]
          /\ Goto("receiver", next)
    /\ UNCHANGED <<barrier, iter>>

\* read() or recv() returns n bytes; 0 bytes are the end of file, which ends
\* the loop as data_size bytes do.
Receive(writer, next) ==
    /\ pc["receiver"] = "receive"
    /\ \E n \in 0 .. Smaller(BufferSize, Len(channel)) :
          /\ n = 0 => channel = <<>> /\ ~writer
          /\ received' = Placed(received, total["receiver"], SubSeq(channel, 1, n))
          /\ channel' = SubSeq(channel, n + 1, Len(channel))
          /\ total' = [total EXCEPT !["receiver"] = @ + n]
          /\ Goto("receiver", IF n # 0 /\ total["receiver"] + n < DataSize
                              THEN "receive" ELSE next)
    /\ UNCHANGED <<barrier, iter>>

\* p has ended, or waits for the other: in the barrier, for room in the kernel's
\* buffer, or, while somebody can still write, for something to read.
Stuck(p, writer) == \/ pc[p] \in {"done", "aborted"}
                    \/ Barrier!Waiting(p)
                    \/ pc[p] = "send" /\ Len(channel) = Capacity
                    \/ pc[p] = "receive" /\ channel = <<>> /\ writer
-----------------------------------------------------------------------------
Tags == 0 .. Iterations
Bytes == Tags \X (0 .. DataSize)

TransferTypeOK ==
    /\ arrived \in [Procs -> Nat]
    /\ passed \in [Procs -> Nat]
    /\ iter \in [Procs -> 0 .. Iterations]
    /\ total \in [Procs -> 0 .. DataSize]
    /\ received \in Seq(Bytes)

(***************************************************************************)
(* pipe_bandwidth.cc:109 and its likes read up to buffer_size bytes,       *)
(* however few this iteration still needs.  What is read is nevertheless   *)
(* the beginning of what this iteration sent, in order, and no more.       *)
(***************************************************************************)
ReadsOwnIteration ==
    pc["receiver"] \in {"receive", "w_end", "verify"} =>
        /\ total["receiver"] <= DataSize
        /\ SubSeq(received, 1, total["receiver"]) =
               SubSeq(Data(iter["receiver"] + 1), 1, total["receiver"])

(***************************************************************************)
(* VerifyDataReceived cannot tell the iterations apart, as all send the    *)
(* same bytes, nor a transfer of nothing, as zeros pass: what it is given  *)
(* is nevertheless this iteration's data, all of it, though a kernel buffer*)
(* or a vector outlives an iteration.                                      *)
(***************************************************************************)
VerifiesFreshData ==
    pc["receiver"] = "verify" => received = Data(iter["receiver"] + 1)

\* Every iteration ends: nobody waits for bytes or for a barrier for ever.
Termination == <>(\A p \in Procs : pc[p] = "done")
=============================================================================
