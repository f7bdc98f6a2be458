----------------------------- MODULE MqBandwidth -----------------------------
(***************************************************************************)
(* mq_bandwidth.cc: a message queue that exists before the fork and is     *)
(* opened and closed by both processes in every iteration.  A chunk is one *)
(* message; the queue holds mq_maxmsg of them (Capacity) and a sender that *)
(* finds it full blocks.  There is one wait per iteration, at its begin.   *)
(***************************************************************************)
EXTENDS StreamTransfer

vars == <<barrier, transfer>>

Init == /\ TransferInit
        /\ pc = [p \in Procs |-> "w_begin"]
        /\ received = <<>>
-----------------------------------------------------------------------------
SenderWaits == ArriveAt("sender", "w_begin") \/ BeginSending("w_begin")

\* min(buffer_size, data_size - total_sent)
ChunkSize == Smaller(BufferSize, DataSize - total["sender"])

\* Mutant: a full queue drops the message (O_NONBLOCK with EAGAIN ignored).
MqSend_NonBlocking ==
    /\ pc["sender"] = "send"
    /\ LET n == ChunkSize
           msg == SubSeq(Data(iter["sender"] + 1), total["sender"] + 1, total["sender"] + n)
       IN  /\ channel' = IF Len(channel) < Capacity THEN Append(channel, msg) ELSE channel
           /\ total' = [total EXCEPT !["sender"] = @ + n]
           /\ Goto("sender", IF total["sender"] + n < DataSize THEN "send" ELSE "close")
    /\ UNCHANGED <<barrier, iter, received>>

\* mq_send blocks while the queue is full.
MqSend ==
    /\ pc["sender"] = "send"
    /\ Len(channel) < Capacity
    /\ LET n == ChunkSize
       IN  /\ channel' = Append(channel, SubSeq(Data(iter["sender"] + 1),
                                                total["sender"] + 1, total["sender"] + n))
           /\ total' = [total EXCEPT !["sender"] = @ + n]
           /\ Goto("sender", IF total["sender"] + n < DataSize THEN "send" ELSE "close")
    /\ UNCHANGED <<barrier, iter, received>>

\* mq_close and the end of the loop's body; mq_open of the next iteration finds
\* the same queue.
MqClose ==
    /\ pc["sender"] = "close"
    /\ EndIteration("sender", "w_begin", "done")
    /\ UNCHANGED <<barrier, total, channel, received>>

Sender == SenderWaits \/ MqSend \/ MqClose
-----------------------------------------------------------------------------
ReceiverWaits == ArriveAt("receiver", "w_begin") \/ BeginReceiving("w_begin", <<>>)

\* mq_receive blocks while the queue is empty and returns one message.
MqReceive ==
    /\ pc["receiver"] = "receive"
    /\ channel # <<>>
    /\ received' = Placed(received, total["receiver"], Head(channel))
    /\ channel' = Tail(channel)
    /\ total' = [total EXCEPT !["receiver"] = @ + Len(Head(channel))]
    /\ Goto("receiver", IF Head(channel) # <<>>
                           /\ total["receiver"] + Len(Head(channel)) < DataSize
                        THEN "receive" ELSE "verify")
    /\ UNCHANGED <<barrier, iter>>

\* FATAL when the verification fails; mq_close.
Verify ==
    /\ pc["receiver"] = "verify"
    /\ IF Verified THEN EndIteration("receiver", "w_begin", "done")
                   ELSE Goto("receiver", "aborted") /\ UNCHANGED iter
    /\ UNCHANGED <<barrier, total, channel, received>>

Receiver == ReceiverWaits \/ MqReceive \/ Verify
-----------------------------------------------------------------------------
Next == Sender \/ Receiver

\* Both processes keep running, and a released Wait returns.
Spec == Init /\ [][Next]_vars /\ WF_vars(Sender) /\ WF_vars(Receiver)

\* Every variable keeps its type; a sequence keeps its bound.
TypeOK == /\ TransferTypeOK
          /\ channel \in Seq(Seq(Bytes)) /\ Len(channel) <= Capacity
          /\ pc \in [Procs -> {"w_begin", "send", "close", "receive", "verify", "done",
                               "aborted"}]

\* p waits for the other process; a queue has no end of file.
Blocked(p) == Stuck(p, TRUE)
=============================================================================
