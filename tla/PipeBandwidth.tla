---------------------------- MODULE PipeBandwidth ----------------------------
(***************************************************************************)
(* pipe_bandwidth.cc: one pipe for all iterations, and one wait at the     *)
(* beginning of each.  There is no wait at its end: the sender runs ahead  *)
(* of the receiver up to the next wait.                                    *)
(***************************************************************************)
EXTENDS StreamTransfer

VARIABLES reading, writing     \* whether read_fd and write_fd are open

ends == <<reading, writing>>
vars == <<barrier, transfer, ends>>

\* After pipe() and fork(); each process has closed the end of the other.
Init == /\ TransferInit
        /\ pc = [p \in Procs |-> "w_begin"]
        /\ received = <<>>
        /\ reading = TRUE
        /\ writing = TRUE
-----------------------------------------------------------------------------
\* Mutant: the sender does not wait from its second iteration on.
SenderWaits_Once ==
    \/ iter["sender"] = 0 /\ ArriveAt("sender", "w_begin")
    \/ iter["sender"] = 0 /\ BeginSending("w_begin")
    \/ /\ iter["sender"] > 0
       /\ pc["sender"] = "w_begin"
       /\ total' = [total EXCEPT !["sender"] = 0]
       /\ Goto("sender", "send")
       /\ UNCHANGED <<barrier, iter, channel, received>>

SenderWaits == ArriveAt("sender", "w_begin") \/ BeginSending("w_begin")

\* The end of the loop's body: nothing but the duration is kept.
Sent ==
    /\ pc["sender"] = "sent"
    /\ EndIteration("sender", "w_begin", "close")
    /\ UNCHANGED <<barrier, total, channel, received>>

CloseWrite ==
    /\ pc["sender"] = "close"
    /\ writing' = FALSE
    /\ Goto("sender", "done")
    /\ UNCHANGED <<barrier, iter, total, channel, received, reading>>

Sender == \/ (SenderWaits \/ Send(reading, "sent") \/ Sent) /\ UNCHANGED ends
          \/ CloseWrite
-----------------------------------------------------------------------------
ReceiverWaits == ArriveAt("receiver", "w_begin") \/ BeginReceiving("w_begin", <<>>)

\* FATAL when the verification fails.
Verify ==
    /\ pc["receiver"] = "verify"
    /\ IF Verified THEN EndIteration("receiver", "w_begin", "close")
                   ELSE Goto("receiver", "aborted") /\ UNCHANGED iter
    /\ UNCHANGED <<barrier, total, channel, received>>

CloseRead ==
    /\ pc["receiver"] = "close"
    /\ reading' = FALSE
    /\ Goto("receiver", "done")
    /\ UNCHANGED <<barrier, iter, total, channel, received, writing>>

Receiver == \/ (ReceiverWaits \/ Receive(writing, "verify") \/ Verify) /\ UNCHANGED ends
            \/ CloseRead
-----------------------------------------------------------------------------
Next == Sender \/ Receiver

\* Both processes keep running, and a released Wait returns.
Spec == Init /\ [][Next]_vars /\ WF_vars(Sender) /\ WF_vars(Receiver)

\* Every variable keeps its type; a sequence keeps its bound.
TypeOK == /\ TransferTypeOK
          /\ channel \in Seq(Bytes) /\ Len(channel) <= Capacity
          /\ ends \in BOOLEAN \X BOOLEAN
          /\ pc \in [Procs -> {"w_begin", "send", "sent", "receive", "verify", "close",
                               "done", "aborted"}]

\* p waits for the other process.
Blocked(p) == Stuck(p, writing)
=============================================================================
