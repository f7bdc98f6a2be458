---------------------------- MODULE FifoBandwidth ----------------------------
(***************************************************************************)
(* fifo_bandwidth.cc: both processes open the FIFO in every iteration, wait*)
(* once, transfer and close.  Nothing orders a close with the other's next *)
(* open: a process may open the FIFO while the other still holds it from   *)
(* the iteration before.                                                   *)
(***************************************************************************)
EXTENDS StreamTransfer

VARIABLES reading, writing     \* whether read_fd and write_fd are open

ends == <<reading, writing>>
vars == <<barrier, transfer, ends>>

\* After mkfifo and fork.
Init == /\ TransferInit
        /\ pc = [p \in Procs |-> "open"]
        /\ received = <<>>
        /\ reading = FALSE
        /\ writing = FALSE
-----------------------------------------------------------------------------
\* open() of a FIFO: p's end counts from the call on, and the call returns at
\* once when the other end is open, or else when it is opened.
OpenWrite ==
    /\ pc["sender"] = "open"
    /\ writing' = TRUE
    /\ Goto("sender", IF reading THEN "w_begin" ELSE "opening")
    /\ UNCHANGED <<barrier, iter, total, channel, received, reading>>

OpenRead ==
    /\ pc["receiver"] = "open"
    /\ reading' = TRUE
    /\ Goto("receiver", IF writing THEN "w_begin" ELSE "opening")
    /\ UNCHANGED <<barrier, iter, total, channel, received, writing>>

\* The other process cannot close again before p is at the wait.
Opened(p) ==
    /\ pc[p] = "opening"
    /\ reading /\ writing
    /\ Goto(p, "w_begin")
    /\ UNCHANGED <<barrier, ends, iter, total, channel, received>>

\* The kernel keeps the bytes as long as somebody has the FIFO open.
Kept(open) == IF open THEN channel ELSE <<>>

CloseWrite ==
    /\ pc["sender"] = "close"
    /\ writing' = FALSE
    /\ channel' = Kept(reading)
    /\ EndIteration("sender", "open", "done")
    /\ UNCHANGED <<barrier, total, received, reading>>

\* FATAL when the verification fails.
Verify ==
    /\ pc["receiver"] = "verify"
    /\ Goto("receiver", IF Verified THEN "close" ELSE "aborted")
    /\ UNCHANGED <<barrier, iter, total, channel, received, ends>>

CloseRead ==
    /\ pc["receiver"] = "close"
    /\ reading' = FALSE
    /\ channel' = Kept(writing)
    /\ EndIteration("receiver", "open", "done")
    /\ UNCHANGED <<barrier, total, received, writing>>
-----------------------------------------------------------------------------
\* Mutant: the sender does not wait from its second iteration on.
SenderWaits_Once ==
    \/ iter["sender"] = 0 /\ ArriveAt("sender", "w_begin")
    \/ iter["sender"] = 0 /\ BeginSending("w_begin")
    \/ /\ iter["sender"] > 0
       /\ pc["sender"] = "w_begin"
       /\ total' = [total EXCEPT !["sender"] = 0]
       /\ Goto("sender", "send")
       /\ UNCHANGED <<barrier, iter, channel, received>>

SenderWaits == ArriveAt("sender", "w_begin") \/ BeginSending("w_begin")

Sender == \/ OpenWrite \/ Opened("sender") \/ CloseWrite
          \/ (SenderWaits \/ Send(reading, "close")) /\ UNCHANGED ends

ReceiverWaits == ArriveAt("receiver", "w_begin") \/ BeginReceiving("w_begin", <<>>)

Receiver == \/ OpenRead \/ Opened("receiver") \/ Verify \/ CloseRead
            \/ /\ ReceiverWaits \/ Receive(writing, "verify")
               /\ UNCHANGED ends
-----------------------------------------------------------------------------
Next == Sender \/ Receiver

\* Both processes keep running, and a released Wait returns.
Spec == Init /\ [][Next]_vars /\ WF_vars(Sender) /\ WF_vars(Receiver)

\* Every variable keeps its type; a sequence keeps its bound.
TypeOK == /\ TransferTypeOK
          /\ channel \in Seq(Bytes) /\ Len(channel) <= Capacity
          /\ ends \in BOOLEAN \X BOOLEAN
          /\ pc \in [Procs -> {"open", "opening", "w_begin", "send", "receive", "verify",
                               "close", "done", "aborted"}]

\* p waits for the other process, or for it to open the FIFO.
Blocked(p) == Stuck(p, writing) \/ (pc[p] = "opening" /\ ~(reading /\ writing))
=============================================================================
