---------------------------- MODULE TcpBandwidth ----------------------------
(***************************************************************************)
(* tcp_bandwidth.cc: the receiver listens on one port anew in every        *)
(* iteration, both wait, the sender connects and the receiver accepts, and *)
(* they wait before and after the transfer.  A socket of the receiver is   *)
(* named by the iteration that made it, 0 for none.                        *)
(***************************************************************************)
EXTENDS StreamTransfer

VARIABLES listener,     \* the socket that listens on PORT
          connected,    \* the listener the sender's socket is connected through
          pending,      \* whether this connection still waits for accept()
          accepted,     \* the listener conn_fd was accepted from
          shut          \* whether the sender's direction is shut down

sockets == <<listener, connected, pending, accepted, shut>>
vars == <<barrier, transfer, sockets>>

Init == /\ TransferInit
        /\ pc = [p \in Procs |-> IF p = "sender" THEN "w_ready" ELSE "listen"]
        /\ received = Zeros
        /\ listener = 0
        /\ connected = 0
        /\ pending = FALSE
        /\ accepted = 0
        /\ shut = FALSE
-----------------------------------------------------------------------------
\* socket, bind and listen; a port that is listened on cannot be bound: FATAL.
Listen ==
    /\ pc["receiver"] = "listen"
    /\ listener' = iter["receiver"] + 1
    /\ Goto("receiver", IF listener = 0 THEN "w_ready" ELSE "aborted")
    /\ UNCHANGED <<barrier, iter, total, channel, received, connected, pending, accepted, shut>>

Accept ==
    /\ pc["receiver"] = "accept"
    /\ pending
    /\ pending' = FALSE
    /\ accepted' = connected
    /\ Goto("receiver", "w_begin")
    /\ UNCHANGED <<barrier, iter, total, channel, received, listener, connected, shut>>

\* FATAL when the verification fails; then close(conn_fd).
VerifyAndClose ==
    /\ pc["receiver"] = "verify"
    /\ Goto("receiver", IF Verified THEN "close" ELSE "aborted")
    /\ accepted' = 0
    /\ UNCHANGED <<barrier, iter, total, channel, received, listener, connected, pending, shut>>

\* close(listen_fd) resets what nobody accepted.
CloseListener ==
    /\ pc["receiver"] = "close"
    /\ listener' = 0
    /\ pending' = FALSE
    /\ EndIteration("receiver", "listen", "done")
    /\ UNCHANGED <<barrier, total, channel, received, connected, accepted, shut>>

ReceiverWaits ==
    \/ \E w \in {"w_ready", "w_begin", "w_end"} : ArriveAt("receiver", w)
    \/ ReturnFrom("receiver", "w_ready", "accept")
    \/ BeginReceiving("w_begin", Zeros)
    \/ ReturnFrom("receiver", "w_end", "verify")

Receiver == \/ Listen \/ Accept \/ VerifyAndClose \/ CloseListener
            \/ (ReceiverWaits \/ Receive(~shut, "w_end")) /\ UNCHANGED sockets
-----------------------------------------------------------------------------
\* connect() succeeds as soon as somebody listens; it is tried again until then.
Connect ==
    /\ pc["sender"] = "connect"
    /\ listener # 0
    /\ connected' = listener
    /\ pending' = TRUE
    /\ shut' = FALSE
    /\ Goto("sender", "w_begin")
    /\ UNCHANGED <<barrier, iter, total, channel, received, listener, accepted>>

Shutdown ==
    /\ pc["sender"] = "shutdown"
    /\ shut' = TRUE
    /\ Goto("sender", "w_end")
    /\ UNCHANGED <<barrier, iter, total, channel, received, listener, connected, pending, accepted>>

Close ==
    /\ pc["sender"] = "close"
    /\ connected' = 0
    /\ EndIteration("sender", "w_ready", "done")
    /\ UNCHANGED <<barrier, total, channel, received, listener, pending, accepted, shut>>

\* Mutant: the sender connects without waiting for the receiver, on both sides
\* one wait less.
SenderWaits_NoReady ==
    \/ \E w \in {"w_begin", "w_end"} : ArriveAt("sender", w)
    \/ Skip("sender", "w_ready", "connect")
    \/ BeginSending("w_begin")
    \/ ReturnFrom("sender", "w_end", "close")

SenderWaits ==
    \/ \E w \in {"w_ready", "w_begin", "w_end"} : ArriveAt("sender", w)
    \/ ReturnFrom("sender", "w_ready", "connect")
    \/ BeginSending("w_begin")
    \/ ReturnFrom("sender", "w_end", "close")

Sender == \/ Connect \/ Shutdown \/ Close
          \/ /\ SenderWaits \/ Send(pending \/ accepted = connected, "shutdown")
             /\ UNCHANGED sockets
-----------------------------------------------------------------------------
Next == Sender \/ Receiver

\* Both processes keep running, and a released Wait returns.
Spec == Init /\ [][Next]_vars /\ WF_vars(Sender) /\ WF_vars(Receiver)

\* Every variable keeps its type; a sequence keeps its bound.
TypeOK == /\ TransferTypeOK
          /\ channel \in Seq(Bytes) /\ Len(channel) <= Capacity
          /\ {listener, connected, accepted} \subseteq 0 .. Iterations
          /\ {pending, shut} \subseteq BOOLEAN
          /\ pc \in [Procs -> {"listen", "w_ready", "accept", "connect", "w_begin", "send",
                               "shutdown", "receive", "w_end", "verify", "close", "done",
                               "aborted"}]

\* p waits for the other process, or for it to connect or to listen.
Blocked(p) == \/ Stuck(p, ~shut)
              \/ pc[p] = "accept" /\ ~pending
              \/ pc[p] = "connect" /\ listener = 0
=============================================================================
