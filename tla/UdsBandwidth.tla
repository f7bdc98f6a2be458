---------------------------- MODULE UdsBandwidth ----------------------------
(***************************************************************************)
(* uds_bandwidth.cc: the receiver binds and listens on a path anew in every*)
(* iteration; the sender retries connect() until it succeeds.  They wait   *)
(* before and after the transfer, but not between the receiver's close of  *)
(* one listener and the sender's connect to the next: the sender can still *)
(* reach the old one.  A socket of the receiver is named by the iteration  *)
(* that made it, 0 for none.                                               *)
(***************************************************************************)
EXTENDS StreamTransfer

VARIABLES path,         \* the socket SOCKET_PATH names
          listening,    \* the socket that accepts connections
          connected,    \* the listener the sender's socket is connected through
          pending,      \* whether this connection still waits for accept()
          accepted      \* the listener conn_fd was accepted from

sockets == <<path, listening, connected, pending, accepted>>
vars == <<barrier, transfer, sockets>>

Current == iter["receiver"] + 1

Init == /\ TransferInit
        /\ pc = [p \in Procs |-> IF p = "sender" THEN "connect" ELSE "bind"]
        /\ received = Zeros
        /\ path = 0
        /\ listening = 0
        /\ connected = 0
        /\ pending = FALSE
        /\ accepted = 0
-----------------------------------------------------------------------------
\* remove and bind: the path is free, whatever was there.
Bind ==
    /\ pc["receiver"] = "bind"
    /\ path' = Current
    /\ Goto("receiver", "listen")
    /\ UNCHANGED <<barrier, iter, total, channel, received, listening, connected, pending, accepted>>

Listen ==
    /\ pc["receiver"] = "listen"
    /\ listening' = Current
    /\ Goto("receiver", "accept")
    /\ UNCHANGED <<barrier, iter, total, channel, received, path, connected, pending, accepted>>

Accept ==
    /\ pc["receiver"] = "accept"
    /\ pending
    /\ pending' = FALSE
    /\ accepted' = connected
    /\ Goto("receiver", "w_begin")
    /\ UNCHANGED <<barrier, iter, total, channel, received, path, listening, connected>>

CloseConnection ==
    /\ pc["receiver"] = "close"
    /\ accepted' = 0
    /\ Goto("receiver", "close_listener")
    /\ UNCHANGED <<barrier, iter, total, channel, received, path, listening, connected, pending>>

\* close(listen_fd) resets a connection that nobody accepted.
CloseListener ==
    /\ pc["receiver"] = "close_listener"
    /\ listening' = 0
    /\ pending' = FALSE
    /\ Goto("receiver", "verify")
    /\ UNCHANGED <<barrier, iter, total, channel, received, path, connected, accepted>>

\* remove; what VerifyDataReceived returns is not looked at.
Remove ==
    /\ pc["receiver"] = "verify"
    /\ path' = 0
    /\ EndIteration("receiver", "bind", "done")
    /\ UNCHANGED <<barrier, total, channel, received, listening, connected, pending, accepted>>

\* Mutant: the receiver does not wait after its loop.
ReceiverWaits_NoEnd ==
    \/ ArriveAt("receiver", "w_begin")
    \/ Skip("receiver", "w_end", "close")
    \/ BeginReceiving("w_begin", received)

\* read_data is declared outside of the loop: it keeps the last iteration's.
ReceiverWaits ==
    \/ \E w \in {"w_begin", "w_end"} : ArriveAt("receiver", w)
    \/ BeginReceiving("w_begin", received)
    \/ ReturnFrom("receiver", "w_end", "close")

Receiver == \/ Bind \/ Listen \/ Accept \/ CloseConnection \/ CloseListener \/ Remove
            \/ /\ ReceiverWaits \/ Receive(connected # 0, "w_end")
               /\ UNCHANGED sockets
-----------------------------------------------------------------------------
\* connect() reaches the listener the path names; ENOENT without one and
\* ECONNREFUSED from one that does not listen are tried again.  A backlog of
\* 0 still holds one connection.
Connect ==
    /\ pc["sender"] = "connect"
    /\ path # 0 /\ path = listening
    /\ ~pending
    /\ connected' = path
    /\ pending' = TRUE
    /\ Goto("sender", "w_begin")
    /\ UNCHANGED <<barrier, iter, total, channel, received, path, listening, accepted>>

Close ==
    /\ pc["sender"] = "close"
    /\ connected' = 0
    /\ EndIteration("sender", "connect", "done")
    /\ UNCHANGED <<barrier, total, channel, received, path, listening, pending, accepted>>

SenderWaits ==
    \/ \E w \in {"w_begin", "w_end"} : ArriveAt("sender", w)
    \/ BeginSending("w_begin")
    \/ ReturnFrom("sender", "w_end", "close")

Sender == \/ Connect \/ Close
          \/ /\ SenderWaits \/ Send(pending \/ accepted = connected, "w_end")
             /\ UNCHANGED sockets
-----------------------------------------------------------------------------
Next == Sender \/ Receiver

\* Both processes keep running, a released Wait returns, and a retried connect()
\* is made while the receiver listens.
Spec == Init /\ [][Next]_vars /\ WF_vars(Sender) /\ WF_vars(Receiver)

\* Every variable keeps its type; a sequence keeps its bound.
TypeOK == /\ TransferTypeOK
          /\ channel \in Seq(Bytes) /\ Len(channel) <= Capacity
          /\ {path, listening, connected, accepted} \subseteq 0 .. Iterations
          /\ pending \in BOOLEAN
          /\ pc \in [Procs -> {"bind", "listen", "accept", "connect", "w_begin", "send",
                               "receive", "w_end", "close", "close_listener", "verify",
                               "done", "aborted"}]

\* p waits for the other process, or for it to connect or to listen.
Blocked(p) == \/ Stuck(p, connected # 0)
              \/ pc[p] = "accept" /\ ~pending
              \/ pc[p] = "connect" /\ (path = 0 \/ path # listening \/ pending)

\* The sender's connection was closed with the listener it was made to.
Lost == connected # 0 /\ connected = iter["sender"] /\ ~pending
=============================================================================
