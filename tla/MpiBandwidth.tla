----------------------------- MODULE MpiBandwidth -----------------------------
(***************************************************************************)
(* mpi_bandwidth.cc, a program of its own: rank 0 (here the parent) and    *)
(* rank 1 exchange one message in each direction per iteration, between    *)
(* two MPI_Barrier.  MPI_Send in its standard mode may return when the     *)
(* message is buffered or only when it is received: which of the two is    *)
(* up to the library, call by call.                                        *)
(***************************************************************************)
EXTENDS LatencyLoop

VARIABLES arrived, passed,  \* the calls of MPI_Barrier, made and returned
          channel,          \* channel[p]: messages on their way to p, each
                            \* named by the iteration it was sent in
          recv_buffer       \* recv_buffer[p]: the message p received last, or
                            \* 0 for the zeros of a new vector

mpi  == <<arrived, passed, channel, recv_buffer>>
vars == <<loop, mpi>>

B == INSTANCE AbstractBarrier

\* mpirun has started both ranks, and the options are read.
Init == /\ LoopInit
        /\ pc = [p \in Procs |-> "ready"]
        /\ B!Init
        /\ channel = [p \in Procs |-> <<>>]
        /\ recv_buffer = [p \in Procs |-> 0]

Barrier(p, line, next) ==
    /\ pc[p] = line
    /\ \/ B!Arrive(p) /\ UNCHANGED pc
       \/ B!Pass(p) /\ Goto(p, next)
    /\ UNCHANGED <<iter, turn, channel, recv_buffer>>

Send(p, next) ==
    /\ pc[p] = "send"
    /\ channel' = [channel EXCEPT ![Other(p)] = Append(@, iter[p] + 1)]
    /\ \E line \in {next, "sending"} : Goto(p, line)
    /\ UNCHANGED <<iter, turn, arrived, passed, recv_buffer>>

\* The MPI_Send of a message that was not buffered returns.
SendReturns(p, next) ==
    /\ pc[p] = "sending"
    /\ channel[Other(p)] = <<>>
    /\ Goto(p, next)
    /\ UNCHANGED <<iter, turn, mpi>>

Recv(p, next) ==
    /\ pc[p] = "recv"
    /\ channel[p] # <<>>
    /\ recv_buffer' = [recv_buffer EXCEPT ![p] = Head(channel[p])]
    /\ channel' = [channel EXCEPT ![p] = Tail(@)]
    /\ Goto(p, next)
    /\ UNCHANGED <<iter, turn, arrived, passed>>

\* VerifyDataReceived passes any whole message, and the zeros of a new vector,
\* whose checksum is 0: it cannot tell whether a message came at all.
Verify(p, end) ==
    /\ pc[p] = "verify"
    /\ EndIteration(p, "begin", end)
    /\ UNCHANGED mpi

Parent == \/ Barrier("parent", "ready", "begin") \/ Barrier("parent", "begin", "send")
          \/ Send("parent", "recv") \/ SendReturns("parent", "recv") \/ Recv("parent", "end")
          \/ Barrier("parent", "end", "verify") \/ Verify("parent", "done")
Child  == \/ Barrier("child", "ready", "begin") \/ Barrier("child", "begin", "recv")
          \/ Recv("child", "send") \/ Send("child", "end") \/ SendReturns("child", "end")
          \/ Barrier("child", "end", "verify") \/ Verify("child", "exit")
-----------------------------------------------------------------------------
\* One exchange per iteration.
Counted(p, lines) == iter[p] + (IF pc[p] \in lines THEN 1 ELSE 0)
asked    == Counted("parent", {"sending", "recv", "end", "verify"})
answered == Counted("child", {"sending", "end", "verify"})
seen     == Counted("parent", {"end", "verify"})

\* Every variable keeps its type.
TypeOK ==
    /\ LoopTypeOK
    /\ pc["parent"] \in {"ready", "begin", "send", "sending", "recv", "end", "verify", "done"}
    /\ pc["child"] \in {"ready", "begin", "send", "sending", "recv", "end", "verify", "exit"}
    /\ channel \in [Procs -> {<<>>} \cup {<<i>> : i \in 1 .. Iterations}]
    /\ recv_buffer \in [Procs -> 0 .. Iterations]

\* p has received what was sent in this iteration, and nothing is on its way.
Quiet(p) == recv_buffer[p] = iter[p] + 1 /\ channel = [q \in Procs |-> <<>>]

\* p waits in MPI_Barrier, MPI_Send or MPI_Recv.
Blocked(p) ==
    \/ Idle(p)
    \/ B!Waiting(p)
    \/ pc[p] = "sending" /\ channel[Other(p)] # <<>>
    \/ pc[p] = "recv" /\ channel[p] = <<>>

\* Messages on their way.
InFlight == Len(channel["parent"]) + Len(channel["child"])
=============================================================================
