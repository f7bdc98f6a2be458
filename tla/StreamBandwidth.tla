--------------------------- MODULE StreamBandwidth ---------------------------
(***************************************************************************)
(* RunBandwidthBenchmarks of akbench.cc for the five benchmarks that send  *)
(* a stream: the TYPE argument picks one, which runs as its module says.   *)
(* What all of them promise is stated here once.                           *)
(***************************************************************************)
EXTENDS StreamTransfer

VARIABLES
    type,                                   \* the TYPE argument
    reading, writing,                       \* of pipe and fifo
    connected, pending, accepted,           \* of tcp and uds
    listener, shut,                         \* of tcp
    path, listening                         \* of uds

ends     == <<reading, writing>>
conns    == <<connected, pending, accepted>>
tcp_only == <<listener, shut>>
uds_only == <<path, listening>>
vars     == <<barrier, transfer, type, ends, conns, tcp_only, uds_only>>

Pipe == INSTANCE PipeBandwidth
Fifo == INSTANCE FifoBandwidth
Tcp  == INSTANCE TcpBandwidth
Uds  == INSTANCE UdsBandwidth
Mq   == INSTANCE MqBandwidth

NoEnds  == reading = FALSE /\ writing = FALSE
NoConns == connected = 0 /\ pending = FALSE /\ accepted = 0
NoTcp   == listener = 0 /\ shut = FALSE
NoUds   == path = 0 /\ listening = 0

Init == \/ type = "pipe" /\ Pipe!Init /\ NoConns /\ NoTcp /\ NoUds
        \/ type = "fifo" /\ Fifo!Init /\ NoConns /\ NoTcp /\ NoUds
        \/ type = "tcp" /\ Tcp!Init /\ NoEnds /\ NoUds
        \/ type = "uds" /\ Uds!Init /\ NoEnds /\ NoTcp
        \/ type = "mq" /\ Mq!Init /\ NoEnds /\ NoConns /\ NoTcp /\ NoUds

Sender ==
    /\ \/ type = "pipe" /\ Pipe!Sender /\ UNCHANGED <<conns, tcp_only, uds_only>>
       \/ type = "fifo" /\ Fifo!Sender /\ UNCHANGED <<conns, tcp_only, uds_only>>
       \/ type = "tcp" /\ Tcp!Sender /\ UNCHANGED <<ends, uds_only>>
       \/ type = "uds" /\ Uds!Sender /\ UNCHANGED <<ends, tcp_only>>
       \/ type = "mq" /\ Mq!Sender /\ UNCHANGED <<ends, conns, tcp_only, uds_only>>
    /\ UNCHANGED type

Receiver ==
    /\ \/ type = "pipe" /\ Pipe!Receiver /\ UNCHANGED <<conns, tcp_only, uds_only>>
       \/ type = "fifo" /\ Fifo!Receiver /\ UNCHANGED <<conns, tcp_only, uds_only>>
       \/ type = "tcp" /\ Tcp!Receiver /\ UNCHANGED <<ends, uds_only>>
       \/ type = "uds" /\ Uds!Receiver /\ UNCHANGED <<ends, tcp_only>>
       \/ type = "mq" /\ Mq!Receiver /\ UNCHANGED <<ends, conns, tcp_only, uds_only>>
    /\ UNCHANGED type

\* waitpid returns when both are done; a lost connection stops both processes.
Lost == type = "uds" /\ Uds!Lost
AllDone == \A p \in Procs : pc[p] = "done"
Done == (AllDone \/ Lost) /\ UNCHANGED vars

Next == Sender \/ Receiver \/ Done

\* Both processes keep running, and a released Wait returns.
Spec == Init /\ [][Next]_vars /\ WF_vars(Sender) /\ WF_vars(Receiver)
-----------------------------------------------------------------------------
\* Every variable keeps its type, in every benchmark.
TypeOK == /\ type = "pipe" => Pipe!TypeOK
          /\ type = "fifo" => Fifo!TypeOK
          /\ type = "tcp" => Tcp!TypeOK
          /\ type = "uds" => Uds!TypeOK
          /\ type = "mq" => Mq!TypeOK

(***************************************************************************)
(* Nothing is lost or invented between the two loops: what the receiver has*)
(* and what the kernel holds add up to what the sender has counted of the  *)
(* receiver's iteration, also while the sender is closing, opening again   *)
(* or one iteration ahead, at a full buffer and at the short last chunk.   *)
(***************************************************************************)
BytesConserved ==
    pc["receiver"] = "receive" =>
        LET held[j \in 0 .. Len(channel)] ==
                IF j = 0 THEN 0
                ELSE held[j - 1] + (IF type = "mq" THEN Len(channel[j]) ELSE 1)
            behind == pc["sender"] = "w_begin" /\ iter["sender"] = iter["receiver"]
            counted == IF behind THEN 0
                       ELSE IF pc["sender"] = "send" THEN total["sender"] ELSE DataSize
        IN  total["receiver"] + held[Len(channel)] = counted

(***************************************************************************)
(* pipe_ and fifo_bandwidth.cc: no read meets the end of file before the   *)
(* last byte, and no write a pipe without reader (SIGPIPE), whichever      *)
(* process is faster to close and to open again.                           *)
(***************************************************************************)
EndsStayOpen ==
    type \in {"pipe", "fifo"} =>
        /\ pc["sender"] = "send" => reading
        /\ pc["receiver"] = "receive" /\ ~writing =>
               Len(channel) = DataSize - total["receiver"]

(***************************************************************************)
(* tcp_ and uds_bandwidth.cc: what is transferred goes through the         *)
(* connection of this iteration on both sides, never through a socket of   *)
(* the iteration before; with tcp the first connect() already finds the    *)
(* new listener (tcp_bandwidth.cc:205, "Wait until the receiver is ready").*)
(***************************************************************************)
OwnConnection ==
    type \in {"tcp", "uds"} =>
        /\ \A p \in Procs : pc[p] \in {"send", "receive"} => connected = iter[p] + 1
        /\ pc["receiver"] = "receive" => accepted = iter["receiver"] + 1
        /\ type = "tcp" /\ pc["sender"] = "connect" => listener = iter["sender"] + 1

\* p has ended, or waits for the other, in the benchmark that runs.
Blocked(p) == \/ type = "pipe" /\ Pipe!Blocked(p)
              \/ type = "fifo" /\ Fifo!Blocked(p)
              \/ type = "tcp" /\ Tcp!Blocked(p)
              \/ type = "uds" /\ Uds!Blocked(p)
              \/ type = "mq" /\ Mq!Blocked(p)

(***************************************************************************)
(* The two never wait for each other: who waits in barrier.Wait(), in the  *)
(* open of a FIFO (fifo_bandwidth.cc:46), at a full or an empty buffer, or *)
(* for a connection, waits for a process that goes on, unless a connection *)
(* is lost with an old listener of uds_bandwidth.cc.                       *)
(***************************************************************************)
NoDeadlock == (\A p \in Procs : Blocked(p)) => AllDone \/ Lost

(***************************************************************************)
(* Every iteration of every benchmark ends, and waitpid returns, unless a  *)
(* connection is lost with an old listener of uds_bandwidth.cc: no FATAL,  *)
(* SIGPIPE or failed verification stops a process.                         *)
(***************************************************************************)
EndsUnlessLost == <>(AllDone \/ Lost)
=============================================================================
