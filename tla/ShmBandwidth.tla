---------------------------- MODULE ShmBandwidth ----------------------------
(***************************************************************************)
(* shm_bandwidth.cc: the receiver creates a POSIX shared memory for every  *)
(* iteration and unlinks it afterwards, the sender opens it by its name.   *)
(* Three waits order this: the sender opens after the first, the pipeline  *)
(* of DoubleBuffer runs after the second, nobody closes before the last.   *)
(***************************************************************************)
EXTENDS DoubleBuffer

VARIABLES shm_name,    \* the memory SHM_NAME is bound to, 0 for none
          n_created    \* objects created so far

vars == <<barrier, pipeline, shm_name, n_created>>
names == <<shm_name, n_created>>

\* After ClearResource and CleanupResources, when the child is forked.
Init == /\ PipelineInit
        /\ pc = [p \in Procs |-> IF p = "sender" THEN "w_open" ELSE "create"]
        /\ shm_name = 0
        /\ n_created = 0
-----------------------------------------------------------------------------
\* The receiver: shm_open with O_CREAT, ftruncate and mmap.
Create ==
    /\ pc["receiver"] = "create"
    /\ shm_name' = IF shm_name = 0 THEN n_created + 1 ELSE shm_name
    /\ n_created' = IF shm_name = 0 THEN n_created + 1 ELSE n_created
    /\ map' = [map EXCEPT !["receiver"] = shm_name']
    /\ Goto("receiver", "clear")
    /\ UNCHANGED <<barrier, iter, i, count, len, k, size, bytes, received>>

\* memset, and the fresh received_data of this iteration.
Clear ==
    /\ pc["receiver"] = "clear"
    /\ size' = [size EXCEPT ![map["receiver"]] = ZeroSizes]
    /\ bytes' = [bytes EXCEPT ![map["receiver"]] = ZeroBytes]
    /\ received' = Nothing
    /\ Goto("receiver", "w_open")
    /\ UNCHANGED <<barrier, names, iter, i, count, len, k, map>>

\* FATAL when the verification fails: abort().
Verify ==
    /\ pc["receiver"] = "verify"
    /\ Goto("receiver", IF Verified THEN "unlink" ELSE "aborted")
    /\ UNCHANGED <<barrier, names, iter, i, count, len, k, map, size, bytes, received>>

\* munmap, close and CleanupResources.
Unlink ==
    /\ pc["receiver"] = "unlink"
    /\ map' = [map EXCEPT !["receiver"] = 0]
    /\ shm_name' = 0
    /\ iter' = [iter EXCEPT !["receiver"] = @ + 1]
    /\ Goto("receiver", IF iter["receiver"] + 1 < Iterations THEN "create" ELSE "done")
    /\ UNCHANGED <<barrier, n_created, i, count, len, k, size, bytes, received>>

\* Mutant: the receiver enters the pipeline without the second wait.
ReceiverWaits_NoSecond ==
    \/ \E w \in {"w_open", "w_slot", "w_end"} : ArriveAt("receiver", w)
    \/ EnterLoop("receiver", "w_open")
    \/ ReturnFrom("receiver", "w_slot", "start")
    \/ ReturnFrom("receiver", "w_end", "verify")

ReceiverWaits ==
    \/ \E w \in {"w_open", "w_map", "w_slot", "w_end"} : ArriveAt("receiver", w)
    \/ ReturnFrom("receiver", "w_open", "w_map")
    \/ EnterLoop("receiver", "w_map")
    \/ ReturnFrom("receiver", "w_slot", "start")
    \/ ReturnFrom("receiver", "w_end", "verify")

Receiver ==
    \/ Create \/ Clear \/ Verify \/ Unlink
    \/ /\ \/ ReceiverWaits
          \/ ReceiveSize \/ ReceiveByte
          \/ ReceiveAdvance(size[map["receiver"]][Slot("receiver")])  \* read again
       /\ UNCHANGED names
-----------------------------------------------------------------------------
\* The sender: shm_open without O_CREAT, FATAL when the name is not there.
Open ==
    /\ pc["sender"] = "open"
    /\ map' = [map EXCEPT !["sender"] = shm_name]
    /\ Goto("sender", IF shm_name # 0 THEN "w_map" ELSE "aborted")
    /\ UNCHANGED <<barrier, names, iter, i, count, len, k, size, bytes, received>>

Unmap ==
    /\ pc["sender"] = "unmap"
    /\ map' = [map EXCEPT !["sender"] = 0]
    /\ iter' = [iter EXCEPT !["sender"] = @ + 1]
    /\ Goto("sender", IF iter["sender"] + 1 < Iterations THEN "w_open" ELSE "done")
    /\ UNCHANGED <<barrier, names, i, count, len, k, size, bytes, received>>

\* Mutant: the sender opens the memory first and waits twice then.
SenderWaits_OpenFirst ==
    \/ \E w \in {"w_map", "w_slot", "w_end"} : ArriveAt("sender", w)
    \/ /\ pc["sender"] = "w_open"
       /\ Goto("sender", "open")
       /\ UNCHANGED <<barrier, iter, i, count, len, k, map, size, bytes, received>>
    \/ EnterLoop("sender", "w_map")
    \/ ReturnFrom("sender", "w_slot", "start")
    \/ ReturnFrom("sender", "w_end", "unmap")

SenderWaits ==
    \/ \E w \in {"w_open", "w_map", "w_slot", "w_end"} : ArriveAt("sender", w)
    \/ ReturnFrom("sender", "w_open", "open")
    \/ EnterLoop("sender", "w_map")
    \/ ReturnFrom("sender", "w_slot", "start")
    \/ ReturnFrom("sender", "w_end", "unmap")

Sender == Open \/ Unmap \/ ((SenderWaits \/ PipelineSend) /\ UNCHANGED names)

Next == Sender \/ Receiver

\* Both processes keep running, and a released Wait returns.
Spec == Init /\ [][Next]_vars /\ WF_vars(Sender) /\ WF_vars(Receiver)
-----------------------------------------------------------------------------
\* Every variable keeps its type, a loop variable its bound.
TypeOK == /\ PipelineTypeOK
          /\ pc \in [Procs -> {"create", "clear", "open", "w_open", "w_map", "w_slot",
                               "start", "copy", "w_end", "verify", "unlink", "unmap",
                               "done", "aborted"}]
          /\ shm_name \in {0} \cup Memories
          /\ n_created \in 0 .. Iterations

(***************************************************************************)
(* An iteration never sees the memory of the one before: while the sender  *)
(* has a mapping, it is the memory of the receiver's current iteration.    *)
(***************************************************************************)
FreshMapping == map["sender"] # 0 /\ map["receiver"] # 0 =>
                    map["sender"] = map["receiver"] \/ iter["sender"] < iter["receiver"]
=============================================================================
