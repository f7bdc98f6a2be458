--------------------------- MODULE MmapBandwidth ---------------------------
(***************************************************************************)
(* mmap_bandwidth.cc: the two processes map one regular file.  The sender  *)
(* opens it with O_TRUNC in every iteration, so it is the same file, empty *)
(* for a moment while the receiver may still have the mapping of the       *)
(* iteration before.  Waits: one after the constructor, one before the     *)
(* receiver opens, one before the pipeline, one in every step, one at its  *)
(* end.                                                                    *)
(***************************************************************************)
EXTENDS DoubleBuffer

VARIABLE file_size     \* of MMAP_FILE_PATH: "none", "empty" or "full"

vars == <<barrier, pipeline, file_size>>

File == 1              \* the file is never replaced: one memory

Init == /\ PipelineInit
        /\ pc = [p \in Procs |-> "w_start"]
        /\ file_size = "none"
-----------------------------------------------------------------------------
\* open with O_CREAT | O_TRUNC: what was in the file is gone.
Truncate ==
    /\ pc["sender"] = "open"
    /\ file_size' = "empty"
    /\ size' = [size EXCEPT ![File] = ZeroSizes]
    /\ bytes' = [bytes EXCEPT ![File] = ZeroBytes]
    /\ Goto("sender", "resize")
    /\ UNCHANGED <<barrier, iter, i, count, len, k, map, received>>

\* ftruncate to the full size and mmap.
Resize ==
    /\ pc["sender"] = "resize"
    /\ file_size' = "full"
    /\ map' = [map EXCEPT !["sender"] = File]
    /\ Goto("sender", "w_open")
    /\ UNCHANGED <<barrier, iter, i, count, len, k, size, bytes, received>>

\* memset of the whole mapping, while the receiver opens and maps it.
Clear ==
    /\ pc["sender"] = "clear"
    /\ size' = [size EXCEPT ![File] = ZeroSizes]
    /\ bytes' = [bytes EXCEPT ![File] = ZeroBytes]
    /\ Goto("sender", "w_map")
    /\ UNCHANGED <<barrier, iter, i, count, len, k, map, received, file_size>>

Unmap ==
    /\ pc["sender"] = "unmap"
    /\ map' = [map EXCEPT !["sender"] = 0]
    /\ iter' = [iter EXCEPT !["sender"] = @ + 1]
    /\ Goto("sender", IF iter["sender"] + 1 < Iterations THEN "open" ELSE "done")
    /\ UNCHANGED <<barrier, i, count, len, k, size, bytes, received, file_size>>

SenderWaits ==
    \/ \E w \in {"w_start", "w_open", "w_map", "w_slot", "w_end"} : ArriveAt("sender", w)
    \/ ReturnFrom("sender", "w_start", "open")
    \/ ReturnFrom("sender", "w_open", "clear")
    \/ EnterLoop("sender", "w_map")
    \/ ReturnFrom("sender", "w_slot", "start")
    \/ ReturnFrom("sender", "w_end", "unmap")

Sender == \/ Truncate \/ Resize \/ Clear \/ Unmap
          \/ (SenderWaits \/ PipelineSend) /\ UNCHANGED file_size
-----------------------------------------------------------------------------
\* open without O_CREAT, and mmap of the size fstat returns: FATAL when the
\* file is not there, or is empty.  received_data is fresh.
Open ==
    /\ pc["receiver"] = "open"
    /\ map' = [map EXCEPT !["receiver"] = File]
    /\ received' = Nothing
    /\ Goto("receiver", IF file_size = "full" THEN "w_map" ELSE "aborted")
    /\ UNCHANGED <<barrier, iter, i, count, len, k, size, bytes, file_size>>

\* FATAL when the verification fails; munmap and close.
Verify ==
    /\ pc["receiver"] = "verify"
    /\ map' = [map EXCEPT !["receiver"] = 0]
    /\ iter' = [iter EXCEPT !["receiver"] = @ + 1]
    /\ Goto("receiver", IF ~Verified THEN "aborted"
                        ELSE IF iter["receiver"] + 1 < Iterations THEN "w_open" ELSE "done")
    /\ UNCHANGED <<barrier, i, count, len, k, size, bytes, received, file_size>>

ReceiverWaits ==
    \/ \E w \in {"w_start", "w_open", "w_map", "w_slot", "w_end"} : ArriveAt("receiver", w)
    \/ ReturnFrom("receiver", "w_start", "w_open")
    \/ ReturnFrom("receiver", "w_open", "open")
    \/ EnterLoop("receiver", "w_map")
    \/ ReturnFrom("receiver", "w_slot", "start")
    \/ ReturnFrom("receiver", "w_end", "verify")

Receiver == \/ Open \/ Verify
            \/ /\ \/ ReceiverWaits
                  \/ ReceiveSize \/ ReceiveByte
                  \/ ReceiveAdvance(len["receiver"])
               /\ UNCHANGED file_size
-----------------------------------------------------------------------------
Next == Sender \/ Receiver

\* Both processes keep running, and a released Wait returns.
Spec == Init /\ [][Next]_vars /\ WF_vars(Sender) /\ WF_vars(Receiver)
-----------------------------------------------------------------------------
\* Every variable keeps its type, a loop variable its bound.
TypeOK == /\ PipelineTypeOK
          /\ pc \in [Procs -> {"w_start", "open", "resize", "w_open", "clear", "w_map",
                               "w_slot", "start", "copy", "w_end", "verify", "unmap",
                               "done", "aborted"}]
          /\ file_size \in {"none", "empty", "full"}

(***************************************************************************)
(* mmap_bandwidth.cc:40 truncates a file the receiver may have mapped: no  *)
(* process touches its mapping while the file is shorter than it (SIGBUS). *)
(***************************************************************************)
NoTruncatedAccess ==
    (\E p \in Procs : InStep(p) \/ pc[p] = "clear") => file_size = "full"
=============================================================================
