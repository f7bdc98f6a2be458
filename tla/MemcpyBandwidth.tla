---------------------------- MODULE MemcpyBandwidth ----------------------------
(***************************************************************************)
(* memcpy_bandwidth.cc: fill, one memcpy in the main thread, verify, keep. *)
(***************************************************************************)
EXTENDS MeasuredLoop

vars == <<pc, i, durations, dst>>

Init == MeasuredInit /\ pc = "fill"

Copy == /\ pc = "copy"
        /\ dst' = Bytes
        /\ pc' = "verify"
        /\ UNCHANGED <<i, durations>>

\* The AKCHECK verifies src, which nobody has changed: it says nothing of dst.
Verify == /\ pc = "verify"
          /\ EndIteration("fill", "calculate")
          /\ UNCHANGED dst

Main == Fill("copy") \/ Copy \/ Verify \/ CalculateBandwidth

Spec == Init /\ [][Main]_vars
-----------------------------------------------------------------------------
\* Every variable keeps its type.
TypeOK == MeasuredTypeOK /\ pc \in {"fill", "copy", "verify", "calculate", "done"}
=============================================================================
