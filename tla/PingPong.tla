------------------------------- MODULE PingPong -------------------------------
(***************************************************************************)
(* What a latency benchmark measures: exchanges, one after the other, of a *)
(* message of the parent and an answer of the child.  The measured time is *)
(* divided by the number of messages, which is right only if the next one  *)
(* is never sent before the one before it has been seen.                   *)
(***************************************************************************)
EXTENDS Naturals

VARIABLES asked,      \* messages the parent has sent
          answered,   \* answers the child has sent
          seen        \* answers the parent has seen

vars == <<asked, answered, seen>>

Init == asked = 0 /\ answered = 0 /\ seen = 0

Ask    == asked = seen /\ asked' = asked + 1 /\ UNCHANGED <<answered, seen>>
Answer == answered < asked /\ answered' = answered + 1 /\ UNCHANGED <<asked, seen>>
See    == seen < answered /\ seen' = seen + 1 /\ UNCHANGED <<asked, answered>>

Next == Ask \/ Answer \/ See

Spec == Init /\ [][Next]_vars

\* The parent may stop asking; what it has asked is answered and seen.
FairSpec == Spec /\ WF_vars(Answer) /\ WF_vars(See)
=============================================================================
