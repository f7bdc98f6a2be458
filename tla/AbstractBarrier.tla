-------------------------- MODULE AbstractBarrier --------------------------
(***************************************************************************)
(* What one SenseReversingBarrier promises to the processes that share it: *)
(* a process that has called Wait k times returns from the k-th call only  *)
(* once every process has called Wait k times.  Counters stand for the     *)
(* calls made and the calls returned; how the barrier decides is left out. *)
(* The transfer modules use Arrive and Pass as their barrier.Wait().       *)
(***************************************************************************)
EXTENDS Naturals

CONSTANT Procs                     \* the users of the barrier

VARIABLES arrived,                 \* arrived[p]: calls of Wait p has made
          passed                   \* passed[p]: calls of Wait that returned

vars == <<arrived, passed>>

Init == /\ arrived = [p \in Procs |-> 0]
        /\ passed  = [p \in Procs |-> 0]

\* p enters Wait and is counted.
Arrive(p) == /\ arrived[p] = passed[p]
             /\ arrived' = [arrived EXCEPT ![p] = @ + 1]
             /\ UNCHANGED passed

\* p returns from Wait: everybody has arrived as often as p.
Pass(p) == /\ passed[p] < arrived[p]
           /\ \A q \in Procs : arrived[p] <= arrived[q]
           /\ passed' = [passed EXCEPT ![p] = @ + 1]
           /\ UNCHANGED arrived

\* p has called Wait, and somebody has not.
Waiting(p) == passed[p] < arrived[p] /\ \E q \in Procs : arrived[q] < arrived[p]

Next == \E p \in Procs : Arrive(p) \/ Pass(p)

Spec == Init /\ [][Next]_vars

\* A released process does return; nobody is obliged to arrive.
FairSpec == Spec /\ \A p \in Procs : WF_vars(Pass(p))
=============================================================================
