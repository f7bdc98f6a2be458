------------------------------ MODULE LatencyLoop ------------------------------
(***************************************************************************)
(* The frame of atomic_, atomic_rel_acq_, condition_variable_ and          *)
(* semaphore_latency.cc: a parent and a child go through loop_size turns   *)
(* per iteration.  In the first three the child is a thread, made and      *)
(* joined in every iteration; in the last a process, forked once.          *)
(***************************************************************************)
EXTENDS Naturals, Sequences

CONSTANTS LoopSize,    \* loop_size: turns of one iteration
          Iterations   \* num_iterations + num_warmups

ASSUME LoopAssumption == LoopSize \in Nat \ {0} /\ Iterations \in Nat \ {0}

VARIABLES pc,      \* pc[p]: what p does next
          iter,    \* iter[p]: iterations p has finished; for a thread, had
                   \* been finished when it was made
          turn     \* turn[p]: turns p has finished in this iteration

loop == <<pc, iter, turn>>

Procs == {"parent", "child"}
Other(p) == IF p = "parent" THEN "child" ELSE "parent"

\* Turns p has finished in all iterations.
Turns(p) == iter[p] * LoopSize + turn[p]

LoopInit == iter = [p \in Procs |-> 0] /\ turn = [p \in Procs |-> 0]

Goto(p, line) == pc' = [pc EXCEPT ![p] = line]

\* The end of a turn: the next one, or what follows the loop.
EndTurn(p, first, end) ==
    /\ turn' = [turn EXCEPT ![p] = @ + 1]
    /\ Goto(p, IF turn[p] + 1 < LoopSize THEN first ELSE end)
    /\ UNCHANGED iter

\* The end of an iteration: the next one, or what follows the iterations.
EndIteration(p, first, end) ==
    /\ iter' = [iter EXCEPT ![p] = @ + 1]
    /\ turn' = [turn EXCEPT ![p] = 0]
    /\ Goto(p, IF iter[p] + 1 < Iterations THEN first ELSE end)
-----------------------------------------------------------------------------
\* std::thread child_thread(...): the new thread begins its loop.
CreateThread(parent_line, child_line) ==
    /\ pc["parent"] = "create"
    /\ pc' = [parent |-> parent_line, child |-> child_line]
    /\ iter' = [iter EXCEPT !["child"] = iter["parent"]]
    /\ turn' = [turn EXCEPT !["child"] = 0]

\* Mutant: child_thread.detach().
JoinThread_Detach ==
    /\ pc["parent"] = "join"
    /\ EndIteration("parent", "create", "done")

\* child_thread.join().
JoinThread ==
    /\ pc["parent"] = "join"
    /\ pc["child"] = "exit"
    /\ EndIteration("parent", "create", "done")
-----------------------------------------------------------------------------
LoopTypeOK == iter \in [Procs -> 0 .. Iterations] /\ turn \in [Procs -> 0 .. LoopSize]

\* p has not begun, has ended, or is in a join() that the child has not ended.
Idle(p) == \/ pc[p] \in {"none", "exit", "done", "aborted"}
           \/ pc[p] = "join" /\ pc["child"] # "exit"

AllDone == pc["parent"] = "done" /\ pc["child"] = "exit"

\* Every turn of every iteration ends, and so does the child.
Termination == <>AllDone
=============================================================================
