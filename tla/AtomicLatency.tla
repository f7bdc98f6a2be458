----------------------------- MODULE AtomicLatency -----------------------------
(***************************************************************************)
(* atomic_latency.cc and atomic_rel_acq_latency.cc: parent and child flip a*)
(* std::atomic<bool> each, and wait for the other's flip.  The second file *)
(* stores with memory_order_relaxed and loads with memory_order_acquire:   *)
(* its thread may go on while its store is not yet visible, but the stores *)
(* to one atomic become visible in their order.  Each atomic has one writer*)
(* and one reader, so a queue of invisible stores per writer stands for    *)
(* every value the reader may still load.                                  *)
(***************************************************************************)
EXTENDS LatencyLoop

CONSTANT Relaxed     \* memory_order_relaxed and _acquire, not _seq_cst

VARIABLES flag,      \* flag[p]: the visible value of the atomic p writes
          pending    \* pending[p]: p's stores that are not yet visible

atomics == <<flag, pending>>
vars    == <<loop, atomics>>

Init == /\ LoopInit
        /\ pc = [parent |-> "create", child |-> "none"]
        /\ flag = [p \in Procs |-> FALSE]
        /\ pending = [p \in Procs |-> <<>>]

Store(p, value) ==
    IF Relaxed
    THEN pending' = [pending EXCEPT ![p] = Append(@, value)] /\ UNCHANGED flag
    ELSE flag' = [flag EXCEPT ![p] = value] /\ UNCHANGED pending

\* A relaxed store becomes visible.
Flush(p) ==
    /\ pending[p] # <<>>
    /\ flag' = [flag EXCEPT ![p] = Head(pending[p])]
    /\ pending' = [pending EXCEPT ![p] = Tail(@)]
    /\ UNCHANGED loop

\* while (other.load() != value);  A load of the old value changes nothing.
Await(p, value) == flag[Other(p)] = value /\ UNCHANGED atomics

Create == CreateThread("up", "wait_up") /\ UNCHANGED atomics

Join == JoinThread /\ UNCHANGED atomics
-----------------------------------------------------------------------------
\* On to the next statement of the same turn.
Step(p, line) == Goto(p, line) /\ UNCHANGED <<iter, turn>>

\* ParentFlip: store(true), wait for true, store(false), wait for false.
ParentFlip ==
    \/ pc["parent"] = "up" /\ Store("parent", TRUE) /\ Step("parent", "wait_up")
    \/ pc["parent"] = "wait_up" /\ Await("parent", TRUE) /\ Step("parent", "down")
    \/ pc["parent"] = "down" /\ Store("parent", FALSE) /\ Step("parent", "wait_down")
    \/ pc["parent"] = "wait_down" /\ Await("parent", FALSE) /\ EndTurn("parent", "up", "join")

\* ChildFlip: wait for true, store(true), wait for false, store(false).
ChildFlip ==
    \/ pc["child"] = "wait_up" /\ Await("child", TRUE) /\ Step("child", "up")
    \/ pc["child"] = "up" /\ Store("child", TRUE) /\ Step("child", "wait_down")
    \/ pc["child"] = "wait_down" /\ Await("child", FALSE) /\ Step("child", "down")
    \/ pc["child"] = "down" /\ Store("child", FALSE) /\ EndTurn("child", "wait_up", "exit")

Parent == Create \/ ParentFlip \/ Join
Child  == ChildFlip
Memory == \E p \in Procs : Flush(p)
-----------------------------------------------------------------------------
\* Two exchanges per turn: up and down.
asked == 2 * Turns("parent") + (IF pc["parent"] \in {"wait_up", "down"} THEN 1
                                ELSE IF pc["parent"] = "wait_down" THEN 2 ELSE 0)
answered == 2 * Turns("child") + (IF pc["child"] \in {"wait_down", "down"} THEN 1 ELSE 0)
seen == 2 * Turns("parent") + (IF pc["parent"] \in {"down", "wait_down"} THEN 1 ELSE 0)

\* Every variable keeps its type.
TypeOK ==
    /\ LoopTypeOK
    /\ pc["parent"] \in {"create", "up", "wait_up", "down", "wait_down", "join", "done"}
    /\ pc["child"] \in {"none", "wait_up", "up", "wait_down", "down", "exit"}
    /\ flag \in [Procs -> BOOLEAN]
    /\ pending \in [Procs -> Seq(BOOLEAN)]

\* No store is under way, and both atomics are back at false.
Quiet == flag = [p \in Procs |-> FALSE] /\ pending = [p \in Procs |-> <<>>]

\* p loads the old value, and no store to it is on its way.
Blocked(p) ==
    \/ Idle(p)
    \/ /\ \/ pc[p] = "wait_up" /\ flag[Other(p)] = FALSE
          \/ pc[p] = "wait_down" /\ flag[Other(p)] = TRUE
       /\ pending[Other(p)] = <<>>

\* Stores not yet visible to the other thread.
InFlight == Len(pending["parent"]) + Len(pending["child"])
=============================================================================
