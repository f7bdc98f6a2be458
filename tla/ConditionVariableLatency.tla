----------------------- MODULE ConditionVariableLatency -----------------------
(***************************************************************************)
(* condition_variable_latency.cc: two flags, each with a mutex and a       *)
(* condition variable of its own, named for the thread that sets the flag. *)
(* wait(lock, predicate) is the loop of <condition_variable>: test under   *)
(* the mutex, sleep and release it in one step, and lock it again when     *)
(* woken, which may also happen without a notify.                          *)
(***************************************************************************)
EXTENDS LatencyLoop

VARIABLES ready,    \* ready[p]: p's flag
          owner     \* owner[p]: who holds p's mutex, or "nobody"

flags == <<ready, owner>>
vars  == <<loop, flags>>

Init == /\ LoopInit
        /\ pc = [parent |-> "create", child |-> "none"]
        /\ ready = [p \in Procs |-> FALSE]
        /\ owner = [p \in Procs |-> "nobody"]

Create == CreateThread("lock_own", "lock_other") /\ UNCHANGED flags

\* join(), then both flags are reset, without the mutexes.
Join == /\ JoinThread
        /\ ready' = [p \in Procs |-> FALSE]
        /\ UNCHANGED owner
-----------------------------------------------------------------------------
\* A lock of m's mutex by p.
Lock(p, m, from, to) ==
    /\ pc[p] = from
    /\ owner[m] = "nobody"
    /\ owner' = [owner EXCEPT ![m] = p]
    /\ Goto(p, to)
    /\ UNCHANGED <<ready, iter, turn>>

\* { lock_guard lock(own mutex); own flag = true; }
SetReady(p) ==
    /\ pc[p] = "set"
    /\ ready' = [ready EXCEPT ![p] = TRUE]
    /\ owner' = [owner EXCEPT ![p] = "nobody"]
    /\ Goto(p, "notify")
    /\ UNCHANGED <<iter, turn>>

\* Mutant: the flag is set without the mutex.
Signal_NoLock(p) ==
    /\ pc[p] = "lock_own"
    /\ ready' = [ready EXCEPT ![p] = TRUE]
    /\ Goto(p, "notify")
    /\ UNCHANGED <<owner, iter, turn>>

\* Set the own flag under the own mutex.
Signal(p) == Lock(p, p, "lock_own", "set") \/ SetReady(p)

\* notify_one(): the other thread, if it sleeps on this condition variable,
\* goes for the mutex again.
Woken(p) == IF pc[Other(p)] = "asleep" THEN [pc EXCEPT ![Other(p)] = "lock_other"] ELSE pc

\* After its notify the parent waits; the child is at the end of its turn.
ParentNotifies ==
    /\ pc["parent"] = "notify"
    /\ pc' = [Woken("parent") EXCEPT !["parent"] = "lock_other"]
    /\ UNCHANGED <<iter, turn, flags>>

ChildNotifies ==
    /\ pc["child"] = "notify"
    /\ turn' = [turn EXCEPT !["child"] = @ + 1]
    /\ pc' = [Woken("child") EXCEPT !["child"] =
                 IF turn["child"] + 1 < LoopSize THEN "lock_other" ELSE "exit"]
    /\ UNCHANGED <<iter, flags>>
-----------------------------------------------------------------------------
\* The predicate is false: release the mutex and sleep.
Sleep(p) ==
    /\ pc[p] = "sleep"
    /\ owner' = [owner EXCEPT ![Other(p)] = "nobody"]
    /\ Goto(p, "asleep")
    /\ UNCHANGED <<ready, iter, turn>>

\* Woken without a notify.
Spurious(p) ==
    /\ pc[p] = "asleep"
    /\ Goto(p, "lock_other")
    /\ UNCHANGED <<iter, turn, flags>>

\* The predicate is true: reset the other's flag and release its mutex.
Take(p) ==
    /\ ready' = [ready EXCEPT ![Other(p)] = FALSE]
    /\ owner' = [owner EXCEPT ![Other(p)] = "nobody"]

\* Mutant: wait(lock) without a predicate, which believes any wake-up.
Test_Once(p) ==
    /\ pc[p] = "test"
    /\ Take(p)
    /\ IF p = "parent" THEN EndTurn(p, "lock_own", "join")
                       ELSE Goto(p, "lock_own") /\ UNCHANGED <<iter, turn>>

\* The predicate, under the mutex of the other's flag.
Test(p) ==
    /\ pc[p] = "test"
    /\ IF ready[Other(p)]
       THEN /\ Take(p)
            /\ IF p = "parent" THEN EndTurn(p, "lock_own", "join")
                               ELSE Goto(p, "lock_own") /\ UNCHANGED <<iter, turn>>
       ELSE Goto(p, "sleep") /\ UNCHANGED <<iter, turn, flags>>

Flip(p) == Signal(p) \/ Lock(p, Other(p), "lock_other", "test") \/ Test(p) \/ Sleep(p)

Parent == Create \/ Flip("parent") \/ ParentNotifies \/ Join
Child  == Flip("child") \/ ChildNotifies
Memory == \E p \in Procs : Spurious(p)
-----------------------------------------------------------------------------
\* One exchange per turn: a message is sent when its flag is set, and an
\* answer seen when its flag is reset.
Sent(p) == IF \/ pc[p] = "notify"
              \/ p = "parent" /\ pc[p] \in {"lock_other", "test", "sleep", "asleep"}
           THEN 1 ELSE 0
asked    == Turns("parent") + Sent("parent")
answered == Turns("child") + Sent("child")
seen     == Turns("parent")

Lines == {"lock_own", "set", "notify", "lock_other", "test", "sleep", "asleep"}

\* Every variable keeps its type, and a mutex is held by who is inside it.
TypeOK ==
    /\ LoopTypeOK
    /\ pc["parent"] \in Lines \cup {"create", "join", "done"}
    /\ pc["child"] \in Lines \cup {"none", "exit"}
    /\ ready \in [Procs -> BOOLEAN]
    /\ owner \in [Procs -> Procs \cup {"nobody"}]
    /\ \A m, p \in Procs :
          owner[m] = p <=> \/ m = p /\ pc[p] = "set"
                           \/ m # p /\ pc[p] \in {"test", "sleep"}

\* No flag is set and no mutex held.
Quiet == ready = [p \in Procs |-> FALSE] /\ owner = [p \in Procs |-> "nobody"]

\* p waits for a mutex or for a notify; that it may wake up without one does not count.
Blocked(p) == \/ Idle(p)
              \/ pc[p] = "lock_own" /\ owner[p] # "nobody"
              \/ pc[p] = "lock_other" /\ owner[Other(p)] # "nobody"
              \/ pc[p] = "asleep"

\* Flags set and not yet taken.
InFlight == (IF ready["parent"] THEN 1 ELSE 0) + (IF ready["child"] THEN 1 ELSE 0)
=============================================================================
