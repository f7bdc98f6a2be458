--------------------------- MODULE SemaphoreLatency ---------------------------
(***************************************************************************)
(* semaphore_latency.cc: two named semaphores, made before the fork and    *)
(* opened again by both processes.  Nothing separates the iterations but   *)
(* the semaphores themselves.                                              *)
(***************************************************************************)
EXTENDS LatencyLoop

VARIABLES count,    \* count[p]: the value of SEM_NAME_PARENT, SEM_NAME_CHILD
          named     \* whether the two names exist

semaphores == <<count, named>>
vars       == <<loop, semaphores>>

\* Before CleanupSemaphores; the names have a random suffix and are new.
Init == /\ LoopInit
        /\ pc = [parent |-> "clean", child |-> "none"]
        /\ count = [p \in Procs |-> 0]
        /\ named = FALSE

\* CleanupSemaphores: two calls of sem_unlink.  The semaphores live on in
\* the processes that have them open.
Clean(from, to) ==
    /\ pc["parent"] = from
    /\ named' = FALSE
    /\ Goto("parent", to)
    /\ UNCHANGED <<iter, turn, count>>

\* sem_open(O_CREAT, 0), and sem_close, of both.
Make ==
    /\ pc["parent"] = "make"
    /\ named' = TRUE
    /\ count' = [p \in Procs |-> 0]
    /\ Goto("parent", "fork")
    /\ UNCHANGED <<iter, turn>>

Fork ==
    /\ pc["parent"] = "fork"
    /\ pc' = [parent |-> "open", child |-> "open"]
    /\ UNCHANGED <<iter, turn, semaphores>>

\* sem_open without O_CREAT; AKCHECK ends the process when a name is gone.
Open(p, first) ==
    /\ pc[p] = "open"
    /\ Goto(p, IF named THEN first ELSE "aborted")
    /\ UNCHANGED <<iter, turn, semaphores>>

Post(m) == count' = [count EXCEPT ![m] = @ + 1] /\ UNCHANGED named
Take(m) == count[m] > 0 /\ count' = [count EXCEPT ![m] = @ - 1] /\ UNCHANGED named
-----------------------------------------------------------------------------
ParentPosts == /\ pc["parent"] = "post"
               /\ Post("child")
               /\ Goto("parent", "wait")
               /\ UNCHANGED <<iter, turn>>

\* Mutant: sem_trywait.
ParentWaits_Not == /\ pc["parent"] = "wait"
                   /\ count' = [count EXCEPT !["parent"] = IF @ > 0 THEN @ - 1 ELSE 0]
                   /\ UNCHANGED named
                   /\ EndTurn("parent", "post", "measured")

ParentWaits == /\ pc["parent"] = "wait"
               /\ Take("parent")
               /\ EndTurn("parent", "post", "measured")

ChildWaits == /\ pc["child"] = "wait"
              /\ Take("child")
              /\ Goto("child", "post")
              /\ UNCHANGED <<iter, turn>>

ChildPosts == /\ pc["child"] = "post"
              /\ Post("parent")
              /\ EndTurn("child", "wait", "measured")

\* The end of the loop over j.
Measured(p, first, end) ==
    /\ pc[p] = "measured"
    /\ EndIteration(p, first, end)
    /\ UNCHANGED semaphores

WaitPid == /\ pc["parent"] = "waitpid"
           /\ pc["child"] \in {"exit", "aborted"}
           /\ Goto("parent", "unlink")
           /\ UNCHANGED <<iter, turn, semaphores>>

Parent == \/ Clean("clean", "make") \/ Make \/ Fork \/ Open("parent", "post")
          \/ ParentPosts \/ ParentWaits \/ Measured("parent", "post", "waitpid")
          \/ WaitPid \/ Clean("unlink", "done")
Child  == \/ Open("child", "wait") \/ ChildWaits \/ ChildPosts
          \/ Measured("child", "wait", "exit")
-----------------------------------------------------------------------------
\* One exchange per turn.
asked    == Turns("parent") + (IF pc["parent"] = "wait" THEN 1 ELSE 0)
answered == Turns("child")
seen     == Turns("parent")

\* Every variable keeps its type; the counts are far from SEM_VALUE_MAX.
TypeOK ==
    /\ LoopTypeOK
    /\ pc["parent"] \in {"clean", "make", "fork", "open", "post", "wait", "measured",
                         "waitpid", "unlink", "done", "aborted"}
    /\ pc["child"] \in {"none", "open", "wait", "post", "measured", "exit", "aborted"}
    /\ count \in [Procs -> 0 .. 1]
    /\ named \in BOOLEAN

\* Neither semaphore has been posted and not taken.
Quiet == count = [p \in Procs |-> 0]

\* p waits for a post or for the end of the child.
Blocked(p) == \/ Idle(p)
              \/ pc[p] = "wait" /\ count[p] = 0
              \/ pc[p] = "waitpid" /\ pc["child"] \notin {"exit", "aborted"}

\* Posts not yet taken.
InFlight == count["parent"] + count["child"]
=============================================================================
