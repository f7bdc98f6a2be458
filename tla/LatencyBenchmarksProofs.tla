------------------------ MODULE LatencyBenchmarksProofs ------------------------
(***************************************************************************)
(* Proofs about the ping-pong loops of atomic_latency.cc,                  *)
(* condition_variable_latency.cc, semaphore_latency.cc and the two ranks of*)
(* mpi_bandwidth.cc, for every number of iterations and every loop size: a *)
(* message is answered before the next is sent, an iteration leaves nothing*)
(* behind, sem_open finds its names, every step is one of PingPong or none.*)
(*                                                                         *)
(* The argument is the same for all five. Four numbers count the messages  *)
(* of a run: those the parent has sent, those the child has taken, those it*)
(* has answered, and the answers the parent has taken (Asked, Heard,       *)
(* Answered, Seen). What is in the channel from the parent is Asked - Heard*)
(* and what is in the other is Answered - Seen; where the two are in their *)
(* loops gives the rest: Seen <= Answered <= Heard <= Asked <= Seen + 1.   *)
(***************************************************************************)
EXTENDS LatencyBenchmarks, TLAPS

\* The lines of all the loops: all but "aborted".
Labels == {"none", "clean", "make", "fork", "open", "post", "wait", "measured", "waitpid",
           "unlink", "create", "up", "wait_up", "down", "wait_down", "join", "lock_own",
           "set", "notify", "lock_other", "test", "sleep", "asleep", "ready", "begin",
           "send", "sending", "recv", "end", "verify", "exit", "done"}

\* The variables that all the benchmarks share.
LoopInv == /\ pc \in [Procs -> Labels]
           /\ iter \in [Procs -> 0 .. Iterations]
           /\ turn \in [Procs -> 0 .. LoopSize]
-----------------------------------------------------------------------------
\* Turns of 0 iterations and 0 turns.
LEMMA TurnsAtFirst ==
    ASSUME NEW p \in Procs, iter[p] = 0, turn[p] = 0
    PROVE  Turns(p) = 0
  BY LoopAssumption DEF Turns, LoopAssumption

\* They are as many while no loop moves on.
LEMMA TurnsStay ==
    ASSUME NEW p \in Procs, iter' = iter, turn' = turn
    PROVE  Turns(p)' = Turns(p)
  BY DEF Turns

\* The turns a loop has ended are a number.
LEMMA TurnsAreNat ==
    ASSUME LoopInv
    PROVE  \A p \in Procs : Turns(p) \in Nat
<1>1. \A p \in Procs : iter[p] \in Nat /\ turn[p] \in Nat
  BY LoopAssumption DEF LoopAssumption, LoopInv
<1>2. \A i, t, l \in Nat : i * l + t \in Nat
  OBVIOUS
<1> QED
  BY <1>1, <1>2, LoopAssumption DEF Turns, LoopAssumption

\* The end of a turn is one more of them for p and changes nothing for the other.
LEMMA TurnEnds ==
    ASSUME LoopInv, NEW p \in Procs,
           iter' = iter, turn' = [turn EXCEPT ![p] = @ + 1]
    PROVE  Turns(p)' = Turns(p) + 1 /\ Turns(Other(p))' = Turns(Other(p))
<1>1. \A i, t, l \in Nat : i * l + (t + 1) = i * l + t + 1
  OBVIOUS
<1>2. iter[p] \in Nat /\ turn[p] \in Nat /\ LoopSize \in Nat
  BY LoopAssumption DEF LoopAssumption, LoopInv
<1>3. Other(p) \in Procs /\ Other(p) # p
  BY DEF Procs, Other
<1>4. turn'[p] = turn[p] + 1 /\ turn'[Other(p)] = turn[Other(p)]
  BY <1>3 DEF LoopInv
<1> QED
  BY <1>1, <1>2, <1>3, <1>4 DEF Turns

\* A new child thread has ended as many as the parent that starts it.
LEMMA ThreadStarts ==
    ASSUME LoopInv, turn["parent"] = 0,
           iter' = [iter EXCEPT !["child"] = iter["parent"]], turn' = [turn EXCEPT !["child"] = 0]
    PROVE  Turns("parent")' = Turns("parent") /\ Turns("child")' = Turns("parent")
<1>1. iter'["parent"] = iter["parent"] /\ turn'["parent"] = turn["parent"]
  BY DEF LoopInv, Procs
<1>2. iter'["child"] = iter["parent"] /\ turn'["child"] = turn["parent"]
  BY DEF LoopInv, Procs
<1> QED
  BY <1>1, <1>2 DEF Turns

\* The end of an iteration is not one more: its LoopSize turns are counted with
\* the iterations from there on.
LEMMA IterationEnds ==
    ASSUME LoopInv, NEW p \in Procs, turn[p] = LoopSize,
           iter' = [iter EXCEPT ![p] = @ + 1], turn' = [turn EXCEPT ![p] = 0]
    PROVE  Turns(p)' = Turns(p) /\ Turns(Other(p))' = Turns(Other(p))
<1>1. \A i, l \in Nat : (i + 1) * l + 0 = i * l + l
  OBVIOUS
<1>2. iter[p] \in Nat /\ LoopSize \in Nat
  BY LoopAssumption DEF LoopAssumption, LoopInv
<1>3. Other(p) \in Procs /\ Other(p) # p
  BY DEF Procs, Other
<1>4. iter'[p] = iter[p] + 1 /\ turn'[p] = 0
  BY DEF LoopInv
<1>5. iter'[Other(p)] = iter[Other(p)] /\ turn'[Other(p)] = turn[Other(p)]
  BY <1>3 DEF LoopInv
<1>6. Turns(Other(p))' = Turns(Other(p))
  BY <1>5 DEF Turns
<1>7. Turns(p)' = Turns(p)
  BY <1>1, <1>2, <1>4 DEF Turns
<1> QED
  BY <1>6, <1>7

\* In the same iteration, who has ended more turns of it has ended more of all.
LEMMA SameIteration ==
    ASSUME LoopInv, iter["child"] = iter["parent"]
    PROVE  \E n \in Nat : \A p \in Procs : Turns(p) = n + turn[p]
<1>1. iter["parent"] \in Nat /\ LoopSize \in Nat
  BY LoopAssumption DEF LoopAssumption, LoopInv, Procs
<1>2. \A i, l \in Nat : i * l \in Nat
  OBVIOUS
<1>3. iter["parent"] * LoopSize \in Nat
  BY <1>1, <1>2
<1>4. \A p \in Procs : Turns(p) = iter["parent"] * LoopSize + turn[p]
  BY DEF Turns, Procs
<1> QED
  BY <1>3, <1>4

\* Who is in a turn of an iteration has ended fewer than all of them.
LEMMA TurnsLeft ==
    ASSUME LoopInv, NEW p \in Procs, iter[p] < Iterations, turn[p] < LoopSize
    PROVE  Turns(p) < Iterations * LoopSize
<1>1. iter[p] \in Nat /\ turn[p] \in Nat /\ LoopSize \in Nat /\ Iterations \in Nat
  BY LoopAssumption DEF LoopAssumption, LoopInv
<1>2. PICK k \in Nat : Iterations = iter[p] + 1 + k
  <2>1. Iterations - iter[p] - 1 \in Nat
    BY <1>1
  <2> QED
    BY <1>1, <2>1
<1>3. \A i, j, l \in Nat : (i + 1 + j) * l = i * l + l + j * l /\ j * l \in Nat /\ i * l \in Nat
  OBVIOUS
<1>4. /\ Iterations * LoopSize = iter[p] * LoopSize + LoopSize + k * LoopSize
      /\ k * LoopSize \in Nat /\ iter[p] * LoopSize \in Nat
  BY <1>1, <1>2, <1>3
<1> QED
  BY <1>1, <1>4 DEF Turns

\* Who has ended every iteration has ended all of them.
LEMMA NoTurnsLeft ==
    ASSUME LoopInv, NEW p \in Procs, iter[p] = Iterations, turn[p] = 0
    PROVE  Turns(p) = Iterations * LoopSize
<1>1. \A i, l \in Nat : i * l + 0 = i * l
  OBVIOUS
<1> QED
  BY <1>1, LoopAssumption DEF LoopAssumption, Turns
-----------------------------------------------------------------------------
\* A step of PingPong, or a stutter, from a, b, c to a1, b1, c1 messages asked,
\* answered and seen.
Plays(a, b, c, a1, b1, c1) ==
    \/ a = c /\ a1 = a + 1 /\ b1 = b /\ c1 = c
    \/ b < a /\ a1 = a /\ b1 = b + 1 /\ c1 = c
    \/ c < b /\ a1 = a /\ b1 = b /\ c1 = c + 1
    \/ a1 = a /\ b1 = b /\ c1 = c
-----------------------------------------------------------------------------
(***************************************************************************)
(* semaphore_latency.cc.                                                   *)
(***************************************************************************)
SemHeard == Turns("child") + (IF pc["child"] = "post" THEN 1 ELSE 0)
SemAsked == Turns("parent") + (IF pc["parent"] = "wait" THEN 1 ELSE 0)

SemTypeOK ==
    /\ pc["parent"] \in {"clean", "make", "fork", "open", "post", "wait", "measured",
                         "waitpid", "unlink", "done"}
    /\ pc["child"] \in {"none", "open", "wait", "post", "measured", "exit"}
    /\ count \in [Procs -> Nat]
    /\ named \in BOOLEAN

\* Where both are in their loops, and which of them the names and the child need.
SemLoop ==
    /\ \A p \in Procs :
          /\ pc[p] \in {"clean", "make", "fork", "none", "open"} => iter[p] = 0 /\ turn[p] = 0
          /\ pc[p] \in {"post", "wait"} => iter[p] < Iterations /\ turn[p] < LoopSize
          /\ pc[p] = "measured" => iter[p] < Iterations /\ turn[p] = LoopSize
          /\ pc[p] \in {"waitpid", "unlink", "done", "exit"} =>
                iter[p] = Iterations /\ turn[p] = 0
    /\ pc["child"] = "none" <=> pc["parent"] \in {"clean", "make", "fork"}
    /\ named <=> pc["parent"] \notin {"clean", "make", "done"}
    /\ pc["parent"] \in {"unlink", "done"} => pc["child"] = "exit"

\* The value of a semaphore is what has been posted and not taken.
SemCounts ==
    /\ count["parent"] + Turns("parent") = Turns("child")
    /\ count["child"] + SemHeard = SemAsked

SemPlays == Plays(SemAsked, Turns("child"), Turns("parent"),
                  SemAsked', Turns("child")', Turns("parent")')

SemInv == LoopInv /\ SemTypeOK /\ SemLoop /\ SemCounts

\* A step of either process keeps the invariant and is a step of PingPong or none.
LEMMA SemNext ==
    ASSUME SemInv, Sem!Parent \/ Sem!Child
    PROVE  SemInv' /\ SemPlays
<1> USE LoopAssumption DEF SemInv, LoopAssumption
<1>1. \A p \in Procs : Turns(p) \in Nat
  BY TurnsAreNat
<1>2. CASE Sem!Clean("clean", "make")
  <2>1. \A p \in Procs : Turns(p)' = Turns(p)
    BY <1>2, TurnsStay DEF Sem!Clean, Sem!Goto
  <2>2. LoopInv' /\ SemTypeOK' /\ SemLoop'
    BY <1>2 DEF Sem!Clean, Sem!Goto, LoopInv, SemTypeOK, SemLoop, Labels, Procs
  <2>3. SemCounts'
    BY <1>1, <1>2, <2>1 DEF Sem!Clean, Sem!Goto, LoopInv, SemTypeOK, SemLoop, SemCounts,
       SemHeard, SemAsked, Procs
  <2>4. SemPlays
    BY <1>1, <1>2, <2>1 DEF Sem!Clean, Sem!Goto, LoopInv, SemTypeOK, SemLoop, SemCounts,
       SemHeard, SemAsked, SemPlays, Plays, Procs
  <2> QED
    BY <2>2, <2>3, <2>4
<1>3. CASE Sem!Make
  <2>1. \A p \in Procs : Turns(p)' = Turns(p)
    BY <1>3, TurnsStay DEF Sem!Make, Sem!Goto
  <2>2. LoopInv' /\ SemTypeOK' /\ SemLoop'
    BY <1>3 DEF Sem!Make, Sem!Goto, Sem!Procs, LoopInv, SemTypeOK, SemLoop, Labels, Procs
  <2>3. \A p \in Procs : Turns(p) = 0
    BY <1>3, TurnsAtFirst DEF Sem!Make, SemLoop, SemTypeOK, Procs
  <2>4. SemCounts'
    BY <1>3, <2>1, <2>3 DEF Sem!Make, Sem!Goto, Sem!Procs, LoopInv, SemLoop, SemCounts,
       SemHeard, SemAsked, Procs
  <2>5. SemPlays
    BY <1>3, <2>1, <2>3 DEF Sem!Make, Sem!Goto, Sem!Procs, LoopInv, SemLoop, SemCounts,
       SemHeard, SemAsked, SemPlays, Plays, Procs
  <2> QED
    BY <2>2, <2>4, <2>5
<1>4. CASE Sem!Fork
  <2>1. \A p \in Procs : Turns(p)' = Turns(p)
    BY <1>4, TurnsStay DEF Sem!Fork, Sem!semaphores
  <2>2. LoopInv' /\ SemTypeOK' /\ SemLoop'
    BY <1>4 DEF Sem!Fork, Sem!semaphores, LoopInv, SemTypeOK, SemLoop, Labels, Procs
  <2>3. SemCounts'
    BY <1>1, <1>4, <2>1 DEF Sem!Fork, Sem!semaphores, LoopInv, SemTypeOK, SemLoop, SemCounts,
       SemHeard, SemAsked, Procs
  <2>4. SemPlays
    BY <1>1, <1>4, <2>1 DEF Sem!Fork, Sem!semaphores, LoopInv, SemTypeOK, SemLoop, SemCounts,
       SemHeard, SemAsked, SemPlays, Plays, Procs
  <2> QED
    BY <2>2, <2>3, <2>4
<1>5. CASE Sem!Open("parent", "post")
  <2>1. \A p \in Procs : Turns(p)' = Turns(p)
    BY <1>5, TurnsStay DEF Sem!Open, Sem!semaphores, Sem!Goto
  <2>2. LoopInv' /\ SemTypeOK' /\ SemLoop'
    BY <1>5 DEF Sem!Open, Sem!semaphores, Sem!Goto, LoopInv, SemTypeOK, SemLoop, Labels, Procs
  <2>3. SemCounts'
    BY <1>1, <1>5, <2>1 DEF Sem!Open, Sem!semaphores, Sem!Goto, LoopInv, SemTypeOK, SemLoop,
       SemCounts, SemHeard, SemAsked, Procs
  <2>4. SemPlays
    BY <1>1, <1>5, <2>1 DEF Sem!Open, Sem!semaphores, Sem!Goto, LoopInv, SemTypeOK, SemLoop,
       SemCounts, SemHeard, SemAsked, SemPlays, Plays, Procs
  <2> QED
    BY <2>2, <2>3, <2>4
<1>6. CASE Sem!Open("child", "wait")
  <2>1. \A p \in Procs : Turns(p)' = Turns(p)
    BY <1>6, TurnsStay DEF Sem!Open, Sem!semaphores, Sem!Goto
  <2>2. LoopInv' /\ SemTypeOK' /\ SemLoop'
    BY <1>6 DEF Sem!Open, Sem!semaphores, Sem!Goto, LoopInv, SemTypeOK, SemLoop, Labels, Procs
  <2>3. SemCounts'
    BY <1>1, <1>6, <2>1 DEF Sem!Open, Sem!semaphores, Sem!Goto, LoopInv, SemTypeOK, SemLoop,
       SemCounts, SemHeard, SemAsked, Procs
  <2>4. SemPlays
    BY <1>1, <1>6, <2>1 DEF Sem!Open, Sem!semaphores, Sem!Goto, LoopInv, SemTypeOK, SemLoop,
       SemCounts, SemHeard, SemAsked, SemPlays, Plays, Procs
  <2> QED
    BY <2>2, <2>3, <2>4
<1>7. CASE Sem!ParentPosts
  <2>1. \A p \in Procs : Turns(p)' = Turns(p)
    BY <1>7, TurnsStay DEF Sem!ParentPosts, Sem!Post, Sem!Goto
  <2>2. LoopInv' /\ SemTypeOK' /\ SemLoop'
    BY <1>7 DEF Sem!ParentPosts, Sem!Post, Sem!Goto, LoopInv, SemTypeOK, SemLoop, Labels, Procs
  <2>3. SemCounts'
    BY <1>1, <1>7, <2>1 DEF Sem!ParentPosts, Sem!Post, Sem!Goto, LoopInv, SemTypeOK, SemLoop,
       SemCounts, SemHeard, SemAsked, Procs
  <2>4. SemPlays
    BY <1>1, <1>7, <2>1 DEF Sem!ParentPosts, Sem!Post, Sem!Goto, LoopInv, SemTypeOK, SemLoop,
       SemCounts, SemHeard, SemAsked, SemPlays, Plays, Procs
  <2> QED
    BY <2>2, <2>3, <2>4
<1>8. CASE Sem!ParentWaits
  <2>1. \A p \in Procs : Turns(p)' = IF p = "parent" THEN Turns(p) + 1 ELSE Turns(p)
    BY <1>8, TurnEnds DEF Sem!ParentWaits, Sem!Take, Sem!EndTurn, Sem!Goto, Procs, Other
  <2>2. LoopInv' /\ SemTypeOK' /\ SemLoop'
    BY <1>8 DEF Sem!ParentWaits, Sem!Take, Sem!EndTurn, Sem!Goto, LoopInv, SemTypeOK, SemLoop,
       Labels, Procs
  <2>3. SemCounts'
    BY <1>1, <1>8, <2>1 DEF Sem!ParentWaits, Sem!Take, Sem!EndTurn, Sem!Goto, LoopInv,
       SemTypeOK, SemLoop, SemCounts, SemHeard, SemAsked, Procs
  <2>4. SemPlays
    BY <1>1, <1>8, <2>1 DEF Sem!ParentWaits, Sem!Take, Sem!EndTurn, Sem!Goto, LoopInv,
       SemTypeOK, SemLoop, SemCounts, SemHeard, SemAsked, SemPlays, Plays, Procs
  <2> QED
    BY <2>2, <2>3, <2>4
<1>9. CASE Sem!Measured("parent", "post", "waitpid")
  <2>1. \A p \in Procs : Turns(p)' = Turns(p)
    BY <1>9, IterationEnds DEF Sem!Measured, Sem!semaphores, Sem!EndIteration, Sem!Goto,
       Procs, Other, SemLoop
  <2>2. LoopInv' /\ SemTypeOK' /\ SemLoop'
    BY <1>9 DEF Sem!Measured, Sem!semaphores, Sem!EndIteration, Sem!Goto, LoopInv, SemTypeOK,
       SemLoop, Labels, Procs
  <2>3. SemCounts'
    BY <1>1, <1>9, <2>1 DEF Sem!Measured, Sem!semaphores, Sem!EndIteration, Sem!Goto, LoopInv,
       SemTypeOK, SemLoop, SemCounts, SemHeard, SemAsked, Procs
  <2>4. SemPlays
    BY <1>1, <1>9, <2>1 DEF Sem!Measured, Sem!semaphores, Sem!EndIteration, Sem!Goto, LoopInv,
       SemTypeOK, SemLoop, SemCounts, SemHeard, SemAsked, SemPlays, Plays, Procs
  <2> QED
    BY <2>2, <2>3, <2>4
<1>10. CASE Sem!WaitPid
  <2>1. \A p \in Procs : Turns(p)' = Turns(p)
    BY <1>10, TurnsStay DEF Sem!WaitPid, Sem!semaphores, Sem!Goto
  <2>2. LoopInv' /\ SemTypeOK' /\ SemLoop'
    BY <1>10 DEF Sem!WaitPid, Sem!semaphores, Sem!Goto, LoopInv, SemTypeOK, SemLoop, Labels,
       Procs
  <2>3. SemCounts'
    BY <1>1, <1>10, <2>1 DEF Sem!WaitPid, Sem!semaphores, Sem!Goto, LoopInv, SemTypeOK,
       SemLoop, SemCounts, SemHeard, SemAsked, Procs
  <2>4. SemPlays
    BY <1>1, <1>10, <2>1 DEF Sem!WaitPid, Sem!semaphores, Sem!Goto, LoopInv, SemTypeOK,
       SemLoop, SemCounts, SemHeard, SemAsked, SemPlays, Plays, Procs
  <2> QED
    BY <2>2, <2>3, <2>4
<1>11. CASE Sem!Clean("unlink", "done")
  <2>1. \A p \in Procs : Turns(p)' = Turns(p)
    BY <1>11, TurnsStay DEF Sem!Clean, Sem!Goto
  <2>2. LoopInv' /\ SemTypeOK' /\ SemLoop'
    BY <1>11 DEF Sem!Clean, Sem!Goto, LoopInv, SemTypeOK, SemLoop, Labels, Procs
  <2>3. SemCounts'
    BY <1>1, <1>11, <2>1 DEF Sem!Clean, Sem!Goto, LoopInv, SemTypeOK, SemLoop, SemCounts,
       SemHeard, SemAsked, Procs
  <2>4. SemPlays
    BY <1>1, <1>11, <2>1 DEF Sem!Clean, Sem!Goto, LoopInv, SemTypeOK, SemLoop, SemCounts,
       SemHeard, SemAsked, SemPlays, Plays, Procs
  <2> QED
    BY <2>2, <2>3, <2>4
<1>12. CASE Sem!ChildWaits
  <2>1. \A p \in Procs : Turns(p)' = Turns(p)
    BY <1>12, TurnsStay DEF Sem!ChildWaits, Sem!Take, Sem!Goto
  <2>2. LoopInv' /\ SemTypeOK' /\ SemLoop'
    BY <1>12 DEF Sem!ChildWaits, Sem!Take, Sem!Goto, LoopInv, SemTypeOK, SemLoop, Labels, Procs
  <2>3. SemCounts'
    BY <1>1, <1>12, <2>1 DEF Sem!ChildWaits, Sem!Take, Sem!Goto, LoopInv, SemTypeOK, SemLoop,
       SemCounts, SemHeard, SemAsked, Procs
  <2>4. SemPlays
    BY <1>1, <1>12, <2>1 DEF Sem!ChildWaits, Sem!Take, Sem!Goto, LoopInv, SemTypeOK, SemLoop,
       SemCounts, SemHeard, SemAsked, SemPlays, Plays, Procs
  <2> QED
    BY <2>2, <2>3, <2>4
<1>13. CASE Sem!ChildPosts
  <2>1. \A p \in Procs : Turns(p)' = IF p = "child" THEN Turns(p) + 1 ELSE Turns(p)
    BY <1>13, TurnEnds DEF Sem!ChildPosts, Sem!Post, Sem!EndTurn, Sem!Goto, Procs, Other
  <2>2. LoopInv' /\ SemTypeOK' /\ SemLoop'
    BY <1>13 DEF Sem!ChildPosts, Sem!Post, Sem!EndTurn, Sem!Goto, LoopInv, SemTypeOK, SemLoop,
       Labels, Procs
  <2>3. SemCounts'
    BY <1>1, <1>13, <2>1 DEF Sem!ChildPosts, Sem!Post, Sem!EndTurn, Sem!Goto, LoopInv,
       SemTypeOK, SemLoop, SemCounts, SemHeard, SemAsked, Procs
  <2>4. SemPlays
    BY <1>1, <1>13, <2>1 DEF Sem!ChildPosts, Sem!Post, Sem!EndTurn, Sem!Goto, LoopInv,
       SemTypeOK, SemLoop, SemCounts, SemHeard, SemAsked, SemPlays, Plays, Procs
  <2> QED
    BY <2>2, <2>3, <2>4
<1>14. CASE Sem!Measured("child", "wait", "exit")
  <2>1. \A p \in Procs : Turns(p)' = Turns(p)
    BY <1>14, IterationEnds DEF Sem!Measured, Sem!semaphores, Sem!EndIteration, Sem!Goto,
       Procs, Other, SemLoop
  <2>2. LoopInv' /\ SemTypeOK' /\ SemLoop'
    BY <1>14 DEF Sem!Measured, Sem!semaphores, Sem!EndIteration, Sem!Goto, LoopInv, SemTypeOK,
       SemLoop, Labels, Procs
  <2>3. SemCounts'
    BY <1>1, <1>14, <2>1 DEF Sem!Measured, Sem!semaphores, Sem!EndIteration, Sem!Goto,
       LoopInv, SemTypeOK, SemLoop, SemCounts, SemHeard, SemAsked, Procs
  <2>4. SemPlays
    BY <1>1, <1>14, <2>1 DEF Sem!Measured, Sem!semaphores, Sem!EndIteration, Sem!Goto,
       LoopInv, SemTypeOK, SemLoop, SemCounts, SemHeard, SemAsked, SemPlays, Plays, Procs
  <2> QED
    BY <2>2, <2>3, <2>4
<1> QED
  BY <1>2, <1>3, <1>4, <1>5, <1>6, <1>7, <1>8, <1>9, <1>10, <1>11, <1>12, <1>13, <1>14
     DEF Sem!Parent, Sem!Child
-----------------------------------------------------------------------------
(***************************************************************************)
(* atomic_latency.cc. A turn of the two loops exchanges two messages: flag *)
(* up and flag down.                                                       *)
(***************************************************************************)

\* Where both threads are in their loops: the child exists between create and
\* join, in the iteration of the parent.
ThreadLoop ==
    /\ pc["parent"] \in {"create", "done"} => /\ turn["parent"] = 0
                                             /\ pc["child"] \in {"none", "exit"}
    /\ pc["parent"] = "done" => pc["child"] = "exit"
    /\ pc["parent"] # "done" => iter["parent"] < Iterations
    /\ pc["parent"] \notin {"create", "done"} => /\ pc["child"] # "none"
                                               /\ iter["child"] = iter["parent"]
    /\ pc["parent"] = "join" => turn["parent"] = LoopSize
    /\ pc["parent"] \notin {"create", "join", "done"} => turn["parent"] < LoopSize
    /\ pc["child"] \notin {"none", "exit"} => turn["child"] < LoopSize
    /\ pc["child"] = "exit" => turn["child"] = LoopSize

AtomicAsked == 2 * Turns("parent") + (IF pc["parent"] \in {"wait_up", "down"} THEN 1
                                      ELSE IF pc["parent"] = "wait_down" THEN 2 ELSE 0)
AtomicHeard == 2 * Turns("child") + (IF pc["child"] \in {"up", "wait_down"} THEN 1
                                     ELSE IF pc["child"] = "down" THEN 2 ELSE 0)
AtomicAnswered == 2 * Turns("child") + (IF pc["child"] \in {"wait_down", "down"} THEN 1 ELSE 0)
AtomicSeen == 2 * Turns("parent") + (IF pc["parent"] \in {"down", "wait_down"} THEN 1 ELSE 0)

\* What p stored last, and whether the other cannot see it yet.
LastStore(p) == IF pc[p] \in {IF p = "parent" THEN "wait_up" ELSE "wait_down", "down"}
                THEN TRUE ELSE FALSE

Invisible(p) == IF pending[p] = <<>> THEN 0 ELSE 1

AtomicTypeOK ==
    /\ pc["parent"] \in {"create", "up", "wait_up", "down", "wait_down", "join", "done"}
    /\ pc["child"] \in {"none", "wait_up", "up", "wait_down", "down", "exit"}
    /\ flag \in [Procs -> BOOLEAN]
    /\ pending \in [Procs -> {<<>>, <<TRUE>>, <<FALSE>>}]
    /\ type = "atomic" => pending = [p \in Procs |-> <<>>]

\* A flag has the value stored last, or that one store is on its way to it.
AtomicFlags ==
    \A p \in Procs :
       \/ pending[p] = <<>> /\ flag[p] = LastStore(p)
       \/ pending[p] = <<LastStore(p)>> /\ flag[p] # LastStore(p)

\* A store is not taken before it is visible, nor answered before it is taken.
AtomicCounts ==
    /\ AtomicSeen <= AtomicAnswered - Invisible("child")
    /\ AtomicAnswered <= AtomicHeard
    /\ AtomicHeard <= AtomicAsked - Invisible("parent")
    /\ AtomicAsked <= AtomicSeen + 1

AtomicPlays == Plays(AtomicAsked, AtomicAnswered, AtomicSeen,
                     AtomicAsked', AtomicAnswered', AtomicSeen')

AtomicInv == LoopInv /\ AtomicTypeOK /\ ThreadLoop /\ AtomicFlags /\ AtomicCounts

\* The steps of both variants of the benchmark, which differ only in what a store
\* does: p goes on in a turn, ends it, stores, the parent starts or joins the child.
Moves(p, from, to) == pc[p] = from /\ pc' = [pc EXCEPT ![p] = to] /\ UNCHANGED <<iter, turn>>

Ends(p, from, first, end) ==
    /\ pc[p] = from
    /\ pc' = [pc EXCEPT ![p] = IF turn[p] + 1 < LoopSize THEN first ELSE end]
    /\ turn' = [turn EXCEPT ![p] = @ + 1]
    /\ UNCHANGED iter

Puts(p, value) ==
    \/ type = "atomic" /\ flag' = [flag EXCEPT ![p] = value] /\ UNCHANGED pending
    \/ type # "atomic" /\ pending' = [pending EXCEPT ![p] = Append(@, value)] /\ UNCHANGED flag

Starts(parent_line, child_line) ==
    /\ pc["parent"] = "create"
    /\ pc' = [parent |-> parent_line, child |-> child_line]
    /\ iter' = [iter EXCEPT !["child"] = iter["parent"]]
    /\ turn' = [turn EXCEPT !["child"] = 0]

Joins ==
    /\ pc["parent"] = "join" /\ pc["child"] = "exit"
    /\ pc' = [pc EXCEPT !["parent"] = IF iter["parent"] + 1 < Iterations THEN "create" ELSE "done"]
    /\ iter' = [iter EXCEPT !["parent"] = @ + 1]
    /\ turn' = [turn EXCEPT !["parent"] = 0]

AtomicStep ==
    \/ Starts("up", "wait_up") /\ UNCHANGED atomics
    \/ Joins /\ UNCHANGED atomics
    \/ Moves("parent", "up", "wait_up") /\ Puts("parent", TRUE)
    \/ Moves("parent", "wait_up", "down") /\ flag["child"] = TRUE /\ UNCHANGED atomics
    \/ Moves("parent", "down", "wait_down") /\ Puts("parent", FALSE)
    \/ Ends("parent", "wait_down", "up", "join") /\ flag["child"] = FALSE /\ UNCHANGED atomics
    \/ Moves("child", "wait_up", "up") /\ flag["parent"] = TRUE /\ UNCHANGED atomics
    \/ Moves("child", "up", "wait_down") /\ Puts("child", TRUE)
    \/ Moves("child", "wait_down", "down") /\ flag["parent"] = FALSE /\ UNCHANGED atomics
    \/ Ends("child", "down", "wait_up", "exit") /\ Puts("child", FALSE)

\* With memory_order_seq_cst the threads make these steps.
LEMMA SeqCstSteps ==
    ASSUME type = "atomic", SeqCst!Parent \/ SeqCst!Child
    PROVE  AtomicStep
<1>1. CASE SeqCst!Create
  BY <1>1 DEF SeqCst!Create, SeqCst!CreateThread, SeqCst!atomics, Starts, AtomicStep, atomics
<1>2. CASE SeqCst!ParentFlip
  BY <1>2 DEF SeqCst!ParentFlip, SeqCst!Store, SeqCst!Step, SeqCst!Await, SeqCst!EndTurn,
     SeqCst!Goto, SeqCst!Other, SeqCst!atomics, AtomicStep, Moves, Ends, Puts, atomics
<1>3. CASE SeqCst!Join
  BY <1>3 DEF SeqCst!Join, SeqCst!JoinThread, SeqCst!EndIteration, SeqCst!Goto,
     SeqCst!atomics, Joins, AtomicStep, atomics
<1>4. CASE SeqCst!ChildFlip
  BY <1>4 DEF SeqCst!ChildFlip, SeqCst!Store, SeqCst!Step, SeqCst!Await, SeqCst!EndTurn,
     SeqCst!Goto, SeqCst!Other, SeqCst!atomics, AtomicStep, Moves, Ends, Puts, atomics
<1> QED
  BY <1>1, <1>2, <1>3, <1>4 DEF SeqCst!Parent, SeqCst!Child

\* With memory_order_release and _acquire as well.
LEMMA RelAcqSteps ==
    ASSUME type = "atomic_rel_acq", RelAcq!Parent \/ RelAcq!Child
    PROVE  AtomicStep
<1>1. CASE RelAcq!Create
  BY <1>1 DEF RelAcq!Create, RelAcq!CreateThread, RelAcq!atomics, Starts, AtomicStep, atomics
<1>2. CASE RelAcq!ParentFlip
  BY <1>2 DEF RelAcq!ParentFlip, RelAcq!Store, RelAcq!Step, RelAcq!Await, RelAcq!EndTurn,
     RelAcq!Goto, RelAcq!Other, RelAcq!atomics, AtomicStep, Moves, Ends, Puts, atomics
<1>3. CASE RelAcq!Join
  BY <1>3 DEF RelAcq!Join, RelAcq!JoinThread, RelAcq!EndIteration, RelAcq!Goto,
     RelAcq!atomics, Joins, AtomicStep, atomics
<1>4. CASE RelAcq!ChildFlip
  BY <1>4 DEF RelAcq!ChildFlip, RelAcq!Store, RelAcq!Step, RelAcq!Await, RelAcq!EndTurn,
     RelAcq!Goto, RelAcq!Other, RelAcq!atomics, AtomicStep, Moves, Ends, Puts, atomics
<1> QED
  BY <1>1, <1>2, <1>3, <1>4 DEF RelAcq!Parent, RelAcq!Child

\* A store into an empty queue, or at once.
LEMMA StorePuts ==
    ASSUME AtomicTypeOK, NEW p \in Procs, NEW value \in BOOLEAN, pending[p] = <<>>,
           Puts(p, value), UNCHANGED type
    PROVE  /\ flag' \in [Procs -> BOOLEAN]
           /\ pending' \in [Procs -> {<<>>, <<TRUE>>, <<FALSE>>}]
           /\ type = "atomic" => pending' = pending
           /\ \/ pending'[p] = <<>> /\ flag'[p] = value
              \/ pending'[p] = <<value>> /\ flag'[p] = flag[p]
           /\ flag'[Other(p)] = flag[Other(p)]
           /\ pending'[Other(p)] = pending[Other(p)]
<1>1. Other(p) \in Procs /\ Other(p) # p
  BY DEF Procs, Other
<1>2. CASE type = "atomic"
  BY <1>1, <1>2 DEF Puts, AtomicTypeOK
<1>3. CASE type # "atomic"
  <2>1. Append(pending[p], value) = <<value>>
    OBVIOUS
  <2>2. flag' = flag /\ pending' = [pending EXCEPT ![p] = <<value>>]
    BY <1>3, <2>1 DEF Puts
  <2>3. <<value>> \in {<<>>, <<TRUE>>, <<FALSE>>}
    OBVIOUS
  <2> QED
    BY <1>1, <1>3, <2>2, <2>3 DEF AtomicTypeOK
<1> QED
  BY <1>2, <1>3

\* A store is invisible exactly while the flag differs from it.
LEMMA FlagTells ==
    ASSUME AtomicFlags
    PROVE  \A p \in Procs : Invisible(p) = IF flag[p] = LastStore(p) THEN 0 ELSE 1
<1>1. \A p \in Procs : <<LastStore(p)>> # <<>>
  OBVIOUS
<1> QED
  BY <1>1 DEF AtomicFlags, Invisible

\* A change of one queue and its flag that fits the last store.
LEMMA FlagsFollow ==
    ASSUME AtomicFlags, NEW w \in Procs, NEW value,
           \A p \in Procs : LastStore(p)' = IF p = w THEN value ELSE LastStore(p),
           \A p \in Procs : p # w => flag'[p] = flag[p] /\ pending'[p] = pending[p],
           \/ pending'[w] = <<>> /\ flag'[w] = value
           \/ pending'[w] = <<value>> /\ flag'[w] # value
    PROVE  AtomicFlags'
<1>1. ASSUME NEW p \in Procs
      PROVE  (\/ pending[p] = <<>> /\ flag[p] = LastStore(p)
              \/ pending[p] = <<LastStore(p)>> /\ flag[p] # LastStore(p))'
  <2>1. CASE p = w
    BY <2>1
  <2>2. CASE p # w
    BY <2>2 DEF AtomicFlags
  <2> QED
    BY <2>1, <2>2
<1> QED
  BY <1>1 DEF AtomicFlags

\* Such a step keeps the invariant and is a step of PingPong or none.
LEMMA AtomicNext ==
    ASSUME AtomicInv, AtomicStep, UNCHANGED type
    PROVE  AtomicInv' /\ AtomicPlays
<1> USE LoopAssumption DEF AtomicInv, LoopAssumption
<1>1. \A p \in Procs : Turns(p) \in Nat
  BY TurnsAreNat
<1>2. \A p \in Procs : Invisible(p) \in {0, 1}
  BY DEF Invisible
<1>3. CASE Starts("up", "wait_up") /\ UNCHANGED atomics
  <2>1. Turns("parent")' = Turns("parent") /\ Turns("child")' = Turns("parent")
    BY <1>3, ThreadStarts DEF Starts, ThreadLoop
  <2>2. LoopInv' /\ ThreadLoop'
    BY <1>3 DEF Starts, LoopInv, ThreadLoop, AtomicTypeOK, Labels, Procs
  <2>3. \A p \in Procs : Invisible(p)' = Invisible(p)
    BY <1>3 DEF Invisible, atomics
  <2>4. AtomicTypeOK'
    BY <1>3 DEF Starts, atomics, LoopInv, AtomicTypeOK, Procs
  <2>5. AtomicFlags'
    <3>1. \A p \in Procs : LastStore(p)' = LastStore(p)
      BY <1>3 DEF Starts, ThreadLoop, LastStore, Procs
    <3> QED
      BY <1>3, <3>1 DEF atomics, AtomicFlags
  <2>6. AtomicCounts'
    BY <1>1, <1>2, <1>3, <2>1, <2>3 DEF Starts, LoopInv, ThreadLoop, AtomicTypeOK,
       AtomicCounts, AtomicAsked, AtomicHeard, AtomicAnswered, AtomicSeen, Procs
  <2>7. AtomicPlays
    BY <1>1, <1>2, <1>3, <2>1, <2>3 DEF Starts, LoopInv, ThreadLoop, AtomicTypeOK,
       AtomicCounts, AtomicAsked, AtomicHeard, AtomicAnswered, AtomicSeen, AtomicPlays, Plays,
       Procs
  <2> QED
    BY <2>2, <2>4, <2>5, <2>6, <2>7
<1>4. CASE Joins /\ UNCHANGED atomics
  <2>1. \A p \in Procs : Turns(p)' = Turns(p)
    BY <1>4, IterationEnds DEF Joins, Procs, Other, ThreadLoop
  <2>2. LoopInv' /\ ThreadLoop'
    BY <1>4 DEF Joins, LoopInv, ThreadLoop, AtomicTypeOK, Labels, Procs
  <2>3. \A p \in Procs : Invisible(p)' = Invisible(p)
    BY <1>4 DEF Invisible, atomics
  <2>4. AtomicTypeOK'
    BY <1>4 DEF Joins, atomics, LoopInv, AtomicTypeOK, Procs
  <2>5. AtomicFlags'
    <3>1. \A p \in Procs : LastStore(p)' = LastStore(p)
      BY <1>4 DEF Joins, LoopInv, LastStore, Procs
    <3> QED
      BY <1>4, <3>1 DEF atomics, AtomicFlags
  <2>6. AtomicCounts'
    BY <1>1, <1>2, <1>4, <2>1, <2>3 DEF Joins, LoopInv, ThreadLoop, AtomicTypeOK,
       AtomicCounts, AtomicAsked, AtomicHeard, AtomicAnswered, AtomicSeen, Procs
  <2>7. AtomicPlays
    BY <1>1, <1>2, <1>4, <2>1, <2>3 DEF Joins, LoopInv, ThreadLoop, AtomicTypeOK,
       AtomicCounts, AtomicAsked, AtomicHeard, AtomicAnswered, AtomicSeen, AtomicPlays, Plays,
       Procs
  <2> QED
    BY <2>2, <2>4, <2>5, <2>6, <2>7
<1>5. CASE Moves("parent", "up", "wait_up") /\ Puts("parent", TRUE)
  <2>1. \A p \in Procs : Turns(p)' = Turns(p)
    BY <1>5, TurnsStay DEF Moves
  <2>2. LoopInv' /\ ThreadLoop'
    BY <1>5 DEF Moves, LoopInv, ThreadLoop, AtomicTypeOK, Labels, Procs
  <2>3. pending["parent"] = <<>>
    BY <1>1, <1>2, <1>5 DEF Moves, AtomicTypeOK, AtomicCounts, AtomicAsked, AtomicHeard,
       AtomicAnswered, AtomicSeen, Invisible, Procs
  <2>4. /\ flag' \in [Procs -> BOOLEAN]
        /\ pending' \in [Procs -> {<<>>, <<TRUE>>, <<FALSE>>}]
        /\ type = "atomic" => pending' = pending
        /\ \/ pending'["parent"] = <<>> /\ flag'["parent"] = TRUE
           \/ pending'["parent"] = <<TRUE>> /\ flag'["parent"] = flag["parent"]
        /\ flag'["child"] = flag["child"]
        /\ pending'["child"] = pending["child"]
    BY <1>5, <2>3, StorePuts DEF Procs, Other
  <2>5. AtomicTypeOK'
    BY <1>5, <2>4 DEF Moves, LoopInv, AtomicTypeOK, Procs
  <2>6. AtomicFlags'
    <3>1. \A p \in Procs : LastStore(p)' = IF p = "parent" THEN TRUE ELSE LastStore(p)
      BY <1>5 DEF Moves, LoopInv, LastStore, Procs
    <3>2. LastStore("parent") = FALSE
      BY <1>5 DEF Moves, LastStore
    <3>3. flag["parent"] # TRUE
      <4>1. flag["parent"] = LastStore("parent")
        BY <2>3, FlagTells DEF Invisible, Procs
      <4> QED
        BY <3>2, <4>1
    <3>4. \A p \in Procs : p # "parent" => flag'[p] = flag[p] /\ pending'[p] = pending[p]
      BY <2>4 DEF Procs
    <3>5. \/ pending'["parent"] = <<>> /\ flag'["parent"] = TRUE
          \/ pending'["parent"] = <<TRUE>> /\ flag'["parent"] # TRUE
      BY <2>4, <3>3
    <3> QED
      BY <3>1, <3>4, <3>5, FlagsFollow DEF Procs
  <2>7. /\ Invisible("child")' = Invisible("child")
        /\ Invisible("parent") = 0 /\ Invisible("parent")' \in {0, 1}
    BY <2>3, <2>4 DEF Invisible
  <2>8. AtomicCounts'
    BY <1>1, <1>2, <1>5, <2>1, <2>7 DEF Moves, LoopInv, AtomicTypeOK, AtomicCounts,
       AtomicAsked, AtomicHeard, AtomicAnswered, AtomicSeen, Procs
  <2>9. AtomicPlays
    BY <1>1, <1>2, <1>5, <2>1, <2>7 DEF Moves, LoopInv, AtomicTypeOK, AtomicCounts,
       AtomicAsked, AtomicHeard, AtomicAnswered, AtomicSeen, AtomicPlays, Plays, Procs
  <2> QED
    BY <2>2, <2>5, <2>6, <2>8, <2>9
<1>6. CASE Moves("parent", "wait_up", "down") /\ flag["child"] = TRUE /\ UNCHANGED atomics
  <2>1. \A p \in Procs : Turns(p)' = Turns(p)
    BY <1>6, TurnsStay DEF Moves
  <2>2. LoopInv' /\ ThreadLoop'
    BY <1>6 DEF Moves, LoopInv, ThreadLoop, AtomicTypeOK, Labels, Procs
  <2>3. \A p \in Procs : Invisible(p)' = Invisible(p)
    BY <1>6 DEF Invisible, atomics
  <2>4. AtomicTypeOK'
    BY <1>6 DEF Moves, atomics, LoopInv, AtomicTypeOK, Procs
  <2>5. AtomicFlags'
    <3>1. \A p \in Procs : LastStore(p)' = LastStore(p)
      BY <1>6 DEF Moves, LoopInv, LastStore, Procs
    <3> QED
      BY <1>6, <3>1 DEF atomics, AtomicFlags
  <2>6. Invisible("child") = IF LastStore("child") = TRUE THEN 0 ELSE 1
    BY <1>6, FlagTells DEF LastStore, Procs
  <2>7. AtomicCounts'
    BY <1>1, <1>2, <1>6, <2>1, <2>3, <2>6 DEF Moves, LoopInv, AtomicTypeOK, AtomicCounts,
       AtomicAsked, AtomicHeard, AtomicAnswered, AtomicSeen, LastStore, Procs
  <2>8. AtomicPlays
    BY <1>1, <1>2, <1>6, <2>1, <2>3, <2>6 DEF Moves, LoopInv, AtomicTypeOK, AtomicCounts,
       AtomicAsked, AtomicHeard, AtomicAnswered, AtomicSeen, AtomicPlays, Plays, LastStore,
       Procs
  <2> QED
    BY <2>2, <2>4, <2>5, <2>7, <2>8
<1>7. CASE Moves("parent", "down", "wait_down") /\ Puts("parent", FALSE)
  <2>1. \A p \in Procs : Turns(p)' = Turns(p)
    BY <1>7, TurnsStay DEF Moves
  <2>2. LoopInv' /\ ThreadLoop'
    BY <1>7 DEF Moves, LoopInv, ThreadLoop, AtomicTypeOK, Labels, Procs
  <2>3. pending["parent"] = <<>>
    BY <1>1, <1>2, <1>7 DEF Moves, AtomicTypeOK, AtomicCounts, AtomicAsked, AtomicHeard,
       AtomicAnswered, AtomicSeen, Invisible, Procs
  <2>4. /\ flag' \in [Procs -> BOOLEAN]
        /\ pending' \in [Procs -> {<<>>, <<TRUE>>, <<FALSE>>}]
        /\ type = "atomic" => pending' = pending
        /\ \/ pending'["parent"] = <<>> /\ flag'["parent"] = FALSE
           \/ pending'["parent"] = <<FALSE>> /\ flag'["parent"] = flag["parent"]
        /\ flag'["child"] = flag["child"]
        /\ pending'["child"] = pending["child"]
    BY <1>7, <2>3, StorePuts DEF Procs, Other
  <2>5. AtomicTypeOK'
    BY <1>7, <2>4 DEF Moves, LoopInv, AtomicTypeOK, Procs
  <2>6. AtomicFlags'
    <3>1. \A p \in Procs : LastStore(p)' = IF p = "parent" THEN FALSE ELSE LastStore(p)
      BY <1>7 DEF Moves, LoopInv, LastStore, Procs
    <3>2. LastStore("parent") = TRUE
      BY <1>7 DEF Moves, LastStore
    <3>3. flag["parent"] # FALSE
      <4>1. flag["parent"] = LastStore("parent")
        BY <2>3, FlagTells DEF Invisible, Procs
      <4> QED
        BY <3>2, <4>1
    <3>4. \A p \in Procs : p # "parent" => flag'[p] = flag[p] /\ pending'[p] = pending[p]
      BY <2>4 DEF Procs
    <3>5. \/ pending'["parent"] = <<>> /\ flag'["parent"] = FALSE
          \/ pending'["parent"] = <<FALSE>> /\ flag'["parent"] # FALSE
      BY <2>4, <3>3
    <3> QED
      BY <3>1, <3>4, <3>5, FlagsFollow DEF Procs
  <2>7. /\ Invisible("child")' = Invisible("child")
        /\ Invisible("parent") = 0 /\ Invisible("parent")' \in {0, 1}
    BY <2>3, <2>4 DEF Invisible
  <2>8. AtomicCounts'
    BY <1>1, <1>2, <1>7, <2>1, <2>7 DEF Moves, LoopInv, AtomicTypeOK, AtomicCounts,
       AtomicAsked, AtomicHeard, AtomicAnswered, AtomicSeen, Procs
  <2>9. AtomicPlays
    BY <1>1, <1>2, <1>7, <2>1, <2>7 DEF Moves, LoopInv, AtomicTypeOK, AtomicCounts,
       AtomicAsked, AtomicHeard, AtomicAnswered, AtomicSeen, AtomicPlays, Plays, Procs
  <2> QED
    BY <2>2, <2>5, <2>6, <2>8, <2>9
<1>8. CASE Ends("parent", "wait_down", "up", "join") /\ flag["child"] = FALSE /\ UNCHANGED atomics
  <2>1. \A p \in Procs : Turns(p)' = IF p = "parent" THEN Turns(p) + 1 ELSE Turns(p)
    BY <1>8, TurnEnds DEF Ends, Procs, Other
  <2>2. LoopInv' /\ ThreadLoop'
    BY <1>8 DEF Ends, LoopInv, ThreadLoop, AtomicTypeOK, Labels, Procs
  <2>3. \A p \in Procs : Invisible(p)' = Invisible(p)
    BY <1>8 DEF Invisible, atomics
  <2>4. AtomicTypeOK'
    BY <1>8 DEF Ends, atomics, LoopInv, AtomicTypeOK, Procs
  <2>5. AtomicFlags'
    <3>1. \A p \in Procs : LastStore(p)' = LastStore(p)
      BY <1>8 DEF Ends, LoopInv, LastStore, Procs
    <3> QED
      BY <1>8, <3>1 DEF atomics, AtomicFlags
  <2>6. Invisible("child") = IF LastStore("child") = TRUE THEN 1 ELSE 0
    BY <1>8, FlagTells DEF LastStore, Procs
  <2>7. /\ AtomicAsked = 2 * Turns("parent") + 2 /\ AtomicAsked' = AtomicAsked
        /\ AtomicSeen = 2 * Turns("parent") + 1 /\ AtomicSeen' = AtomicSeen + 1
        /\ AtomicHeard' = AtomicHeard /\ AtomicAnswered' = AtomicAnswered
    <3>1. /\ pc["parent"] = "wait_down" /\ pc'["parent"] \in {"up", "join"}
          /\ pc'["child"] = pc["child"]
      BY <1>8 DEF Ends, LoopInv, Procs
    <3> QED
      BY <1>1, <2>1, <3>1 DEF AtomicAsked, AtomicHeard, AtomicAnswered, AtomicSeen, Procs
  <2>8. AtomicAnswered = 2 * Turns("child") /\ Invisible("child") = 0
    <3>1. CASE LastStore("child") = TRUE
      <4>1. /\ Invisible("child") = 1 /\ AtomicAnswered = 2 * Turns("child") + 1
            /\ AtomicHeard \in {2 * Turns("child") + 1, 2 * Turns("child") + 2}
        BY <1>1, <2>6, <3>1 DEF LastStore, AtomicHeard, AtomicAnswered, Procs
      <4>2. Turns("parent") \in Nat /\ Turns("child") \in Nat
        BY <1>1 DEF Procs
      <4>3. 2 * Turns("parent") + 1 <= 2 * Turns("child")
        BY <2>7, <4>1, <4>2 DEF AtomicCounts
      <4>4. 2 * Turns("child") + 1 <= 2 * Turns("parent") + 2
        BY <1>2, <2>7, <4>1, <4>2 DEF AtomicCounts, Procs
      <4> QED
        BY <4>2, <4>3, <4>4
    <3>2. CASE LastStore("child") # TRUE
      BY <1>1, <2>6, <3>2 DEF LastStore, AtomicAnswered, Procs
    <3> QED
      BY <3>1, <3>2
  <2>9. AtomicSeen + 1 <= AtomicAnswered
    BY <1>1, <2>7, <2>8 DEF AtomicCounts, Procs
  <2>10. AtomicHeard \in Nat
    BY <1>1 DEF AtomicHeard, Procs
  <2>11. AtomicCounts'
    BY <1>1, <1>2, <2>3, <2>7, <2>8, <2>9, <2>10 DEF AtomicCounts, Procs
  <2>12. AtomicPlays
    BY <1>1, <1>2, <2>7, <2>8, <2>9, <2>10 DEF AtomicCounts, AtomicPlays, Plays, Procs
  <2> QED
    BY <2>2, <2>4, <2>5, <2>11, <2>12
<1>9. CASE Moves("child", "wait_up", "up") /\ flag["parent"] = TRUE /\ UNCHANGED atomics
  <2>1. \A p \in Procs : Turns(p)' = Turns(p)
    BY <1>9, TurnsStay DEF Moves
  <2>2. LoopInv' /\ ThreadLoop'
    BY <1>9 DEF Moves, LoopInv, ThreadLoop, AtomicTypeOK, Labels, Procs
  <2>3. \A p \in Procs : Invisible(p)' = Invisible(p)
    BY <1>9 DEF Invisible, atomics
  <2>4. AtomicTypeOK'
    BY <1>9 DEF Moves, atomics, LoopInv, AtomicTypeOK, Procs
  <2>5. AtomicFlags'
    <3>1. \A p \in Procs : LastStore(p)' = LastStore(p)
      BY <1>9 DEF Moves, LoopInv, LastStore, Procs
    <3> QED
      BY <1>9, <3>1 DEF atomics, AtomicFlags
  <2>6. Invisible("parent") = IF LastStore("parent") = TRUE THEN 0 ELSE 1
    BY <1>9, FlagTells DEF LastStore, Procs
  <2>7. AtomicCounts'
    BY <1>1, <1>2, <1>9, <2>1, <2>3, <2>6 DEF Moves, LoopInv, AtomicTypeOK, AtomicCounts,
       AtomicAsked, AtomicHeard, AtomicAnswered, AtomicSeen, LastStore, Procs
  <2>8. AtomicPlays
    BY <1>1, <1>2, <1>9, <2>1, <2>3, <2>6 DEF Moves, LoopInv, AtomicTypeOK, AtomicCounts,
       AtomicAsked, AtomicHeard, AtomicAnswered, AtomicSeen, AtomicPlays, Plays, LastStore,
       Procs
  <2> QED
    BY <2>2, <2>4, <2>5, <2>7, <2>8
<1>10. CASE Moves("child", "up", "wait_down") /\ Puts("child", TRUE)
  <2>1. \A p \in Procs : Turns(p)' = Turns(p)
    BY <1>10, TurnsStay DEF Moves
  <2>2. LoopInv' /\ ThreadLoop'
    BY <1>10 DEF Moves, LoopInv, ThreadLoop, AtomicTypeOK, Labels, Procs
  <2>3. pending["child"] = <<>>
    BY <1>1, <1>2, <1>10 DEF Moves, AtomicTypeOK, AtomicCounts, AtomicAsked, AtomicHeard,
       AtomicAnswered, AtomicSeen, Invisible, Procs
  <2>4. /\ flag' \in [Procs -> BOOLEAN]
        /\ pending' \in [Procs -> {<<>>, <<TRUE>>, <<FALSE>>}]
        /\ type = "atomic" => pending' = pending
        /\ \/ pending'["child"] = <<>> /\ flag'["child"] = TRUE
           \/ pending'["child"] = <<TRUE>> /\ flag'["child"] = flag["child"]
        /\ flag'["parent"] = flag["parent"]
        /\ pending'["parent"] = pending["parent"]
    BY <1>10, <2>3, StorePuts DEF Procs, Other
  <2>5. AtomicTypeOK'
    BY <1>10, <2>4 DEF Moves, LoopInv, AtomicTypeOK, Procs
  <2>6. AtomicFlags'
    <3>1. \A p \in Procs : LastStore(p)' = IF p = "child" THEN TRUE ELSE LastStore(p)
      BY <1>10 DEF Moves, LoopInv, LastStore, Procs
    <3>2. LastStore("child") = FALSE
      BY <1>10 DEF Moves, LastStore
    <3>3. flag["child"] # TRUE
      <4>1. flag["child"] = LastStore("child")
        BY <2>3, FlagTells DEF Invisible, Procs
      <4> QED
        BY <3>2, <4>1
    <3>4. \A p \in Procs : p # "child" => flag'[p] = flag[p] /\ pending'[p] = pending[p]
      BY <2>4 DEF Procs
    <3>5. \/ pending'["child"] = <<>> /\ flag'["child"] = TRUE
          \/ pending'["child"] = <<TRUE>> /\ flag'["child"] # TRUE
      BY <2>4, <3>3
    <3> QED
      BY <3>1, <3>4, <3>5, FlagsFollow DEF Procs
  <2>7. /\ Invisible("parent")' = Invisible("parent")
        /\ Invisible("child") = 0 /\ Invisible("child")' \in {0, 1}
    BY <2>3, <2>4 DEF Invisible
  <2>8. AtomicCounts'
    BY <1>1, <1>2, <1>10, <2>1, <2>7 DEF Moves, LoopInv, AtomicTypeOK, AtomicCounts,
       AtomicAsked, AtomicHeard, AtomicAnswered, AtomicSeen, Procs
  <2>9. AtomicPlays
    BY <1>1, <1>2, <1>10, <2>1, <2>7 DEF Moves, LoopInv, AtomicTypeOK, AtomicCounts,
       AtomicAsked, AtomicHeard, AtomicAnswered, AtomicSeen, AtomicPlays, Plays, Procs
  <2> QED
    BY <2>2, <2>5, <2>6, <2>8, <2>9
<1>11. CASE Moves("child", "wait_down", "down") /\ flag["parent"] = FALSE /\ UNCHANGED atomics
  <2>1. \A p \in Procs : Turns(p)' = Turns(p)
    BY <1>11, TurnsStay DEF Moves
  <2>2. LoopInv' /\ ThreadLoop'
    BY <1>11 DEF Moves, LoopInv, ThreadLoop, AtomicTypeOK, Labels, Procs
  <2>3. \A p \in Procs : Invisible(p)' = Invisible(p)
    BY <1>11 DEF Invisible, atomics
  <2>4. AtomicTypeOK'
    BY <1>11 DEF Moves, atomics, LoopInv, AtomicTypeOK, Procs
  <2>5. AtomicFlags'
    <3>1. \A p \in Procs : LastStore(p)' = LastStore(p)
      BY <1>11 DEF Moves, LoopInv, LastStore, Procs
    <3> QED
      BY <1>11, <3>1 DEF atomics, AtomicFlags
  <2>6. Invisible("parent") = IF LastStore("parent") = TRUE THEN 1 ELSE 0
    BY <1>11, FlagTells DEF LastStore, Procs
  <2>7. AtomicCounts'
    BY <1>1, <1>2, <1>11, <2>1, <2>3, <2>6 DEF Moves, LoopInv, AtomicTypeOK, AtomicCounts,
       AtomicAsked, AtomicHeard, AtomicAnswered, AtomicSeen, LastStore, Procs
  <2>8. AtomicPlays
    BY <1>1, <1>2, <1>11, <2>1, <2>3, <2>6 DEF Moves, LoopInv, AtomicTypeOK, AtomicCounts,
       AtomicAsked, AtomicHeard, AtomicAnswered, AtomicSeen, AtomicPlays, Plays, LastStore,
       Procs
  <2> QED
    BY <2>2, <2>4, <2>5, <2>7, <2>8
<1>12. CASE Ends("child", "down", "wait_up", "exit") /\ Puts("child", FALSE)
  <2>1. \A p \in Procs : Turns(p)' = IF p = "child" THEN Turns(p) + 1 ELSE Turns(p)
    BY <1>12, TurnEnds DEF Ends, Procs, Other
  <2>2. LoopInv' /\ ThreadLoop'
    BY <1>12 DEF Ends, LoopInv, ThreadLoop, AtomicTypeOK, Labels, Procs
  <2>3. pending["child"] = <<>>
    BY <1>1, <1>2, <1>12 DEF Ends, AtomicTypeOK, AtomicCounts, AtomicAsked, AtomicHeard,
       AtomicAnswered, AtomicSeen, Invisible, Procs
  <2>4. /\ flag' \in [Procs -> BOOLEAN]
        /\ pending' \in [Procs -> {<<>>, <<TRUE>>, <<FALSE>>}]
        /\ type = "atomic" => pending' = pending
        /\ \/ pending'["child"] = <<>> /\ flag'["child"] = FALSE
           \/ pending'["child"] = <<FALSE>> /\ flag'["child"] = flag["child"]
        /\ flag'["parent"] = flag["parent"]
        /\ pending'["parent"] = pending["parent"]
    BY <1>12, <2>3, StorePuts DEF Procs, Other
  <2>5. AtomicTypeOK'
    BY <1>12, <2>4 DEF Ends, LoopInv, AtomicTypeOK, Procs
  <2>6. AtomicFlags'
    <3>1. \A p \in Procs : LastStore(p)' = IF p = "child" THEN FALSE ELSE LastStore(p)
      BY <1>12 DEF Ends, LoopInv, LastStore, Procs
    <3>2. LastStore("child") = TRUE
      BY <1>12 DEF Ends, LastStore
    <3>3. flag["child"] # FALSE
      <4>1. flag["child"] = LastStore("child")
        BY <2>3, FlagTells DEF Invisible, Procs
      <4> QED
        BY <3>2, <4>1
    <3>4. \A p \in Procs : p # "child" => flag'[p] = flag[p] /\ pending'[p] = pending[p]
      BY <2>4 DEF Procs
    <3>5. \/ pending'["child"] = <<>> /\ flag'["child"] = FALSE
          \/ pending'["child"] = <<FALSE>> /\ flag'["child"] # FALSE
      BY <2>4, <3>3
    <3> QED
      BY <3>1, <3>4, <3>5, FlagsFollow DEF Procs
  <2>7. /\ Invisible("parent")' = Invisible("parent")
        /\ Invisible("child") = 0 /\ Invisible("child")' \in {0, 1}
    BY <2>3, <2>4 DEF Invisible
  <2>8. AtomicCounts'
    <3>1. /\ pc["child"] = "down" /\ pc'["child"] \in {"wait_up", "exit"}
          /\ pc'["parent"] = pc["parent"]
      BY <1>12 DEF Ends, LoopInv, Procs
    <3> QED
      BY <1>1, <1>2, <2>1, <2>7, <3>1 DEF AtomicCounts, AtomicAsked, AtomicHeard, AtomicAnswered,
         AtomicSeen, Procs
  <2>9. AtomicPlays
    <3>1. /\ pc["child"] = "down" /\ pc'["child"] \in {"wait_up", "exit"}
          /\ pc'["parent"] = pc["parent"]
      BY <1>12 DEF Ends, LoopInv, Procs
    <3>2. AtomicAsked' = AtomicAsked /\ AtomicSeen' = AtomicSeen
      BY <2>1, <3>1 DEF AtomicAsked, AtomicSeen, Procs
    <3>3. AtomicAnswered' = AtomicAnswered + 1 /\ AtomicAnswered + 1 = AtomicHeard
      BY <1>1, <1>2, <2>1, <3>1 DEF AtomicAnswered, AtomicHeard, Procs
    <3>4. AtomicAnswered \in Nat /\ AtomicAsked \in Nat
      BY <1>1 DEF AtomicAnswered, AtomicAsked, Procs
    <3>5. AtomicHeard <= AtomicAsked
      BY <1>2, <3>4, <3>3 DEF AtomicCounts, Procs
    <3> QED
      BY <3>2, <3>3, <3>4, <3>5 DEF AtomicPlays, Plays
  <2> QED
    BY <2>2, <2>5, <2>6, <2>8, <2>9
<1> QED
  BY <1>3, <1>4, <1>5, <1>6, <1>7, <1>8, <1>9, <1>10, <1>11, <1>12 DEF AtomicStep

\* So does a released store becoming visible, which is no message of its own.
LEMMA FlushNext ==
    ASSUME AtomicInv, RelAcq!Memory, type = "atomic_rel_acq", UNCHANGED type
    PROVE  AtomicInv' /\ AtomicPlays
<1> USE DEF AtomicInv
<1>1. PICK w \in Procs : RelAcq!Flush(w)
  BY DEF RelAcq!Memory, RelAcq!Procs, Procs
<1>2. pc' = pc /\ iter' = iter /\ turn' = turn
  BY <1>1 DEF RelAcq!Flush, RelAcq!loop
<1>3. pending[w] = <<LastStore(w)>>
  BY <1>1 DEF RelAcq!Flush, AtomicFlags
<1>4. Head(pending[w]) = LastStore(w) /\ Tail(pending[w]) = <<>>
  BY <1>3
<1>5. flag' = [flag EXCEPT ![w] = LastStore(w)] /\ pending' = [pending EXCEPT ![w] = <<>>]
  BY <1>1, <1>4 DEF RelAcq!Flush
<1>6. \A p \in Procs : LastStore(p)' = LastStore(p) /\ LastStore(p) \in BOOLEAN
  BY <1>2 DEF LastStore
<1>7. \A p \in Procs : Turns(p)' = Turns(p) /\ Turns(p) \in Nat
  BY <1>2, TurnsAreNat, TurnsStay
<1>8. \A p \in Procs : /\ Invisible(p) \in {0, 1} /\ Invisible(p)' \in {0, 1}
                       /\ Invisible(p)' <= Invisible(p)
  BY <1>5 DEF Invisible, AtomicTypeOK
<1>9. LoopInv' /\ ThreadLoop'
  BY <1>2 DEF LoopInv, ThreadLoop
<1>10. AtomicTypeOK'
  BY <1>2, <1>5, <1>6 DEF AtomicTypeOK
<1>11. AtomicFlags'
  <2>1. flag'[w] = LastStore(w) /\ pending'[w] = <<>>
    BY <1>5 DEF AtomicTypeOK
  <2>2. \A p \in Procs : p # w => flag'[p] = flag[p] /\ pending'[p] = pending[p]
    BY <1>5 DEF AtomicTypeOK
  <2> QED
    BY <1>6, <2>1, <2>2, FlagsFollow
<1>12. AtomicCounts'
  BY <1>2, <1>7, <1>8 DEF AtomicCounts, AtomicAsked, AtomicHeard, AtomicAnswered, AtomicSeen,
     Procs
<1>13. AtomicPlays
  BY <1>2, <1>7 DEF AtomicAsked, AtomicAnswered, AtomicSeen, AtomicPlays, Plays, Procs
<1> QED
  BY <1>9, <1>10, <1>11, <1>12, <1>13
-----------------------------------------------------------------------------
(***************************************************************************)
(* condition_variable_latency.cc.                                          *)
(***************************************************************************)
CondAsked ==
    Turns("parent") +
    (IF pc["parent"] \in {"notify", "lock_other", "test", "sleep", "asleep"} THEN 1 ELSE 0)
CondHeard == Turns("child") + (IF pc["child"] \in {"lock_own", "set", "notify"} THEN 1 ELSE 0)
CondAnswered == Turns("child") + (IF pc["child"] = "notify" THEN 1 ELSE 0)
CondSeen == Turns("parent")

CondLines == {"lock_own", "set", "notify", "lock_other", "test", "sleep", "asleep"}

CondTypeOK ==
    /\ pc["parent"] \in CondLines \cup {"create", "join", "done"}
    /\ pc["child"] \in CondLines \cup {"none", "exit"}
    /\ ready \in [Procs -> BOOLEAN]
    /\ owner \in [Procs -> {"parent", "child", "nobody"}]

\* p is where it holds the mutex of m's flag.
Inside(p, m) == \/ m = p /\ pc[p] = "set"
                \/ m # p /\ pc[p] \in {"test", "sleep"}

CondOwners == \A m, p \in Procs : owner[m] = p <=> Inside(p, m)

\* A flag is up from the store of its owner to the end of the other's wait.
Up(p) == IF ready[p] THEN 1 ELSE 0

CondCounts ==
    /\ Up("child") + CondSeen = CondAnswered
    /\ Up("parent") + CondHeard = CondAsked

CondPlays == Plays(CondAsked, CondAnswered, CondSeen,
                   CondAsked', CondAnswered', CondSeen')

CondInv == LoopInv /\ CondTypeOK /\ ThreadLoop /\ CondOwners /\ CondCounts

\* A step of either thread, or a spurious wakeup, keeps the invariant and is a
\* step of PingPong or none.
LEMMA CondNext ==
    ASSUME CondInv, Cond!Parent \/ Cond!Child \/ Cond!Memory
    PROVE  CondInv' /\ CondPlays
<1> USE LoopAssumption DEF CondInv, LoopAssumption
<1>1. \A p \in Procs : Turns(p) \in Nat
  BY TurnsAreNat
<1>2. CASE Cond!Create
  <2>1. Turns("parent")' = Turns("parent") /\ Turns("child")' = Turns("parent")
    BY <1>2, ThreadStarts DEF Cond!Create, Cond!CreateThread, Cond!flags, ThreadLoop
  <2>2. LoopInv' /\ CondTypeOK' /\ ThreadLoop'
    BY <1>2 DEF Cond!Create, Cond!CreateThread, Cond!flags, LoopInv, CondTypeOK, CondLines,
       ThreadLoop, Labels, Procs
  <2>3. CondOwners'
    BY <1>2 DEF Cond!Create, Cond!CreateThread, Cond!flags, LoopInv, CondTypeOK, ThreadLoop,
       CondOwners, Inside, Procs
  <2>4. CondCounts'
    BY <1>1, <1>2, <2>1 DEF Cond!Create, Cond!CreateThread, Cond!flags, LoopInv, CondTypeOK,
       CondLines, ThreadLoop, CondCounts, CondAsked, CondHeard, CondAnswered, CondSeen, Up,
       Procs
  <2>5. CondPlays
    BY <1>1, <1>2, <2>1 DEF Cond!Create, Cond!CreateThread, Cond!flags, LoopInv, CondTypeOK,
       CondLines, ThreadLoop, CondCounts, CondAsked, CondHeard, CondAnswered, CondSeen,
       CondPlays, Plays, Up, Procs
  <2> QED
    BY <2>2, <2>3, <2>4, <2>5
<1>3. CASE Cond!Join
  <2>1. \A p \in Procs : Turns(p)' = Turns(p)
    BY <1>3, IterationEnds DEF Cond!Join, Cond!JoinThread, Cond!EndIteration, Cond!Goto,
       Cond!Procs, Cond!flags, Procs, Other, ThreadLoop
  <2>2. LoopInv' /\ CondTypeOK' /\ ThreadLoop'
    BY <1>3 DEF Cond!Join, Cond!JoinThread, Cond!EndIteration, Cond!Goto, Cond!Procs,
       Cond!flags, LoopInv, CondTypeOK, CondLines, ThreadLoop, Labels, Procs
  <2>3. CondOwners'
    BY <1>3 DEF Cond!Join, Cond!JoinThread, Cond!EndIteration, Cond!Goto, Cond!Procs,
       Cond!flags, LoopInv, CondTypeOK, ThreadLoop, CondOwners, Inside, Procs
  <2>4. CondCounts'
    BY <1>1, <1>3, <2>1 DEF Cond!Join, Cond!JoinThread, Cond!EndIteration, Cond!Goto,
       Cond!Procs, Cond!flags, LoopInv, CondTypeOK, CondLines, ThreadLoop, CondCounts,
       CondAsked, CondHeard, CondAnswered, CondSeen, Up, Procs
  <2>5. CondPlays
    BY <1>1, <1>3, <2>1 DEF Cond!Join, Cond!JoinThread, Cond!EndIteration, Cond!Goto,
       Cond!Procs, Cond!flags, LoopInv, CondTypeOK, CondLines, ThreadLoop, CondCounts,
       CondAsked, CondHeard, CondAnswered, CondSeen, CondPlays, Plays, Up, Procs
  <2> QED
    BY <2>2, <2>3, <2>4, <2>5
<1>4. CASE Cond!Lock("parent", "parent", "lock_own", "set")
  <2>1. \A p \in Procs : Turns(p)' = Turns(p)
    BY <1>4, TurnsStay DEF Cond!Lock, Cond!Goto
  <2>2. LoopInv' /\ CondTypeOK' /\ ThreadLoop'
    BY <1>4 DEF Cond!Lock, Cond!Goto, LoopInv, CondTypeOK, CondLines, ThreadLoop, Labels, Procs
  <2>3. CondOwners'
    BY <1>4 DEF Cond!Lock, Cond!Goto, LoopInv, CondTypeOK, ThreadLoop, CondOwners, Inside, Procs
  <2>4. CondCounts'
    BY <1>1, <1>4, <2>1 DEF Cond!Lock, Cond!Goto, LoopInv, CondTypeOK, CondLines, ThreadLoop,
       CondCounts, CondAsked, CondHeard, CondAnswered, CondSeen, Up, Procs
  <2>5. CondPlays
    BY <1>1, <1>4, <2>1 DEF Cond!Lock, Cond!Goto, LoopInv, CondTypeOK, CondLines, ThreadLoop,
       CondCounts, CondAsked, CondHeard, CondAnswered, CondSeen, CondPlays, Plays, Up, Procs
  <2> QED
    BY <2>2, <2>3, <2>4, <2>5
<1>5. CASE Cond!SetReady("parent")
  <2>1. \A p \in Procs : Turns(p)' = Turns(p)
    BY <1>5, TurnsStay DEF Cond!SetReady, Cond!Goto
  <2>2. LoopInv' /\ CondTypeOK' /\ ThreadLoop'
    BY <1>5 DEF Cond!SetReady, Cond!Goto, LoopInv, CondTypeOK, CondLines, ThreadLoop, Labels,
       Procs
  <2>3. CondOwners'
    BY <1>5 DEF Cond!SetReady, Cond!Goto, LoopInv, CondTypeOK, ThreadLoop, CondOwners, Inside,
       Procs
  <2>4. CondCounts'
    BY <1>1, <1>5, <2>1 DEF Cond!SetReady, Cond!Goto, LoopInv, CondTypeOK, CondLines,
       ThreadLoop, CondCounts, CondAsked, CondHeard, CondAnswered, CondSeen, Up, Procs
  <2>5. CondPlays
    BY <1>1, <1>5, <2>1 DEF Cond!SetReady, Cond!Goto, LoopInv, CondTypeOK, CondLines,
       ThreadLoop, CondCounts, CondAsked, CondHeard, CondAnswered, CondSeen, CondPlays, Plays,
       Up, Procs
  <2> QED
    BY <2>2, <2>3, <2>4, <2>5
<1>6. CASE Cond!Lock("parent", Cond!Other("parent"), "lock_other", "test")
  <2>1. \A p \in Procs : Turns(p)' = Turns(p)
    BY <1>6, TurnsStay DEF Cond!Lock, Cond!Goto, Cond!Other
  <2>2. LoopInv' /\ CondTypeOK' /\ ThreadLoop'
    BY <1>6 DEF Cond!Lock, Cond!Goto, Cond!Other, LoopInv, CondTypeOK, CondLines, ThreadLoop,
       Labels, Procs
  <2>3. CondOwners'
    BY <1>6 DEF Cond!Lock, Cond!Goto, Cond!Other, LoopInv, CondTypeOK, ThreadLoop, CondOwners,
       Inside, Procs
  <2>4. CondCounts'
    BY <1>1, <1>6, <2>1 DEF Cond!Lock, Cond!Goto, Cond!Other, LoopInv, CondTypeOK, CondLines,
       ThreadLoop, CondCounts, CondAsked, CondHeard, CondAnswered, CondSeen, Up, Procs
  <2>5. CondPlays
    BY <1>1, <1>6, <2>1 DEF Cond!Lock, Cond!Goto, Cond!Other, LoopInv, CondTypeOK, CondLines,
       ThreadLoop, CondCounts, CondAsked, CondHeard, CondAnswered, CondSeen, CondPlays, Plays,
       Up, Procs
  <2> QED
    BY <2>2, <2>3, <2>4, <2>5
<1>7. CASE Cond!Test("parent") /\ ready[Cond!Other("parent")]
  <2>1. \A p \in Procs : Turns(p)' = IF p = "parent" THEN Turns(p) + 1 ELSE Turns(p)
    BY <1>7, TurnEnds DEF Cond!Test, Cond!Take, Cond!EndTurn, Cond!Goto, Cond!Other, Procs,
       Other
  <2>2. LoopInv' /\ CondTypeOK' /\ ThreadLoop'
    <3>1. LoopInv'
      BY <1>7 DEF Cond!Test, Cond!Take, Cond!EndTurn, Cond!Goto, Cond!Other, LoopInv,
         CondTypeOK, CondLines, ThreadLoop, Labels, Procs
    <3>2. CondTypeOK'
      BY <1>7 DEF Cond!Test, Cond!Take, Cond!EndTurn, Cond!Goto, Cond!Other, LoopInv,
         CondTypeOK, CondLines, Procs
    <3>3. ThreadLoop'
      BY <1>7 DEF Cond!Test, Cond!Take, Cond!EndTurn, Cond!Goto, Cond!Other, LoopInv,
         CondTypeOK, CondLines, ThreadLoop, Procs
    <3> QED
      BY <3>1, <3>2, <3>3
  <2>3. CondOwners'
    BY <1>7 DEF Cond!Test, Cond!Take, Cond!EndTurn, Cond!Goto, Cond!Other, LoopInv,
       CondTypeOK, ThreadLoop, CondOwners, Inside, Procs
  <2>4. CondCounts'
    BY <1>1, <1>7, <2>1 DEF Cond!Test, Cond!Take, Cond!EndTurn, Cond!Goto, Cond!Other,
       LoopInv, CondTypeOK, CondLines, ThreadLoop, CondCounts, CondAsked, CondHeard,
       CondAnswered, CondSeen, Up, Procs
  <2>5. CondPlays
    BY <1>1, <1>7, <2>1 DEF Cond!Test, Cond!Take, Cond!EndTurn, Cond!Goto, Cond!Other,
       LoopInv, CondTypeOK, CondLines, ThreadLoop, CondCounts, CondAsked, CondHeard,
       CondAnswered, CondSeen, CondPlays, Plays, Up, Procs
  <2> QED
    BY <2>2, <2>3, <2>4, <2>5
<1>8. CASE Cond!Test("parent") /\ ~ready[Cond!Other("parent")]
  <2>1. \A p \in Procs : Turns(p)' = Turns(p)
    BY <1>8, TurnsStay DEF Cond!Test, Cond!Goto, Cond!Other, Cond!flags
  <2>2. LoopInv' /\ CondTypeOK' /\ ThreadLoop'
    BY <1>8 DEF Cond!Test, Cond!Goto, Cond!Other, Cond!flags, LoopInv, CondTypeOK, CondLines,
       ThreadLoop, Labels, Procs
  <2>3. CondOwners'
    BY <1>8 DEF Cond!Test, Cond!Goto, Cond!Other, Cond!flags, LoopInv, CondTypeOK, ThreadLoop,
       CondOwners, Inside, Procs
  <2>4. CondCounts'
    BY <1>1, <1>8, <2>1 DEF Cond!Test, Cond!Goto, Cond!Other, Cond!flags, LoopInv, CondTypeOK,
       CondLines, ThreadLoop, CondCounts, CondAsked, CondHeard, CondAnswered, CondSeen, Up,
       Procs
  <2>5. CondPlays
    BY <1>1, <1>8, <2>1 DEF Cond!Test, Cond!Goto, Cond!Other, Cond!flags, LoopInv, CondTypeOK,
       CondLines, ThreadLoop, CondCounts, CondAsked, CondHeard, CondAnswered, CondSeen,
       CondPlays, Plays, Up, Procs
  <2> QED
    BY <2>2, <2>3, <2>4, <2>5
<1>9. CASE Cond!Sleep("parent")
  <2>1. \A p \in Procs : Turns(p)' = Turns(p)
    BY <1>9, TurnsStay DEF Cond!Sleep, Cond!Goto, Cond!Other
  <2>2. LoopInv' /\ CondTypeOK' /\ ThreadLoop'
    BY <1>9 DEF Cond!Sleep, Cond!Goto, Cond!Other, LoopInv, CondTypeOK, CondLines, ThreadLoop,
       Labels, Procs
  <2>3. CondOwners'
    BY <1>9 DEF Cond!Sleep, Cond!Goto, Cond!Other, LoopInv, CondTypeOK, ThreadLoop,
       CondOwners, Inside, Procs
  <2>4. CondCounts'
    BY <1>1, <1>9, <2>1 DEF Cond!Sleep, Cond!Goto, Cond!Other, LoopInv, CondTypeOK, CondLines,
       ThreadLoop, CondCounts, CondAsked, CondHeard, CondAnswered, CondSeen, Up, Procs
  <2>5. CondPlays
    BY <1>1, <1>9, <2>1 DEF Cond!Sleep, Cond!Goto, Cond!Other, LoopInv, CondTypeOK, CondLines,
       ThreadLoop, CondCounts, CondAsked, CondHeard, CondAnswered, CondSeen, CondPlays, Plays,
       Up, Procs
  <2> QED
    BY <2>2, <2>3, <2>4, <2>5
<1>10. CASE Cond!Spurious("parent")
  <2>1. \A p \in Procs : Turns(p)' = Turns(p)
    BY <1>10, TurnsStay DEF Cond!Spurious, Cond!Goto, Cond!flags
  <2>2. LoopInv' /\ CondTypeOK' /\ ThreadLoop'
    BY <1>10 DEF Cond!Spurious, Cond!Goto, Cond!flags, LoopInv, CondTypeOK, CondLines,
       ThreadLoop, Labels, Procs
  <2>3. CondOwners'
    BY <1>10 DEF Cond!Spurious, Cond!Goto, Cond!flags, LoopInv, CondTypeOK, ThreadLoop,
       CondOwners, Inside, Procs
  <2>4. CondCounts'
    BY <1>1, <1>10, <2>1 DEF Cond!Spurious, Cond!Goto, Cond!flags, LoopInv, CondTypeOK,
       CondLines, ThreadLoop, CondCounts, CondAsked, CondHeard, CondAnswered, CondSeen, Up,
       Procs
  <2>5. CondPlays
    BY <1>1, <1>10, <2>1 DEF Cond!Spurious, Cond!Goto, Cond!flags, LoopInv, CondTypeOK,
       CondLines, ThreadLoop, CondCounts, CondAsked, CondHeard, CondAnswered, CondSeen,
       CondPlays, Plays, Up, Procs
  <2> QED
    BY <2>2, <2>3, <2>4, <2>5
<1>11. CASE Cond!Lock("child", "child", "lock_own", "set")
  <2>1. \A p \in Procs : Turns(p)' = Turns(p)
    BY <1>11, TurnsStay DEF Cond!Lock, Cond!Goto
  <2>2. LoopInv' /\ CondTypeOK' /\ ThreadLoop'
    BY <1>11 DEF Cond!Lock, Cond!Goto, LoopInv, CondTypeOK, CondLines, ThreadLoop, Labels, Procs
  <2>3. CondOwners'
    BY <1>11 DEF Cond!Lock, Cond!Goto, LoopInv, CondTypeOK, ThreadLoop, CondOwners, Inside,
       Procs
  <2>4. CondCounts'
    BY <1>1, <1>11, <2>1 DEF Cond!Lock, Cond!Goto, LoopInv, CondTypeOK, CondLines, ThreadLoop,
       CondCounts, CondAsked, CondHeard, CondAnswered, CondSeen, Up, Procs
  <2>5. CondPlays
    BY <1>1, <1>11, <2>1 DEF Cond!Lock, Cond!Goto, LoopInv, CondTypeOK, CondLines, ThreadLoop,
       CondCounts, CondAsked, CondHeard, CondAnswered, CondSeen, CondPlays, Plays, Up, Procs
  <2> QED
    BY <2>2, <2>3, <2>4, <2>5
<1>12. CASE Cond!SetReady("child")
  <2>1. \A p \in Procs : Turns(p)' = Turns(p)
    BY <1>12, TurnsStay DEF Cond!SetReady, Cond!Goto
  <2>2. LoopInv' /\ CondTypeOK' /\ ThreadLoop'
    BY <1>12 DEF Cond!SetReady, Cond!Goto, LoopInv, CondTypeOK, CondLines, ThreadLoop, Labels,
       Procs
  <2>3. CondOwners'
    BY <1>12 DEF Cond!SetReady, Cond!Goto, LoopInv, CondTypeOK, ThreadLoop, CondOwners,
       Inside, Procs
  <2>4. CondCounts'
    BY <1>1, <1>12, <2>1 DEF Cond!SetReady, Cond!Goto, LoopInv, CondTypeOK, CondLines,
       ThreadLoop, CondCounts, CondAsked, CondHeard, CondAnswered, CondSeen, Up, Procs
  <2>5. CondPlays
    BY <1>1, <1>12, <2>1 DEF Cond!SetReady, Cond!Goto, LoopInv, CondTypeOK, CondLines,
       ThreadLoop, CondCounts, CondAsked, CondHeard, CondAnswered, CondSeen, CondPlays, Plays,
       Up, Procs
  <2> QED
    BY <2>2, <2>3, <2>4, <2>5
<1>13. CASE Cond!Lock("child", Cond!Other("child"), "lock_other", "test")
  <2>1. \A p \in Procs : Turns(p)' = Turns(p)
    BY <1>13, TurnsStay DEF Cond!Lock, Cond!Goto, Cond!Other
  <2>2. LoopInv' /\ CondTypeOK' /\ ThreadLoop'
    BY <1>13 DEF Cond!Lock, Cond!Goto, Cond!Other, LoopInv, CondTypeOK, CondLines, ThreadLoop,
       Labels, Procs
  <2>3. CondOwners'
    BY <1>13 DEF Cond!Lock, Cond!Goto, Cond!Other, LoopInv, CondTypeOK, ThreadLoop,
       CondOwners, Inside, Procs
  <2>4. CondCounts'
    BY <1>1, <1>13, <2>1 DEF Cond!Lock, Cond!Goto, Cond!Other, LoopInv, CondTypeOK, CondLines,
       ThreadLoop, CondCounts, CondAsked, CondHeard, CondAnswered, CondSeen, Up, Procs
  <2>5. CondPlays
    BY <1>1, <1>13, <2>1 DEF Cond!Lock, Cond!Goto, Cond!Other, LoopInv, CondTypeOK, CondLines,
       ThreadLoop, CondCounts, CondAsked, CondHeard, CondAnswered, CondSeen, CondPlays, Plays,
       Up, Procs
  <2> QED
    BY <2>2, <2>3, <2>4, <2>5
<1>14. CASE Cond!Test("child") /\ ready[Cond!Other("child")]
  <2>1. \A p \in Procs : Turns(p)' = Turns(p)
    BY <1>14, TurnsStay DEF Cond!Test, Cond!Take, Cond!EndTurn, Cond!Goto, Cond!Other
  <2>2. LoopInv' /\ CondTypeOK' /\ ThreadLoop'
    <3>1. LoopInv'
      BY <1>14 DEF Cond!Test, Cond!Take, Cond!EndTurn, Cond!Goto, Cond!Other, LoopInv,
         CondTypeOK, CondLines, ThreadLoop, Labels, Procs
    <3>2. CondTypeOK'
      BY <1>14 DEF Cond!Test, Cond!Take, Cond!EndTurn, Cond!Goto, Cond!Other, LoopInv,
         CondTypeOK, CondLines, Procs
    <3>3. ThreadLoop'
      BY <1>14 DEF Cond!Test, Cond!Take, Cond!EndTurn, Cond!Goto, Cond!Other, LoopInv,
         CondTypeOK, CondLines, ThreadLoop, Procs
    <3> QED
      BY <3>1, <3>2, <3>3
  <2>3. CondOwners'
    BY <1>14 DEF Cond!Test, Cond!Take, Cond!EndTurn, Cond!Goto, Cond!Other, LoopInv,
       CondTypeOK, ThreadLoop, CondOwners, Inside, Procs
  <2>4. CondCounts'
    BY <1>1, <1>14, <2>1 DEF Cond!Test, Cond!Take, Cond!EndTurn, Cond!Goto, Cond!Other,
       LoopInv, CondTypeOK, CondLines, ThreadLoop, CondCounts, CondAsked, CondHeard,
       CondAnswered, CondSeen, Up, Procs
  <2>5. CondPlays
    BY <1>1, <1>14, <2>1 DEF Cond!Test, Cond!Take, Cond!EndTurn, Cond!Goto, Cond!Other,
       LoopInv, CondTypeOK, CondLines, ThreadLoop, CondCounts, CondAsked, CondHeard,
       CondAnswered, CondSeen, CondPlays, Plays, Up, Procs
  <2> QED
    BY <2>2, <2>3, <2>4, <2>5
<1>15. CASE Cond!Test("child") /\ ~ready[Cond!Other("child")]
  <2>1. \A p \in Procs : Turns(p)' = Turns(p)
    BY <1>15, TurnsStay DEF Cond!Test, Cond!Goto, Cond!Other, Cond!flags
  <2>2. LoopInv' /\ CondTypeOK' /\ ThreadLoop'
    BY <1>15 DEF Cond!Test, Cond!Goto, Cond!Other, Cond!flags, LoopInv, CondTypeOK, CondLines,
       ThreadLoop, Labels, Procs
  <2>3. CondOwners'
    BY <1>15 DEF Cond!Test, Cond!Goto, Cond!Other, Cond!flags, LoopInv, CondTypeOK,
       ThreadLoop, CondOwners, Inside, Procs
  <2>4. CondCounts'
    BY <1>1, <1>15, <2>1 DEF Cond!Test, Cond!Goto, Cond!Other, Cond!flags, LoopInv,
       CondTypeOK, CondLines, ThreadLoop, CondCounts, CondAsked, CondHeard, CondAnswered,
       CondSeen, Up, Procs
  <2>5. CondPlays
    BY <1>1, <1>15, <2>1 DEF Cond!Test, Cond!Goto, Cond!Other, Cond!flags, LoopInv,
       CondTypeOK, CondLines, ThreadLoop, CondCounts, CondAsked, CondHeard, CondAnswered,
       CondSeen, CondPlays, Plays, Up, Procs
  <2> QED
    BY <2>2, <2>3, <2>4, <2>5
<1>16. CASE Cond!Sleep("child")
  <2>1. \A p \in Procs : Turns(p)' = Turns(p)
    BY <1>16, TurnsStay DEF Cond!Sleep, Cond!Goto, Cond!Other
  <2>2. LoopInv' /\ CondTypeOK' /\ ThreadLoop'
    BY <1>16 DEF Cond!Sleep, Cond!Goto, Cond!Other, LoopInv, CondTypeOK, CondLines,
       ThreadLoop, Labels, Procs
  <2>3. CondOwners'
    BY <1>16 DEF Cond!Sleep, Cond!Goto, Cond!Other, LoopInv, CondTypeOK, ThreadLoop,
       CondOwners, Inside, Procs
  <2>4. CondCounts'
    BY <1>1, <1>16, <2>1 DEF Cond!Sleep, Cond!Goto, Cond!Other, LoopInv, CondTypeOK,
       CondLines, ThreadLoop, CondCounts, CondAsked, CondHeard, CondAnswered, CondSeen, Up,
       Procs
  <2>5. CondPlays
    BY <1>1, <1>16, <2>1 DEF Cond!Sleep, Cond!Goto, Cond!Other, LoopInv, CondTypeOK,
       CondLines, ThreadLoop, CondCounts, CondAsked, CondHeard, CondAnswered, CondSeen,
       CondPlays, Plays, Up, Procs
  <2> QED
    BY <2>2, <2>3, <2>4, <2>5
<1>17. CASE Cond!Spurious("child")
  <2>1. \A p \in Procs : Turns(p)' = Turns(p)
    BY <1>17, TurnsStay DEF Cond!Spurious, Cond!Goto, Cond!flags
  <2>2. LoopInv' /\ CondTypeOK' /\ ThreadLoop'
    BY <1>17 DEF Cond!Spurious, Cond!Goto, Cond!flags, LoopInv, CondTypeOK, CondLines,
       ThreadLoop, Labels, Procs
  <2>3. CondOwners'
    BY <1>17 DEF Cond!Spurious, Cond!Goto, Cond!flags, LoopInv, CondTypeOK, ThreadLoop,
       CondOwners, Inside, Procs
  <2>4. CondCounts'
    BY <1>1, <1>17, <2>1 DEF Cond!Spurious, Cond!Goto, Cond!flags, LoopInv, CondTypeOK,
       CondLines, ThreadLoop, CondCounts, CondAsked, CondHeard, CondAnswered, CondSeen, Up,
       Procs
  <2>5. CondPlays
    BY <1>1, <1>17, <2>1 DEF Cond!Spurious, Cond!Goto, Cond!flags, LoopInv, CondTypeOK,
       CondLines, ThreadLoop, CondCounts, CondAsked, CondHeard, CondAnswered, CondSeen,
       CondPlays, Plays, Up, Procs
  <2> QED
    BY <2>2, <2>3, <2>4, <2>5
<1>18. CASE Cond!ParentNotifies
  <2>1. \A p \in Procs : Turns(p)' = Turns(p)
    BY <1>18, TurnsStay DEF Cond!ParentNotifies, Cond!Woken, Cond!Other, Cond!flags
  <2>2. LoopInv' /\ CondTypeOK' /\ ThreadLoop'
    BY <1>18 DEF Cond!ParentNotifies, Cond!Woken, Cond!Other, Cond!flags, LoopInv, CondTypeOK,
       CondLines, ThreadLoop, Labels, Procs
  <2>3. CondOwners'
    BY <1>18 DEF Cond!ParentNotifies, Cond!Woken, Cond!Other, Cond!flags, LoopInv, CondTypeOK,
       ThreadLoop, CondOwners, Inside, Procs
  <2>4. CondCounts'
    BY <1>1, <1>18, <2>1 DEF Cond!ParentNotifies, Cond!Woken, Cond!Other, Cond!flags, LoopInv,
       CondTypeOK, CondLines, ThreadLoop, CondCounts, CondAsked, CondHeard, CondAnswered,
       CondSeen, Up, Procs
  <2>5. CondPlays
    BY <1>1, <1>18, <2>1 DEF Cond!ParentNotifies, Cond!Woken, Cond!Other, Cond!flags, LoopInv,
       CondTypeOK, CondLines, ThreadLoop, CondCounts, CondAsked, CondHeard, CondAnswered,
       CondSeen, CondPlays, Plays, Up, Procs
  <2> QED
    BY <2>2, <2>3, <2>4, <2>5
<1>19. CASE Cond!ChildNotifies
  <2>1. \A p \in Procs : Turns(p)' = IF p = "child" THEN Turns(p) + 1 ELSE Turns(p)
    BY <1>19, TurnEnds DEF Cond!ChildNotifies, Cond!Woken, Cond!Other, Cond!flags, Procs, Other
  <2>2. LoopInv' /\ CondTypeOK' /\ ThreadLoop'
    BY <1>19 DEF Cond!ChildNotifies, Cond!Woken, Cond!Other, Cond!flags, LoopInv, CondTypeOK,
       CondLines, ThreadLoop, Labels, Procs
  <2>3. CondOwners'
    BY <1>19 DEF Cond!ChildNotifies, Cond!Woken, Cond!Other, Cond!flags, LoopInv, CondTypeOK,
       ThreadLoop, CondOwners, Inside, Procs
  <2>4. CondCounts'
    BY <1>1, <1>19, <2>1 DEF Cond!ChildNotifies, Cond!Woken, Cond!Other, Cond!flags, LoopInv,
       CondTypeOK, CondLines, ThreadLoop, CondCounts, CondAsked, CondHeard, CondAnswered,
       CondSeen, Up, Procs
  <2>5. CondPlays
    BY <1>1, <1>19, <2>1 DEF Cond!ChildNotifies, Cond!Woken, Cond!Other, Cond!flags, LoopInv,
       CondTypeOK, CondLines, ThreadLoop, CondCounts, CondAsked, CondHeard, CondAnswered,
       CondSeen, CondPlays, Plays, Up, Procs
  <2> QED
    BY <2>2, <2>3, <2>4, <2>5
<1> QED
  BY <1>2, <1>3, <1>4, <1>5, <1>6, <1>7, <1>8, <1>9, <1>10, <1>11, <1>12, <1>13, <1>14, <1>15,
     <1>16, <1>17, <1>18, <1>19 DEF Cond!Parent, Cond!Child, Cond!Memory, Cond!Flip,
     Cond!Signal, Cond!Procs

\* Nobody sleeps through a message: who is about to sleep holds the mutex of a flag
\* that is down, and while who sleeps has its flag up the notify is still to come.
CondWakes ==
    \A p \in Procs :
       /\ pc[p] = "sleep" => ready[Other(p)] = FALSE
       /\ pc[p] = "asleep" /\ ready[Other(p)] => pc[Other(p)] = "notify"

\* A step of either thread keeps it so: the flag is set under the mutex that the
\* other holds from its test to its sleep.
LEMMA CondWakesNext ==
    ASSUME CondInv, CondWakes, Cond!Parent \/ Cond!Child \/ Cond!Memory
    PROVE  CondWakes'
<1> USE DEF CondInv, CondWakes, LoopInv, CondTypeOK, Cond!Goto, Cond!Other, Cond!flags, Procs,
          Other
<1>1. CASE Cond!Create
  BY <1>1 DEF Cond!Create, Cond!CreateThread
<1>2. CASE Cond!Join
  BY <1>2 DEF Cond!Join, Cond!JoinThread, Cond!EndIteration, Cond!Procs
<1>3. ASSUME NEW p \in Procs, Cond!Flip(p)
      PROVE  CondWakes'
  <2>1. CASE Cond!Lock(p, p, "lock_own", "set")
    BY <2>1 DEF Cond!Lock
  <2>2. CASE Cond!SetReady(p)
    <3>1. pc[Other(p)] # "sleep"
      BY <2>2 DEF Cond!SetReady, CondOwners, Inside
    <3> QED
      BY <2>2, <3>1 DEF Cond!SetReady
  <2>3. CASE Cond!Lock(p, Other(p), "lock_other", "test")
    BY <2>3 DEF Cond!Lock
  <2>4. CASE Cond!Test(p) /\ ready[Other(p)]
    BY <2>4 DEF Cond!Test, Cond!Take, Cond!EndTurn
  <2>5. CASE Cond!Test(p) /\ ~ready[Other(p)]
    BY <2>5 DEF Cond!Test
  <2>6. CASE Cond!Sleep(p)
    BY <2>6 DEF Cond!Sleep
  <2> QED
    BY <1>3, <2>1, <2>2, <2>3, <2>4, <2>5, <2>6 DEF Cond!Flip, Cond!Signal
<1>4. CASE Cond!ParentNotifies
  BY <1>4 DEF Cond!ParentNotifies, Cond!Woken
<1>5. CASE Cond!ChildNotifies
  BY <1>5 DEF Cond!ChildNotifies, Cond!Woken
<1>6. CASE Cond!Memory
  BY <1>6 DEF Cond!Memory, Cond!Spurious, Cond!Procs
<1> QED
  BY <1>1, <1>2, <1>3, <1>4, <1>5, <1>6 DEF Cond!Parent, Cond!Child
-----------------------------------------------------------------------------
(***************************************************************************)
(* mpi_bandwidth.cc: the turns are the iterations.                         *)
(***************************************************************************)
MpiAsked == iter["parent"] +
            (IF pc["parent"] \in {"sending", "recv", "end", "verify"} THEN 1 ELSE 0)
MpiHeard == iter["child"] +
            (IF pc["child"] \in {"send", "sending", "end", "verify"} THEN 1 ELSE 0)
MpiAnswered == iter["child"] + (IF pc["child"] \in {"sending", "end", "verify"} THEN 1 ELSE 0)
MpiSeen == iter["parent"] + (IF pc["parent"] \in {"end", "verify"} THEN 1 ELSE 0)

MpiTypeOK ==
    /\ pc["parent"] \in {"ready", "begin", "send", "sending", "recv", "end", "verify", "done"}
    /\ pc["child"] \in {"ready", "begin", "send", "sending", "recv", "end", "verify", "exit"}
    /\ arrived \in [Procs -> Nat]
    /\ passed \in [Procs -> Nat]
    /\ channel \in [Procs -> Seq(Nat)]
    /\ recv_buffer \in [Procs -> 0 .. Iterations]

\* Where both ranks are in their loops.
MpiLoop ==
    \A p \in Procs :
       /\ turn[p] = 0
       /\ pc[p] = "ready" => iter[p] = 0
       /\ pc[p] \notin {"done", "exit"} => iter[p] < Iterations
       /\ pc[p] \in {"done", "exit"} => iter[p] = Iterations

\* Calls of MPI_Barrier that have returned to p where it is.
Returned(p) == IF pc[p] = "ready" THEN 0
               ELSE 2 * iter[p] + (IF pc[p] \in {"begin", "done", "exit"} THEN 1
                                   ELSE IF pc[p] = "verify" THEN 3 ELSE 2)

\* Both ranks make the same calls of MPI_Barrier, and none returns before the
\* other rank has made as many.
MpiSync ==
    \A p \in Procs :
       /\ passed[p] = Returned(p)
       /\ arrived[p] \in {passed[p], passed[p] + 1}
       /\ pc[p] \notin {"ready", "begin", "end"} => arrived[p] = passed[p]
       /\ \A q \in Procs : passed[p] <= arrived[q]

\* The channels hold the message that is sent and not received, with its number.
MpiMessages ==
    /\ \/ MpiHeard = MpiAsked /\ channel["child"] = <<>>
       \/ MpiHeard + 1 = MpiAsked /\ channel["child"] = <<MpiAsked>>
    /\ \/ MpiSeen = MpiAnswered /\ channel["parent"] = <<>>
       \/ MpiSeen + 1 = MpiAnswered /\ channel["parent"] = <<MpiAnswered>>

\* A rank has received the data of its iteration.
MpiBuffers ==
    /\ pc["parent"] \in {"end", "verify"} => recv_buffer["parent"] = iter["parent"] + 1
    /\ pc["child"] \in {"send", "sending", "end", "verify"} =>
          recv_buffer["child"] = iter["child"] + 1

MpiPlays == Plays(MpiAsked, MpiAnswered, MpiSeen, MpiAsked', MpiAnswered', MpiSeen')

MpiInv == LoopInv /\ MpiTypeOK /\ MpiLoop /\ MpiSync /\ MpiMessages /\ MpiBuffers

\* A call of MPI_Barrier, or its return, leaves the loop and the messages alone.
LEMMA MpiBarrierCounts ==
    ASSUME MpiTypeOK, NEW p \in Procs, NEW from, NEW to, Mpi!Barrier(p, from, to)
    PROVE  /\ arrived' \in [Procs -> Nat] /\ passed' \in [Procs -> Nat]
           /\ UNCHANGED <<iter, turn, channel, recv_buffer>>
<1>1. CASE Mpi!B!Arrive(p)
  BY <1>1 DEF MpiTypeOK, Mpi!Barrier, Mpi!B!Arrive
<1>2. CASE Mpi!B!Pass(p)
  BY <1>2 DEF MpiTypeOK, Mpi!Barrier, Mpi!B!Pass
<1> QED
  BY <1>1, <1>2 DEF Mpi!Barrier

\* A call of MPI_Barrier.
LEMMA MpiArrives ==
    ASSUME MpiTypeOK, MpiSync, NEW p \in Procs, pc[p] \in {"ready", "begin", "end"},
           Mpi!B!Arrive(p), UNCHANGED <<pc, iter>>
    PROVE  MpiSync'
<1>1. \A q \in Procs : Returned(q)' = Returned(q)
  BY DEF Returned
<1> QED
  BY <1>1 DEF MpiTypeOK, MpiSync, Mpi!B!Arrive

\* A return from MPI_Barrier.
LEMMA MpiPasses ==
    ASSUME MpiTypeOK, MpiSync, NEW p \in Procs, Mpi!B!Pass(p),
           \A q \in Procs : Returned(q)' = IF q = p THEN Returned(q) + 1 ELSE Returned(q),
           \A q \in Procs : q # p => pc'[q] = pc[q]
    PROVE  MpiSync'
<1>1. \A q \in Procs : /\ arrived'[q] = arrived[q]
                       /\ passed'[q] = IF q = p THEN passed[p] + 1 ELSE passed[q]
  BY DEF MpiTypeOK, Mpi!B!Pass
<1>2. passed[p] + 1 = arrived[p] /\ \A q \in Procs : arrived[p] <= arrived[q]
  BY DEF MpiTypeOK, MpiSync, Mpi!B!Pass, Mpi!Procs, Procs
<1> QED
  BY <1>1, <1>2 DEF MpiTypeOK, MpiSync

\* Any other step.
LEMMA MpiGoesOn ==
    ASSUME MpiTypeOK, MpiSync, NEW p \in Procs, arrived[p] = passed[p],
           UNCHANGED <<arrived, passed>>,
           \A q \in Procs : Returned(q)' = Returned(q),
           \A q \in Procs : q # p => pc'[q] = pc[q]
    PROVE  MpiSync'
  BY DEF MpiTypeOK, MpiSync

\* A step of either rank keeps the invariant and is a step of PingPong or none.
LEMMA MpiNext ==
    ASSUME MpiInv, Mpi!Parent \/ Mpi!Child
    PROVE  MpiInv' /\ MpiPlays
<1> USE LoopAssumption DEF MpiInv, LoopAssumption
<1>1. iter["parent"] \in Nat /\ iter["child"] \in Nat
  BY DEF LoopInv, Procs
<1>2. CASE Mpi!Barrier("parent", "ready", "begin")
  <2>1. /\ MpiAsked' = MpiAsked /\ MpiHeard' = MpiHeard
        /\ MpiAnswered' = MpiAnswered /\ MpiSeen' = MpiSeen
    BY <1>1, <1>2 DEF Mpi!Barrier, Mpi!Goto, Mpi!B!Arrive, Mpi!B!Pass, LoopInv, MpiTypeOK,
       MpiLoop, MpiAsked, MpiHeard, MpiAnswered, MpiSeen, Procs
  <2>2. LoopInv' /\ MpiTypeOK' /\ MpiLoop'
    <3>1. /\ arrived' \in [Procs -> Nat] /\ passed' \in [Procs -> Nat]
          /\ UNCHANGED <<iter, turn, channel, recv_buffer>>
      BY <1>2, MpiBarrierCounts DEF Procs
    <3>2. pc' = pc \/ pc' = [pc EXCEPT !["parent"] = "begin"]
      BY <1>2 DEF Mpi!Barrier, Mpi!Goto
    <3>3. pc["parent"] = "ready"
      BY <1>2 DEF Mpi!Barrier
    <3>4. LoopInv'
      BY <3>1, <3>2 DEF LoopInv, Labels
    <3>5. MpiTypeOK'
      BY <3>1, <3>2 DEF LoopInv, MpiTypeOK, Procs
    <3>6. MpiLoop'
      BY <3>1, <3>2, <3>3 DEF LoopInv, MpiLoop, Procs
    <3> QED
      BY <3>4, <3>5, <3>6
  <2>3. MpiSync'
    <3>1. CASE Mpi!B!Arrive("parent") /\ UNCHANGED pc
      BY <1>2, <3>1, MpiArrives DEF Mpi!Barrier, Procs
    <3>2. CASE Mpi!B!Pass("parent") /\ Mpi!Goto("parent", "begin")
      <4>1. \A q \in Procs : Returned(q)' = IF q = "parent" THEN Returned(q) + 1 ELSE Returned(q)
        BY <1>1, <1>2, <3>2 DEF Mpi!Barrier, Mpi!Goto, LoopInv, MpiLoop, Returned, Procs
      <4> QED
        BY <3>2, <4>1, MpiPasses DEF Mpi!Goto, LoopInv, Procs
    <3> QED
      BY <1>2, <3>1, <3>2 DEF Mpi!Barrier
  <2>4. MpiMessages'
    BY <1>2, <2>1 DEF Mpi!Barrier, Mpi!Goto, Mpi!B!Arrive, Mpi!B!Pass, MpiMessages
  <2>5. MpiBuffers'
    BY <1>2 DEF Mpi!Barrier, Mpi!Goto, Mpi!B!Arrive, Mpi!B!Pass, LoopInv, MpiTypeOK,
       MpiBuffers, Procs
  <2>6. MpiPlays
    BY <1>1, <1>2, <2>1 DEF Mpi!Barrier, Mpi!Goto, Mpi!B!Arrive, Mpi!B!Pass, MpiTypeOK,
       MpiMessages, MpiPlays, Plays, MpiAsked, MpiHeard, MpiAnswered, MpiSeen
  <2> QED
    BY <2>2, <2>3, <2>4, <2>5, <2>6
<1>3. CASE Mpi!Barrier("parent", "begin", "send")
  <2>1. /\ MpiAsked' = MpiAsked /\ MpiHeard' = MpiHeard
        /\ MpiAnswered' = MpiAnswered /\ MpiSeen' = MpiSeen
    BY <1>1, <1>3 DEF Mpi!Barrier, Mpi!Goto, Mpi!B!Arrive, Mpi!B!Pass, LoopInv, MpiTypeOK,
       MpiLoop, MpiAsked, MpiHeard, MpiAnswered, MpiSeen, Procs
  <2>2. LoopInv' /\ MpiTypeOK' /\ MpiLoop'
    <3>1. /\ arrived' \in [Procs -> Nat] /\ passed' \in [Procs -> Nat]
          /\ UNCHANGED <<iter, turn, channel, recv_buffer>>
      BY <1>3, MpiBarrierCounts DEF Procs
    <3>2. pc' = pc \/ pc' = [pc EXCEPT !["parent"] = "send"]
      BY <1>3 DEF Mpi!Barrier, Mpi!Goto
    <3>3. pc["parent"] = "begin"
      BY <1>3 DEF Mpi!Barrier
    <3>4. LoopInv'
      BY <3>1, <3>2 DEF LoopInv, Labels
    <3>5. MpiTypeOK'
      BY <3>1, <3>2 DEF LoopInv, MpiTypeOK, Procs
    <3>6. MpiLoop'
      BY <3>1, <3>2, <3>3 DEF LoopInv, MpiLoop, Procs
    <3> QED
      BY <3>4, <3>5, <3>6
  <2>3. MpiSync'
    <3>1. CASE Mpi!B!Arrive("parent") /\ UNCHANGED pc
      BY <1>3, <3>1, MpiArrives DEF Mpi!Barrier, Procs
    <3>2. CASE Mpi!B!Pass("parent") /\ Mpi!Goto("parent", "send")
      <4>1. \A q \in Procs : Returned(q)' = IF q = "parent" THEN Returned(q) + 1 ELSE Returned(q)
        BY <1>1, <1>3, <3>2 DEF Mpi!Barrier, Mpi!Goto, LoopInv, MpiLoop, Returned, Procs
      <4> QED
        BY <3>2, <4>1, MpiPasses DEF Mpi!Goto, LoopInv, Procs
    <3> QED
      BY <1>3, <3>1, <3>2 DEF Mpi!Barrier
  <2>4. MpiMessages'
    BY <1>3, <2>1 DEF Mpi!Barrier, Mpi!Goto, Mpi!B!Arrive, Mpi!B!Pass, MpiMessages
  <2>5. MpiBuffers'
    BY <1>3 DEF Mpi!Barrier, Mpi!Goto, Mpi!B!Arrive, Mpi!B!Pass, LoopInv, MpiTypeOK,
       MpiBuffers, Procs
  <2>6. MpiPlays
    BY <1>1, <1>3, <2>1 DEF Mpi!Barrier, Mpi!Goto, Mpi!B!Arrive, Mpi!B!Pass, MpiTypeOK,
       MpiMessages, MpiPlays, Plays, MpiAsked, MpiHeard, MpiAnswered, MpiSeen
  <2> QED
    BY <2>2, <2>3, <2>4, <2>5, <2>6
<1>4. CASE Mpi!Send("parent", "recv")
  <2>1. /\ MpiAsked' = MpiAsked + 1 /\ MpiHeard' = MpiHeard
        /\ MpiAnswered' = MpiAnswered /\ MpiSeen' = MpiSeen
    BY <1>1, <1>4 DEF Mpi!Send, Mpi!Goto, Mpi!Other, LoopInv, MpiTypeOK, MpiLoop, MpiAsked,
       MpiHeard, MpiAnswered, MpiSeen, Procs
  <2>2. channel["child"] = <<>> /\ MpiHeard = MpiAsked /\ iter["parent"] + 1 = MpiAsked + 1
    BY <1>1, <1>4 DEF Mpi!Send, MpiTypeOK, MpiMessages, MpiAsked, MpiHeard, MpiAnswered, MpiSeen
  <2>3. channel' = [channel EXCEPT !["child"] = <<MpiAsked + 1>>]
    <3>1. Append(channel["child"], iter["parent"] + 1) = <<MpiAsked + 1>>
      BY <2>2
    <3> QED
      BY <1>4, <3>1 DEF Mpi!Send, Mpi!Other
  <2>4. LoopInv' /\ MpiLoop'
    BY <1>4 DEF Mpi!Send, Mpi!Goto, Mpi!Other, LoopInv, MpiTypeOK, MpiLoop, Labels, Procs
  <2>5. MpiTypeOK'
    <3>1. MpiAsked + 1 \in Nat
      BY <1>1, <2>2
    <3>2. <<MpiAsked + 1>> \in Seq(Nat)
      BY <3>1
    <3>3. channel' \in [Procs -> Seq(Nat)]
      BY <2>3, <3>2 DEF MpiTypeOK
    <3>4. /\ pc' = [pc EXCEPT !["parent"] = "recv"] \/ pc' = [pc EXCEPT !["parent"] = "sending"]
          /\ UNCHANGED <<arrived, passed, recv_buffer>>
      BY <1>4 DEF Mpi!Send, Mpi!Goto
    <3> QED
      BY <3>3, <3>4 DEF LoopInv, MpiTypeOK, Procs
  <2>6. MpiSync'
    <3>1. \A q \in Procs : Returned(q)' = Returned(q)
      BY <1>1, <1>4 DEF Mpi!Send, Mpi!Goto, Mpi!Other, LoopInv, MpiLoop, Returned, Procs
    <3>2. arrived["parent"] = passed["parent"] /\ UNCHANGED <<arrived, passed>>
      BY <1>4 DEF Mpi!Send, Mpi!Goto, Mpi!Other, MpiSync, Procs
    <3> QED
      BY <1>4, <3>1, <3>2, MpiGoesOn DEF Mpi!Send, Mpi!Goto, Mpi!Other, LoopInv, Procs
  <2>7. MpiMessages'
    BY <2>1, <2>2, <2>3 DEF MpiTypeOK, MpiMessages, Procs
  <2>8. MpiBuffers'
    BY <1>4 DEF Mpi!Send, Mpi!Goto, Mpi!Other, LoopInv, MpiTypeOK, MpiBuffers, Procs
  <2>9. MpiPlays
    BY <1>1, <1>4, <2>1 DEF Mpi!Send, Mpi!Goto, Mpi!Other, MpiTypeOK, MpiMessages, MpiPlays,
       Plays, MpiAsked, MpiHeard, MpiAnswered, MpiSeen
  <2> QED
    BY <2>4, <2>5, <2>6, <2>7, <2>8, <2>9
<1>5. CASE Mpi!SendReturns("parent", "recv")
  <2>1. /\ MpiAsked' = MpiAsked /\ MpiHeard' = MpiHeard
        /\ MpiAnswered' = MpiAnswered /\ MpiSeen' = MpiSeen
    BY <1>1, <1>5 DEF Mpi!SendReturns, Mpi!Goto, Mpi!Other, Mpi!mpi, LoopInv, MpiTypeOK,
       MpiLoop, MpiAsked, MpiHeard, MpiAnswered, MpiSeen, Procs
  <2>2. LoopInv' /\ MpiTypeOK' /\ MpiLoop'
    BY <1>5 DEF Mpi!SendReturns, Mpi!Goto, Mpi!Other, Mpi!mpi, LoopInv, MpiTypeOK, MpiLoop,
       Labels, Procs
  <2>3. MpiSync'
    <3>1. \A q \in Procs : Returned(q)' = Returned(q)
      BY <1>1, <1>5 DEF Mpi!SendReturns, Mpi!Goto, Mpi!Other, Mpi!mpi, LoopInv, MpiLoop,
         Returned, Procs
    <3>2. arrived["parent"] = passed["parent"] /\ UNCHANGED <<arrived, passed>>
      BY <1>5 DEF Mpi!SendReturns, Mpi!Goto, Mpi!Other, Mpi!mpi, MpiSync, Procs
    <3> QED
      BY <1>5, <3>1, <3>2, MpiGoesOn DEF Mpi!SendReturns, Mpi!Goto, Mpi!Other, Mpi!mpi,
         LoopInv, Procs
  <2>4. MpiMessages'
    BY <1>5, <2>1 DEF Mpi!SendReturns, Mpi!Goto, Mpi!Other, Mpi!mpi, MpiMessages
  <2>5. MpiBuffers'
    BY <1>5 DEF Mpi!SendReturns, Mpi!Goto, Mpi!Other, Mpi!mpi, LoopInv, MpiTypeOK, MpiBuffers,
       Procs
  <2>6. MpiPlays
    BY <1>1, <1>5, <2>1 DEF Mpi!SendReturns, Mpi!Goto, Mpi!Other, Mpi!mpi, MpiTypeOK,
       MpiMessages, MpiPlays, Plays, MpiAsked, MpiHeard, MpiAnswered, MpiSeen
  <2> QED
    BY <2>2, <2>3, <2>4, <2>5, <2>6
<1>6. CASE Mpi!Recv("parent", "end")
  <2>1. /\ MpiSeen' = MpiSeen + 1 /\ MpiAsked' = MpiAsked
        /\ MpiHeard' = MpiHeard /\ MpiAnswered' = MpiAnswered
    BY <1>1, <1>6 DEF Mpi!Recv, Mpi!Goto, LoopInv, MpiTypeOK, MpiLoop, MpiAsked, MpiHeard,
       MpiAnswered, MpiSeen, Procs
  <2>2. /\ channel["parent"] = <<MpiAnswered>>
        /\ MpiSeen + 1 = MpiAnswered /\ MpiAnswered = iter["parent"] + 1
    BY <1>1, <1>6 DEF Mpi!Recv, MpiTypeOK, MpiMessages, MpiAsked, MpiHeard, MpiAnswered, MpiSeen
  <2>3. /\ channel' = [channel EXCEPT !["parent"] = <<>>]
        /\ recv_buffer' = [recv_buffer EXCEPT !["parent"] = iter["parent"] + 1]
    BY <1>6, <2>2 DEF Mpi!Recv
  <2>4. LoopInv' /\ MpiLoop'
    BY <1>6 DEF Mpi!Recv, Mpi!Goto, LoopInv, MpiTypeOK, MpiLoop, Labels, Procs
  <2>5. MpiTypeOK'
    BY <1>1, <1>6, <2>2, <2>3 DEF Mpi!Recv, Mpi!Goto, LoopInv, MpiTypeOK, MpiLoop, Procs
  <2>6. MpiSync'
    <3>1. \A q \in Procs : Returned(q)' = Returned(q)
      BY <1>1, <1>6 DEF Mpi!Recv, Mpi!Goto, LoopInv, MpiLoop, Returned, Procs
    <3>2. arrived["parent"] = passed["parent"] /\ UNCHANGED <<arrived, passed>>
      BY <1>6 DEF Mpi!Recv, Mpi!Goto, MpiSync, Procs
    <3> QED
      BY <1>6, <3>1, <3>2, MpiGoesOn DEF Mpi!Recv, Mpi!Goto, LoopInv, Procs
  <2>7. MpiMessages'
    BY <2>1, <2>2, <2>3 DEF MpiTypeOK, MpiMessages, Procs
  <2>8. MpiBuffers'
    BY <1>6, <2>3 DEF Mpi!Recv, Mpi!Goto, LoopInv, MpiTypeOK, MpiBuffers, Procs
  <2>9. MpiPlays
    BY <1>1, <1>6, <2>1 DEF Mpi!Recv, Mpi!Goto, MpiTypeOK, MpiMessages, MpiPlays, Plays,
       MpiAsked, MpiHeard, MpiAnswered, MpiSeen
  <2> QED
    BY <2>4, <2>5, <2>6, <2>7, <2>8, <2>9
<1>7. CASE Mpi!Barrier("parent", "end", "verify")
  <2>1. /\ MpiAsked' = MpiAsked /\ MpiHeard' = MpiHeard
        /\ MpiAnswered' = MpiAnswered /\ MpiSeen' = MpiSeen
    BY <1>1, <1>7 DEF Mpi!Barrier, Mpi!Goto, Mpi!B!Arrive, Mpi!B!Pass, LoopInv, MpiTypeOK,
       MpiLoop, MpiAsked, MpiHeard, MpiAnswered, MpiSeen, Procs
  <2>2. LoopInv' /\ MpiTypeOK' /\ MpiLoop'
    <3>1. /\ arrived' \in [Procs -> Nat] /\ passed' \in [Procs -> Nat]
          /\ UNCHANGED <<iter, turn, channel, recv_buffer>>
      BY <1>7, MpiBarrierCounts DEF Procs
    <3>2. pc' = pc \/ pc' = [pc EXCEPT !["parent"] = "verify"]
      BY <1>7 DEF Mpi!Barrier, Mpi!Goto
    <3>3. pc["parent"] = "end"
      BY <1>7 DEF Mpi!Barrier
    <3>4. LoopInv'
      BY <3>1, <3>2 DEF LoopInv, Labels
    <3>5. MpiTypeOK'
      BY <3>1, <3>2 DEF LoopInv, MpiTypeOK, Procs
    <3>6. MpiLoop'
      BY <3>1, <3>2, <3>3 DEF LoopInv, MpiLoop, Procs
    <3> QED
      BY <3>4, <3>5, <3>6
  <2>3. MpiSync'
    <3>1. CASE Mpi!B!Arrive("parent") /\ UNCHANGED pc
      BY <1>7, <3>1, MpiArrives DEF Mpi!Barrier, Procs
    <3>2. CASE Mpi!B!Pass("parent") /\ Mpi!Goto("parent", "verify")
      <4>1. \A q \in Procs : Returned(q)' = IF q = "parent" THEN Returned(q) + 1 ELSE Returned(q)
        BY <1>1, <1>7, <3>2 DEF Mpi!Barrier, Mpi!Goto, LoopInv, MpiLoop, Returned, Procs
      <4> QED
        BY <3>2, <4>1, MpiPasses DEF Mpi!Goto, LoopInv, Procs
    <3> QED
      BY <1>7, <3>1, <3>2 DEF Mpi!Barrier
  <2>4. MpiMessages'
    BY <1>7, <2>1 DEF Mpi!Barrier, Mpi!Goto, Mpi!B!Arrive, Mpi!B!Pass, MpiMessages
  <2>5. MpiBuffers'
    BY <1>7 DEF Mpi!Barrier, Mpi!Goto, Mpi!B!Arrive, Mpi!B!Pass, LoopInv, MpiTypeOK,
       MpiBuffers, Procs
  <2>6. MpiPlays
    BY <1>1, <1>7, <2>1 DEF Mpi!Barrier, Mpi!Goto, Mpi!B!Arrive, Mpi!B!Pass, MpiTypeOK,
       MpiMessages, MpiPlays, Plays, MpiAsked, MpiHeard, MpiAnswered, MpiSeen
  <2> QED
    BY <2>2, <2>3, <2>4, <2>5, <2>6
<1>8. CASE Mpi!Verify("parent", "done")
  <2>1. /\ MpiAsked' = MpiAsked /\ MpiHeard' = MpiHeard
        /\ MpiAnswered' = MpiAnswered /\ MpiSeen' = MpiSeen
    BY <1>1, <1>8 DEF Mpi!Verify, Mpi!EndIteration, Mpi!Goto, Mpi!mpi, LoopInv, MpiTypeOK,
       MpiLoop, MpiAsked, MpiHeard, MpiAnswered, MpiSeen, Procs
  <2>2. LoopInv' /\ MpiTypeOK' /\ MpiLoop'
    BY <1>8 DEF Mpi!Verify, Mpi!EndIteration, Mpi!Goto, Mpi!mpi, LoopInv, MpiTypeOK, MpiLoop,
       Labels, Procs
  <2>3. MpiSync'
    <3>1. \A q \in Procs : Returned(q)' = Returned(q)
      BY <1>1, <1>8 DEF Mpi!Verify, Mpi!EndIteration, Mpi!Goto, Mpi!mpi, LoopInv, MpiLoop,
         Returned, Procs
    <3>2. arrived["parent"] = passed["parent"] /\ UNCHANGED <<arrived, passed>>
      BY <1>8 DEF Mpi!Verify, Mpi!EndIteration, Mpi!Goto, Mpi!mpi, MpiSync, Procs
    <3> QED
      BY <1>8, <3>1, <3>2, MpiGoesOn DEF Mpi!Verify, Mpi!EndIteration, Mpi!Goto, Mpi!mpi,
         LoopInv, Procs
  <2>4. MpiMessages'
    BY <1>8, <2>1 DEF Mpi!Verify, Mpi!EndIteration, Mpi!Goto, Mpi!mpi, MpiMessages
  <2>5. MpiBuffers'
    BY <1>8 DEF Mpi!Verify, Mpi!EndIteration, Mpi!Goto, Mpi!mpi, LoopInv, MpiTypeOK,
       MpiBuffers, Procs
  <2>6. MpiPlays
    BY <1>1, <1>8, <2>1 DEF Mpi!Verify, Mpi!EndIteration, Mpi!Goto, Mpi!mpi, MpiTypeOK,
       MpiMessages, MpiPlays, Plays, MpiAsked, MpiHeard, MpiAnswered, MpiSeen
  <2> QED
    BY <2>2, <2>3, <2>4, <2>5, <2>6
<1>9. CASE Mpi!Barrier("child", "ready", "begin")
  <2>1. /\ MpiAsked' = MpiAsked /\ MpiHeard' = MpiHeard
        /\ MpiAnswered' = MpiAnswered /\ MpiSeen' = MpiSeen
    BY <1>1, <1>9 DEF Mpi!Barrier, Mpi!Goto, Mpi!B!Arrive, Mpi!B!Pass, LoopInv, MpiTypeOK,
       MpiLoop, MpiAsked, MpiHeard, MpiAnswered, MpiSeen, Procs
  <2>2. LoopInv' /\ MpiTypeOK' /\ MpiLoop'
    <3>1. /\ arrived' \in [Procs -> Nat] /\ passed' \in [Procs -> Nat]
          /\ UNCHANGED <<iter, turn, channel, recv_buffer>>
      BY <1>9, MpiBarrierCounts DEF Procs
    <3>2. pc' = pc \/ pc' = [pc EXCEPT !["child"] = "begin"]
      BY <1>9 DEF Mpi!Barrier, Mpi!Goto
    <3>3. pc["child"] = "ready"
      BY <1>9 DEF Mpi!Barrier
    <3>4. LoopInv'
      BY <3>1, <3>2 DEF LoopInv, Labels
    <3>5. MpiTypeOK'
      BY <3>1, <3>2 DEF LoopInv, MpiTypeOK, Procs
    <3>6. MpiLoop'
      BY <3>1, <3>2, <3>3 DEF LoopInv, MpiLoop, Procs
    <3> QED
      BY <3>4, <3>5, <3>6
  <2>3. MpiSync'
    <3>1. CASE Mpi!B!Arrive("child") /\ UNCHANGED pc
      BY <1>9, <3>1, MpiArrives DEF Mpi!Barrier, Procs
    <3>2. CASE Mpi!B!Pass("child") /\ Mpi!Goto("child", "begin")
      <4>1. \A q \in Procs : Returned(q)' = IF q = "child" THEN Returned(q) + 1 ELSE Returned(q)
        BY <1>1, <1>9, <3>2 DEF Mpi!Barrier, Mpi!Goto, LoopInv, MpiLoop, Returned, Procs
      <4> QED
        BY <3>2, <4>1, MpiPasses DEF Mpi!Goto, LoopInv, Procs
    <3> QED
      BY <1>9, <3>1, <3>2 DEF Mpi!Barrier
  <2>4. MpiMessages'
    BY <1>9, <2>1 DEF Mpi!Barrier, Mpi!Goto, Mpi!B!Arrive, Mpi!B!Pass, MpiMessages
  <2>5. MpiBuffers'
    BY <1>9 DEF Mpi!Barrier, Mpi!Goto, Mpi!B!Arrive, Mpi!B!Pass, LoopInv, MpiTypeOK,
       MpiBuffers, Procs
  <2>6. MpiPlays
    BY <1>1, <1>9, <2>1 DEF Mpi!Barrier, Mpi!Goto, Mpi!B!Arrive, Mpi!B!Pass, MpiTypeOK,
       MpiMessages, MpiPlays, Plays, MpiAsked, MpiHeard, MpiAnswered, MpiSeen
  <2> QED
    BY <2>2, <2>3, <2>4, <2>5, <2>6
<1>10. CASE Mpi!Barrier("child", "begin", "recv")
  <2>1. /\ MpiAsked' = MpiAsked /\ MpiHeard' = MpiHeard
        /\ MpiAnswered' = MpiAnswered /\ MpiSeen' = MpiSeen
    BY <1>1, <1>10 DEF Mpi!Barrier, Mpi!Goto, Mpi!B!Arrive, Mpi!B!Pass, LoopInv, MpiTypeOK,
       MpiLoop, MpiAsked, MpiHeard, MpiAnswered, MpiSeen, Procs
  <2>2. LoopInv' /\ MpiTypeOK' /\ MpiLoop'
    <3>1. /\ arrived' \in [Procs -> Nat] /\ passed' \in [Procs -> Nat]
          /\ UNCHANGED <<iter, turn, channel, recv_buffer>>
      BY <1>10, MpiBarrierCounts DEF Procs
    <3>2. pc' = pc \/ pc' = [pc EXCEPT !["child"] = "recv"]
      BY <1>10 DEF Mpi!Barrier, Mpi!Goto
    <3>3. pc["child"] = "begin"
      BY <1>10 DEF Mpi!Barrier
    <3>4. LoopInv'
      BY <3>1, <3>2 DEF LoopInv, Labels
    <3>5. MpiTypeOK'
      BY <3>1, <3>2 DEF LoopInv, MpiTypeOK, Procs
    <3>6. MpiLoop'
      BY <3>1, <3>2, <3>3 DEF LoopInv, MpiLoop, Procs
    <3> QED
      BY <3>4, <3>5, <3>6
  <2>3. MpiSync'
    <3>1. CASE Mpi!B!Arrive("child") /\ UNCHANGED pc
      BY <1>10, <3>1, MpiArrives DEF Mpi!Barrier, Procs
    <3>2. CASE Mpi!B!Pass("child") /\ Mpi!Goto("child", "recv")
      <4>1. \A q \in Procs : Returned(q)' = IF q = "child" THEN Returned(q) + 1 ELSE Returned(q)
        BY <1>1, <1>10, <3>2 DEF Mpi!Barrier, Mpi!Goto, LoopInv, MpiLoop, Returned, Procs
      <4> QED
        BY <3>2, <4>1, MpiPasses DEF Mpi!Goto, LoopInv, Procs
    <3> QED
      BY <1>10, <3>1, <3>2 DEF Mpi!Barrier
  <2>4. MpiMessages'
    BY <1>10, <2>1 DEF Mpi!Barrier, Mpi!Goto, Mpi!B!Arrive, Mpi!B!Pass, MpiMessages
  <2>5. MpiBuffers'
    BY <1>10 DEF Mpi!Barrier, Mpi!Goto, Mpi!B!Arrive, Mpi!B!Pass, LoopInv, MpiTypeOK,
       MpiBuffers, Procs
  <2>6. MpiPlays
    BY <1>1, <1>10, <2>1 DEF Mpi!Barrier, Mpi!Goto, Mpi!B!Arrive, Mpi!B!Pass, MpiTypeOK,
       MpiMessages, MpiPlays, Plays, MpiAsked, MpiHeard, MpiAnswered, MpiSeen
  <2> QED
    BY <2>2, <2>3, <2>4, <2>5, <2>6
<1>11. CASE Mpi!Recv("child", "send")
  <2>1. /\ MpiHeard' = MpiHeard + 1 /\ MpiAsked' = MpiAsked
        /\ MpiAnswered' = MpiAnswered /\ MpiSeen' = MpiSeen
    BY <1>1, <1>11 DEF Mpi!Recv, Mpi!Goto, LoopInv, MpiTypeOK, MpiLoop, MpiAsked, MpiHeard,
       MpiAnswered, MpiSeen, Procs
  <2>2. channel["child"] = <<MpiAsked>> /\ MpiHeard + 1 = MpiAsked /\ MpiAsked = iter["child"] + 1
    BY <1>1, <1>11 DEF Mpi!Recv, MpiTypeOK, MpiMessages, MpiAsked, MpiHeard, MpiAnswered,
       MpiSeen
  <2>3. /\ channel' = [channel EXCEPT !["child"] = <<>>]
        /\ recv_buffer' = [recv_buffer EXCEPT !["child"] = iter["child"] + 1]
    BY <1>11, <2>2 DEF Mpi!Recv
  <2>4. LoopInv' /\ MpiLoop'
    BY <1>11 DEF Mpi!Recv, Mpi!Goto, LoopInv, MpiTypeOK, MpiLoop, Labels, Procs
  <2>5. MpiTypeOK'
    BY <1>1, <1>11, <2>2, <2>3 DEF Mpi!Recv, Mpi!Goto, LoopInv, MpiTypeOK, MpiLoop, Procs
  <2>6. MpiSync'
    <3>1. \A q \in Procs : Returned(q)' = Returned(q)
      BY <1>1, <1>11 DEF Mpi!Recv, Mpi!Goto, LoopInv, MpiLoop, Returned, Procs
    <3>2. arrived["child"] = passed["child"] /\ UNCHANGED <<arrived, passed>>
      BY <1>11 DEF Mpi!Recv, Mpi!Goto, MpiSync, Procs
    <3> QED
      BY <1>11, <3>1, <3>2, MpiGoesOn DEF Mpi!Recv, Mpi!Goto, LoopInv, Procs
  <2>7. MpiMessages'
    BY <2>1, <2>2, <2>3 DEF MpiTypeOK, MpiMessages, Procs
  <2>8. MpiBuffers'
    BY <1>11, <2>3 DEF Mpi!Recv, Mpi!Goto, LoopInv, MpiTypeOK, MpiBuffers, Procs
  <2>9. MpiPlays
    BY <1>1, <1>11, <2>1 DEF Mpi!Recv, Mpi!Goto, MpiTypeOK, MpiMessages, MpiPlays, Plays,
       MpiAsked, MpiHeard, MpiAnswered, MpiSeen
  <2> QED
    BY <2>4, <2>5, <2>6, <2>7, <2>8, <2>9
<1>12. CASE Mpi!Send("child", "end")
  <2>1. /\ MpiAnswered' = MpiAnswered + 1 /\ MpiAsked' = MpiAsked
        /\ MpiHeard' = MpiHeard /\ MpiSeen' = MpiSeen
    BY <1>1, <1>12 DEF Mpi!Send, Mpi!Goto, Mpi!Other, LoopInv, MpiTypeOK, MpiLoop, MpiAsked,
       MpiHeard, MpiAnswered, MpiSeen, Procs
  <2>2. channel["parent"] = <<>> /\ MpiSeen = MpiAnswered /\ iter["child"] + 1 = MpiAnswered + 1
    BY <1>1, <1>12 DEF Mpi!Send, MpiTypeOK, MpiMessages, MpiAsked, MpiHeard, MpiAnswered,
       MpiSeen
  <2>3. channel' = [channel EXCEPT !["parent"] = <<MpiAnswered + 1>>]
    <3>1. Append(channel["parent"], iter["child"] + 1) = <<MpiAnswered + 1>>
      BY <2>2
    <3> QED
      BY <1>12, <3>1 DEF Mpi!Send, Mpi!Other
  <2>4. LoopInv' /\ MpiLoop'
    BY <1>12 DEF Mpi!Send, Mpi!Goto, Mpi!Other, LoopInv, MpiTypeOK, MpiLoop, Labels, Procs
  <2>5. MpiTypeOK'
    <3>1. MpiAnswered + 1 \in Nat
      BY <1>1, <2>2
    <3>2. <<MpiAnswered + 1>> \in Seq(Nat)
      BY <3>1
    <3>3. channel' \in [Procs -> Seq(Nat)]
      BY <2>3, <3>2 DEF MpiTypeOK
    <3>4. /\ pc' = [pc EXCEPT !["child"] = "end"] \/ pc' = [pc EXCEPT !["child"] = "sending"]
          /\ UNCHANGED <<arrived, passed, recv_buffer>>
      BY <1>12 DEF Mpi!Send, Mpi!Goto
    <3> QED
      BY <3>3, <3>4 DEF LoopInv, MpiTypeOK, Procs
  <2>6. MpiSync'
    <3>1. \A q \in Procs : Returned(q)' = Returned(q)
      BY <1>1, <1>12 DEF Mpi!Send, Mpi!Goto, Mpi!Other, LoopInv, MpiLoop, Returned, Procs
    <3>2. arrived["child"] = passed["child"] /\ UNCHANGED <<arrived, passed>>
      BY <1>12 DEF Mpi!Send, Mpi!Goto, Mpi!Other, MpiSync, Procs
    <3> QED
      BY <1>12, <3>1, <3>2, MpiGoesOn DEF Mpi!Send, Mpi!Goto, Mpi!Other, LoopInv, Procs
  <2>7. MpiMessages'
    BY <2>1, <2>2, <2>3 DEF MpiTypeOK, MpiMessages, Procs
  <2>8. MpiBuffers'
    BY <1>12 DEF Mpi!Send, Mpi!Goto, Mpi!Other, LoopInv, MpiTypeOK, MpiBuffers, Procs
  <2>9. MpiPlays
    BY <1>1, <1>12, <2>1 DEF Mpi!Send, Mpi!Goto, Mpi!Other, MpiTypeOK, MpiMessages, MpiPlays,
       Plays, MpiAsked, MpiHeard, MpiAnswered, MpiSeen
  <2> QED
    BY <2>4, <2>5, <2>6, <2>7, <2>8, <2>9
<1>13. CASE Mpi!SendReturns("child", "end")
  <2>1. /\ MpiAsked' = MpiAsked /\ MpiHeard' = MpiHeard
        /\ MpiAnswered' = MpiAnswered /\ MpiSeen' = MpiSeen
    BY <1>1, <1>13 DEF Mpi!SendReturns, Mpi!Goto, Mpi!Other, Mpi!mpi, LoopInv, MpiTypeOK,
       MpiLoop, MpiAsked, MpiHeard, MpiAnswered, MpiSeen, Procs
  <2>2. LoopInv' /\ MpiTypeOK' /\ MpiLoop'
    BY <1>13 DEF Mpi!SendReturns, Mpi!Goto, Mpi!Other, Mpi!mpi, LoopInv, MpiTypeOK, MpiLoop,
       Labels, Procs
  <2>3. MpiSync'
    <3>1. \A q \in Procs : Returned(q)' = Returned(q)
      BY <1>1, <1>13 DEF Mpi!SendReturns, Mpi!Goto, Mpi!Other, Mpi!mpi, LoopInv, MpiLoop,
         Returned, Procs
    <3>2. arrived["child"] = passed["child"] /\ UNCHANGED <<arrived, passed>>
      BY <1>13 DEF Mpi!SendReturns, Mpi!Goto, Mpi!Other, Mpi!mpi, MpiSync, Procs
    <3> QED
      BY <1>13, <3>1, <3>2, MpiGoesOn DEF Mpi!SendReturns, Mpi!Goto, Mpi!Other, Mpi!mpi,
         LoopInv, Procs
  <2>4. MpiMessages'
    BY <1>13, <2>1 DEF Mpi!SendReturns, Mpi!Goto, Mpi!Other, Mpi!mpi, MpiMessages
  <2>5. MpiBuffers'
    BY <1>13 DEF Mpi!SendReturns, Mpi!Goto, Mpi!Other, Mpi!mpi, LoopInv, MpiTypeOK,
       MpiBuffers, Procs
  <2>6. MpiPlays
    BY <1>1, <1>13, <2>1 DEF Mpi!SendReturns, Mpi!Goto, Mpi!Other, Mpi!mpi, MpiTypeOK,
       MpiMessages, MpiPlays, Plays, MpiAsked, MpiHeard, MpiAnswered, MpiSeen
  <2> QED
    BY <2>2, <2>3, <2>4, <2>5, <2>6
<1>14. CASE Mpi!Barrier("child", "end", "verify")
  <2>1. /\ MpiAsked' = MpiAsked /\ MpiHeard' = MpiHeard
        /\ MpiAnswered' = MpiAnswered /\ MpiSeen' = MpiSeen
    BY <1>1, <1>14 DEF Mpi!Barrier, Mpi!Goto, Mpi!B!Arrive, Mpi!B!Pass, LoopInv, MpiTypeOK,
       MpiLoop, MpiAsked, MpiHeard, MpiAnswered, MpiSeen, Procs
  <2>2. LoopInv' /\ MpiTypeOK' /\ MpiLoop'
    <3>1. /\ arrived' \in [Procs -> Nat] /\ passed' \in [Procs -> Nat]
          /\ UNCHANGED <<iter, turn, channel, recv_buffer>>
      BY <1>14, MpiBarrierCounts DEF Procs
    <3>2. pc' = pc \/ pc' = [pc EXCEPT !["child"] = "verify"]
      BY <1>14 DEF Mpi!Barrier, Mpi!Goto
    <3>3. pc["child"] = "end"
      BY <1>14 DEF Mpi!Barrier
    <3>4. LoopInv'
      BY <3>1, <3>2 DEF LoopInv, Labels
    <3>5. MpiTypeOK'
      BY <3>1, <3>2 DEF LoopInv, MpiTypeOK, Procs
    <3>6. MpiLoop'
      BY <3>1, <3>2, <3>3 DEF LoopInv, MpiLoop, Procs
    <3> QED
      BY <3>4, <3>5, <3>6
  <2>3. MpiSync'
    <3>1. CASE Mpi!B!Arrive("child") /\ UNCHANGED pc
      BY <1>14, <3>1, MpiArrives DEF Mpi!Barrier, Procs
    <3>2. CASE Mpi!B!Pass("child") /\ Mpi!Goto("child", "verify")
      <4>1. \A q \in Procs : Returned(q)' = IF q = "child" THEN Returned(q) + 1 ELSE Returned(q)
        BY <1>1, <1>14, <3>2 DEF Mpi!Barrier, Mpi!Goto, LoopInv, MpiLoop, Returned, Procs
      <4> QED
        BY <3>2, <4>1, MpiPasses DEF Mpi!Goto, LoopInv, Procs
    <3> QED
      BY <1>14, <3>1, <3>2 DEF Mpi!Barrier
  <2>4. MpiMessages'
    BY <1>14, <2>1 DEF Mpi!Barrier, Mpi!Goto, Mpi!B!Arrive, Mpi!B!Pass, MpiMessages
  <2>5. MpiBuffers'
    BY <1>14 DEF Mpi!Barrier, Mpi!Goto, Mpi!B!Arrive, Mpi!B!Pass, LoopInv, MpiTypeOK,
       MpiBuffers, Procs
  <2>6. MpiPlays
    BY <1>1, <1>14, <2>1 DEF Mpi!Barrier, Mpi!Goto, Mpi!B!Arrive, Mpi!B!Pass, MpiTypeOK,
       MpiMessages, MpiPlays, Plays, MpiAsked, MpiHeard, MpiAnswered, MpiSeen
  <2> QED
    BY <2>2, <2>3, <2>4, <2>5, <2>6
<1>15. CASE Mpi!Verify("child", "exit")
  <2>1. /\ MpiAsked' = MpiAsked /\ MpiHeard' = MpiHeard
        /\ MpiAnswered' = MpiAnswered /\ MpiSeen' = MpiSeen
    BY <1>1, <1>15 DEF Mpi!Verify, Mpi!EndIteration, Mpi!Goto, Mpi!mpi, LoopInv, MpiTypeOK,
       MpiLoop, MpiAsked, MpiHeard, MpiAnswered, MpiSeen, Procs
  <2>2. LoopInv' /\ MpiTypeOK' /\ MpiLoop'
    BY <1>15 DEF Mpi!Verify, Mpi!EndIteration, Mpi!Goto, Mpi!mpi, LoopInv, MpiTypeOK, MpiLoop,
       Labels, Procs
  <2>3. MpiSync'
    <3>1. \A q \in Procs : Returned(q)' = Returned(q)
      BY <1>1, <1>15 DEF Mpi!Verify, Mpi!EndIteration, Mpi!Goto, Mpi!mpi, LoopInv, MpiLoop,
         Returned, Procs
    <3>2. arrived["child"] = passed["child"] /\ UNCHANGED <<arrived, passed>>
      BY <1>15 DEF Mpi!Verify, Mpi!EndIteration, Mpi!Goto, Mpi!mpi, MpiSync, Procs
    <3> QED
      BY <1>15, <3>1, <3>2, MpiGoesOn DEF Mpi!Verify, Mpi!EndIteration, Mpi!Goto, Mpi!mpi,
         LoopInv, Procs
  <2>4. MpiMessages'
    BY <1>15, <2>1 DEF Mpi!Verify, Mpi!EndIteration, Mpi!Goto, Mpi!mpi, MpiMessages
  <2>5. MpiBuffers'
    BY <1>15 DEF Mpi!Verify, Mpi!EndIteration, Mpi!Goto, Mpi!mpi, LoopInv, MpiTypeOK,
       MpiBuffers, Procs
  <2>6. MpiPlays
    BY <1>1, <1>15, <2>1 DEF Mpi!Verify, Mpi!EndIteration, Mpi!Goto, Mpi!mpi, MpiTypeOK,
       MpiMessages, MpiPlays, Plays, MpiAsked, MpiHeard, MpiAnswered, MpiSeen
  <2> QED
    BY <2>2, <2>3, <2>4, <2>5, <2>6
<1> QED
  BY <1>2, <1>3, <1>4, <1>5, <1>6, <1>7, <1>8, <1>9, <1>10, <1>11, <1>12, <1>13, <1>14, <1>15
     DEF Mpi!Parent, Mpi!Child
-----------------------------------------------------------------------------
Types == {"atomic", "atomic_rel_acq", "condition_variable", "semaphore", "mpi"}

(***************************************************************************)
(* The inductive invariant: that of the benchmark picked.                  *)
(***************************************************************************)
IInv == /\ type \in Types
        /\ type \in {"atomic", "atomic_rel_acq"} => AtomicInv
        /\ type = "condition_variable" => CondInv /\ CondWakes
        /\ type = "semaphore" => SemInv
        /\ type = "mpi" => MpiInv

\* Nothing is sent, stored or posted at first.
LEMMA InitIInv ==
    ASSUME Init
    PROVE  IInv
<1> USE LoopAssumption DEF LoopAssumption
<1>1. CASE type = "atomic" /\ SeqCst!Init
  <2>1. iter = [p \in Procs |-> 0] /\ turn = [p \in Procs |-> 0]
    BY <1>1 DEF SeqCst!Init, SeqCst!LoopInit, SeqCst!Procs, Procs
  <2>2. \A p \in Procs : Turns(p) = 0
    BY <2>1, TurnsAtFirst
  <2>3. LoopInv /\ AtomicTypeOK /\ ThreadLoop
    BY <1>1, <2>1 DEF SeqCst!Init, SeqCst!Procs, Procs, Labels, LoopInv, AtomicTypeOK,
       ThreadLoop
  <2>4. AtomicFlags /\ AtomicCounts
    BY <1>1, <2>2 DEF SeqCst!Init, SeqCst!Procs, Procs, AtomicFlags, LastStore, AtomicCounts,
       AtomicAsked, AtomicHeard, AtomicAnswered, AtomicSeen, Invisible
  <2> QED
    BY <1>1, <2>3, <2>4 DEF IInv, Types, AtomicInv
<1>2. CASE type = "atomic_rel_acq" /\ RelAcq!Init
  <2>1. iter = [p \in Procs |-> 0] /\ turn = [p \in Procs |-> 0]
    BY <1>2 DEF RelAcq!Init, RelAcq!LoopInit, RelAcq!Procs, Procs
  <2>2. \A p \in Procs : Turns(p) = 0
    BY <2>1, TurnsAtFirst
  <2>3. LoopInv /\ AtomicTypeOK /\ ThreadLoop
    BY <1>2, <2>1 DEF RelAcq!Init, RelAcq!Procs, Procs, Labels, LoopInv, AtomicTypeOK,
       ThreadLoop
  <2>4. AtomicFlags /\ AtomicCounts
    BY <1>2, <2>2 DEF RelAcq!Init, RelAcq!Procs, Procs, AtomicFlags, LastStore, AtomicCounts,
       AtomicAsked, AtomicHeard, AtomicAnswered, AtomicSeen, Invisible
  <2> QED
    BY <1>2, <2>3, <2>4 DEF IInv, Types, AtomicInv
<1>3. CASE type = "condition_variable" /\ Cond!Init
  <2>1. iter = [p \in Procs |-> 0] /\ turn = [p \in Procs |-> 0]
    BY <1>3 DEF Cond!Init, Cond!LoopInit, Cond!Procs, Procs
  <2>2. \A p \in Procs : Turns(p) = 0
    BY <2>1, TurnsAtFirst
  <2>3. LoopInv /\ CondTypeOK /\ ThreadLoop
    BY <1>3, <2>1 DEF Cond!Init, Cond!Procs, Procs, Labels, LoopInv, CondTypeOK, CondLines,
       ThreadLoop
  <2>4. CondOwners /\ CondWakes /\ CondCounts
    BY <1>3, <2>2 DEF Cond!Init, Cond!Procs, Procs, CondOwners, CondWakes, Inside, CondCounts,
       CondAsked, CondHeard, CondAnswered, CondSeen, Up
  <2> QED
    BY <1>3, <2>3, <2>4 DEF IInv, Types, CondInv
<1>4. CASE type = "semaphore" /\ Sem!Init
  <2>1. iter = [p \in Procs |-> 0] /\ turn = [p \in Procs |-> 0]
    BY <1>4 DEF Sem!Init, Sem!LoopInit, Sem!Procs, Procs
  <2>2. \A p \in Procs : Turns(p) = 0
    BY <2>1, TurnsAtFirst
  <2>3. LoopInv
    BY <1>4, <2>1 DEF Sem!Init, Procs, Labels, LoopInv
  <2>6. SemTypeOK
    BY <1>4, <2>1 DEF Sem!Init, Sem!Procs, Procs, SemTypeOK
  <2>5. SemLoop
    BY <1>4, <2>1 DEF Sem!Init, Sem!Procs, Procs, SemLoop
  <2>4. SemCounts
    BY <1>4, <2>2 DEF Sem!Init, Sem!Procs, Procs, SemCounts, SemHeard, SemAsked
  <2> QED
    BY <1>4, <2>3, <2>4, <2>5, <2>6 DEF IInv, Types, SemInv
<1>5. CASE type = "mpi" /\ Mpi!Init
  <2>1. iter = [p \in Procs |-> 0] /\ turn = [p \in Procs |-> 0]
    BY <1>5 DEF Mpi!Init, Mpi!LoopInit, Mpi!Procs, Procs
  <2>2. LoopInv /\ MpiTypeOK /\ MpiLoop
    BY <1>5, <2>1 DEF Mpi!Init, Mpi!B!Init, Mpi!Procs, Procs, Labels, LoopInv, MpiTypeOK,
       MpiLoop
  <2>3. MpiSync
    BY <1>5, <2>1 DEF Mpi!Init, Mpi!B!Init, Mpi!Procs, Procs, MpiSync, Returned
  <2>4. MpiMessages /\ MpiBuffers
    BY <1>5, <2>1 DEF Mpi!Init, Mpi!Procs, Procs, MpiMessages, MpiBuffers, MpiAsked, MpiHeard,
       MpiAnswered, MpiSeen
  <2> QED
    BY <1>5, <2>2, <2>3, <2>4 DEF IInv, Types, MpiInv
<1> QED
  BY <1>1, <1>2, <1>3, <1>4, <1>5 DEF Init

\* A step of the program is one of the benchmark picked, and the invariants and
\* the step of PingPong follow.
Moved == /\ type \in {"atomic", "atomic_rel_acq"} => AtomicInv' /\ AtomicPlays
         /\ type = "condition_variable" => CondInv' /\ CondWakes' /\ CondPlays
         /\ type = "semaphore" => SemInv' /\ SemPlays
         /\ type = "mpi" => MpiInv' /\ MpiPlays

\* Every step of the program does that.
LEMMA StepMoves ==
    ASSUME IInv, Parent \/ Child \/ Visible \/ Spurious
    PROVE  Moved /\ UNCHANGED type
<1>1. UNCHANGED type
  BY DEF Parent, Child, Visible, Spurious
<1>2. CASE type = "atomic"
  <2>1. AtomicStep
    BY <1>2, SeqCstSteps DEF Parent, Child, Visible, Spurious
  <2> QED
    BY <1>1, <1>2, <2>1, AtomicNext DEF IInv, Moved
<1>3. CASE type = "atomic_rel_acq"
  <2>1. AtomicStep \/ RelAcq!Memory
    BY <1>3, RelAcqSteps DEF Parent, Child, Visible, Spurious
  <2> QED
    BY <1>1, <1>3, <2>1, AtomicNext, FlushNext DEF IInv, Moved
<1>4. CASE type = "condition_variable"
  <2>1. Cond!Parent \/ Cond!Child \/ Cond!Memory
    BY <1>4 DEF Parent, Child, Visible, Spurious
  <2>2. CondInv' /\ CondPlays
    BY <1>4, <2>1, CondNext DEF IInv
  <2>3. CondWakes'
    BY <1>4, <2>1, CondWakesNext DEF IInv
  <2> QED
    BY <1>1, <1>4, <2>2, <2>3 DEF Moved
<1>5. CASE type = "semaphore"
  <2>1. Sem!Parent \/ Sem!Child
    BY <1>5 DEF Parent, Child, Visible, Spurious
  <2>2. SemInv' /\ SemPlays
    BY <1>5, <2>1, SemNext DEF IInv
  <2> QED
    BY <1>1, <1>5, <2>2 DEF Moved
<1>6. CASE type = "mpi"
  <2>1. Mpi!Parent \/ Mpi!Child
    BY <1>6 DEF Parent, Child, Visible, Spurious
  <2>2. MpiInv' /\ MpiPlays
    BY <1>6, <2>1, MpiNext DEF IInv
  <2> QED
    BY <1>1, <1>6, <2>2 DEF Moved
<1> QED
  BY <1>1, <1>2, <1>3, <1>4, <1>5, <1>6 DEF IInv, Types

(***************************************************************************)
(* The invariant holds in every state that the latency benchmarks reach.   *)
(***************************************************************************)
THEOREM Invariance == Spec => []IInv
<1>1. Init => IInv
  BY InitIInv
<1>2. IInv /\ [Next]_vars => IInv'
  <2> SUFFICES ASSUME IInv, [Next]_vars
               PROVE  IInv'
    OBVIOUS
  <2>1. CASE Parent \/ Child \/ Visible \/ Spurious
    BY <2>1, StepMoves DEF Moved, IInv
  <2>2. CASE UNCHANGED vars
    <3>1. /\ pc' = pc /\ iter' = iter /\ turn' = turn /\ type' = type
          /\ flag' = flag /\ pending' = pending /\ ready' = ready /\ owner' = owner
          /\ count' = count /\ named' = named /\ arrived' = arrived /\ passed' = passed
          /\ channel' = channel /\ recv_buffer' = recv_buffer
      BY <2>2 DEF vars, loop, atomics, flags, semaphores, mpi
    <3>2. AtomicInv => AtomicInv'
      BY <3>1 DEF AtomicInv, LoopInv, ThreadLoop, AtomicTypeOK, AtomicFlags, AtomicCounts,
         LastStore, Invisible, AtomicAsked, AtomicHeard, AtomicAnswered, AtomicSeen, Turns
    <3>3. (CondInv => CondInv') /\ (CondWakes => CondWakes')
      BY <3>1 DEF CondInv, LoopInv, ThreadLoop, CondTypeOK, CondOwners, CondWakes, CondCounts,
         Inside, Up, CondAsked, CondHeard, CondAnswered, CondSeen, Turns
    <3>4. SemInv => SemInv'
      BY <3>1 DEF SemInv, LoopInv, SemTypeOK, SemLoop, SemCounts, SemAsked, SemHeard, Turns
    <3>5. MpiInv => MpiInv'
      BY <3>1 DEF MpiInv, LoopInv, MpiTypeOK, MpiLoop, MpiSync, MpiMessages, MpiBuffers,
         Returned, MpiAsked, MpiHeard, MpiAnswered, MpiSeen
    <3> QED
      BY <3>1, <3>2, <3>3, <3>4, <3>5 DEF IInv
  <2> QED
    BY <2>1, <2>2 DEF Next, Done
<1> QED
  BY <1>1, <1>2, PTL DEF Spec
-----------------------------------------------------------------------------
\* What the runs check follows from the invariant of each benchmark: the counts
\* bound what is in its channels, and at the end of an iteration they are equal.
LEMMA AtomicFollows ==
    ASSUME AtomicInv
    PROVE  /\ SeqCst!TypeOK /\ RelAcq!TypeOK
           /\ RelAcq!InFlight <= 1
           /\ pc["parent"] \in {"create", "done"} =>
                 pc["child"] \in {"none", "exit"} /\ RelAcq!Quiet
<1> USE DEF AtomicInv
<1>1. \A p \in Procs : Turns(p) \in Nat /\ Invisible(p) \in {0, 1}
  BY TurnsAreNat DEF Invisible
<1>2. \A p \in Procs : Len(pending[p]) = Invisible(p)
  <2>1. Len(<<>>) = 0 /\ Len(<<TRUE>>) = 1 /\ Len(<<FALSE>>) = 1
    OBVIOUS
  <2>2. <<TRUE>> # <<>> /\ <<FALSE>> # <<>>
    OBVIOUS
  <2> QED
    BY <2>1, <2>2 DEF AtomicTypeOK, Invisible
<1>3. {<<>>, <<TRUE>>, <<FALSE>>} \subseteq Seq(BOOLEAN)
  OBVIOUS
<1>4. SeqCst!TypeOK
  BY <1>3 DEF LoopInv, AtomicTypeOK, SeqCst!TypeOK, SeqCst!LoopTypeOK, SeqCst!Procs, Procs
<1>5. RelAcq!TypeOK
  BY <1>3 DEF LoopInv, AtomicTypeOK, RelAcq!TypeOK, RelAcq!LoopTypeOK, RelAcq!Procs, Procs
<1>6. RelAcq!InFlight <= 1
  <2>1. Invisible("parent") + Invisible("child") <= 1
    BY <1>1 DEF AtomicCounts, AtomicAsked, AtomicHeard, AtomicAnswered, AtomicSeen, Procs
  <2> QED
    BY <1>2, <2>1 DEF RelAcq!InFlight, Procs
<1>7. ASSUME pc["parent"] \in {"create", "done"}
      PROVE  pc["child"] \in {"none", "exit"} /\ RelAcq!Quiet
  <2>1. pc["child"] \in {"none", "exit"}
    BY <1>7 DEF ThreadLoop
  <2>2. \A p \in Procs : Invisible(p) = 0
    BY <1>1, <1>7, <2>1 DEF AtomicCounts, AtomicAsked, AtomicHeard, AtomicAnswered,
       AtomicSeen, Procs
  <2>3. \A p \in Procs : LastStore(p) = FALSE
    BY <1>7, <2>1 DEF LastStore, Procs
  <2>4. \A p \in Procs : flag[p] = FALSE
    BY <2>2, <2>3, FlagTells
  <2>5. \A p \in Procs : pending[p] = <<>>
    BY <2>2 DEF Invisible
  <2> QED
    BY <2>1, <2>4, <2>5 DEF AtomicTypeOK, RelAcq!Quiet, RelAcq!Procs, Procs
<1> QED
  BY <1>4, <1>5, <1>6, <1>7

\* For the condition variables.
LEMMA CondFollows ==
    ASSUME CondInv
    PROVE  /\ Cond!TypeOK
           /\ Cond!InFlight <= 1
           /\ pc["parent"] \in {"create", "done"} =>
                 pc["child"] \in {"none", "exit"} /\ Cond!Quiet
<1> USE DEF CondInv
<1>1. \A p \in Procs : Turns(p) \in Nat
  BY TurnsAreNat
<1>2. Cond!TypeOK
  BY DEF LoopInv, CondTypeOK, CondOwners, CondLines, Inside, Cond!TypeOK, Cond!LoopTypeOK,
     Cond!Lines, Cond!Procs, Procs
<1>3. Cond!InFlight <= 1
  BY <1>1 DEF CondCounts, CondAsked, CondHeard, CondAnswered, CondSeen, Up, Cond!InFlight, Procs
<1>4. ASSUME pc["parent"] \in {"create", "done"}
      PROVE  pc["child"] \in {"none", "exit"} /\ Cond!Quiet
  <2>1. pc["child"] \in {"none", "exit"}
    BY <1>4 DEF ThreadLoop
  <2>2. \A p \in Procs : ready[p] = FALSE
    BY <1>1, <1>4, <2>1 DEF CondTypeOK, CondCounts, CondAsked, CondHeard, CondAnswered,
       CondSeen, Up, Procs
  <2>3. \A p \in Procs : owner[p] = "nobody"
    BY <1>4, <2>1 DEF CondTypeOK, CondOwners, Inside, Procs
  <2> QED
    BY <2>1, <2>2, <2>3 DEF CondTypeOK, Cond!Quiet, Cond!Procs, Procs
<1> QED
  BY <1>2, <1>3, <1>4

\* For the semaphores.
LEMMA SemFollows ==
    ASSUME SemInv
    PROVE  /\ Sem!TypeOK
           /\ Sem!InFlight <= 1
           /\ pc["parent"] = "measured" => Sem!Quiet
<1> USE DEF SemInv
<1>1. \A p \in Procs : Turns(p) \in Nat
  BY TurnsAreNat
<1>2. count["parent"] + count["child"] <= 1
  BY <1>1 DEF SemTypeOK, SemCounts, SemAsked, SemHeard, Procs
<1>3. Sem!TypeOK
  <2>1. count \in [Procs -> 0 .. 1]
    BY <1>2 DEF SemTypeOK, Procs
  <2> QED
    BY <2>1 DEF LoopInv, SemTypeOK, Sem!TypeOK, Sem!LoopTypeOK, Sem!Procs, Procs
<1>4. ASSUME pc["parent"] = "measured"
      PROVE  Sem!Quiet
  <2>1. count["parent"] = 0 /\ count["child"] = 0
    BY <1>1, <1>4 DEF SemTypeOK, SemCounts, SemAsked, SemHeard, Procs
  <2> QED
    BY <2>1 DEF SemTypeOK, Sem!Quiet, Sem!Procs, Procs
<1> QED
  BY <1>2, <1>3, <1>4 DEF Sem!InFlight

\* For MPI: a rank verifies after the barrier at the end, which the other has reached.
LEMMA MpiFollows ==
    ASSUME MpiInv
    PROVE  /\ Mpi!TypeOK
           /\ Mpi!InFlight <= 1
           /\ \A p \in Procs : pc[p] = "verify" => Mpi!Quiet(p)
<1> USE DEF MpiInv
<1>1. iter["parent"] \in Nat /\ iter["child"] \in Nat /\ Iterations \in Nat
  BY LoopAssumption DEF LoopAssumption, LoopInv, Procs
<1>2. MpiAsked <= Iterations /\ MpiAnswered <= Iterations
  BY <1>1 DEF MpiTypeOK, MpiLoop, LoopInv, MpiAsked, MpiAnswered, Procs
<1>3. /\ MpiSeen <= MpiAnswered /\ MpiAnswered <= MpiHeard
      /\ MpiHeard <= MpiAsked /\ MpiAsked <= MpiSeen + 1
  BY <1>1 DEF MpiMessages, MpiAsked, MpiHeard, MpiAnswered, MpiSeen
<1>4. MpiAsked \in Nat /\ MpiHeard \in Nat /\ MpiAnswered \in Nat /\ MpiSeen \in Nat
  BY <1>1 DEF MpiAsked, MpiHeard, MpiAnswered, MpiSeen
<1>5. Mpi!TypeOK
  <2> DEFINE Some == {<<i>> : i \in 1 .. Iterations}
  <2>1. channel["child"] = <<>> \/ channel["child"] \in Some
    <3>1. MpiHeard + 1 = MpiAsked => MpiAsked \in 1 .. Iterations
      BY <1>1, <1>2, <1>4
    <3> QED
      BY <3>1 DEF MpiMessages
  <2>2. channel["parent"] = <<>> \/ channel["parent"] \in Some
    <3>1. MpiSeen + 1 = MpiAnswered => MpiAnswered \in 1 .. Iterations
      BY <1>1, <1>2, <1>4
    <3> QED
      BY <3>1 DEF MpiMessages
  <2>3. channel \in [Procs -> {<<>>} \cup Some]
    BY <2>1, <2>2 DEF MpiTypeOK, Procs
  <2> QED
    BY <2>3 DEF LoopInv, MpiTypeOK, Mpi!TypeOK, Mpi!LoopTypeOK, Mpi!Procs, Procs
<1>6. Mpi!InFlight <= 1
  <2>1. Len(<<>>) = 0 /\ \A i \in Nat : Len(<<i>>) = 1
    OBVIOUS
  <2>2. \/ MpiHeard = MpiAsked /\ Len(channel["child"]) = 0
        \/ MpiHeard + 1 = MpiAsked /\ Len(channel["child"]) = 1
    BY <1>4, <2>1 DEF MpiMessages
  <2>3. \/ MpiSeen = MpiAnswered /\ Len(channel["parent"]) = 0
        \/ MpiSeen + 1 = MpiAnswered /\ Len(channel["parent"]) = 1
    BY <1>4, <2>1 DEF MpiMessages
  <2>4. CASE MpiHeard = MpiAsked
    <3>1. Len(channel["child"]) = 0
      BY <1>4, <2>2, <2>4
    <3>2. CASE Len(channel["parent"]) = 0
      BY <3>1, <3>2 DEF Mpi!InFlight
    <3>3. CASE Len(channel["parent"]) = 1
      BY <3>1, <3>3 DEF Mpi!InFlight
    <3> QED
      BY <2>3, <3>2, <3>3
  <2>5. CASE MpiHeard + 1 = MpiAsked
    <3>1. MpiSeen = MpiAnswered
      BY <1>3, <1>4, <2>5
    <3>2. Len(channel["child"]) = 1 /\ Len(channel["parent"]) = 0
      BY <1>4, <2>2, <2>3, <2>5, <3>1
    <3> QED
      BY <3>2 DEF Mpi!InFlight
  <2> QED
    BY <2>2, <2>4, <2>5
<1>7. ASSUME NEW p \in Procs, pc[p] = "verify"
      PROVE  Mpi!Quiet(p)
  <2>1. recv_buffer[p] = iter[p] + 1
    BY <1>7 DEF MpiTypeOK, MpiBuffers, Procs
  <2>2. MpiSeen = MpiAsked
    <3>1. CASE p = "parent"
      BY <1>1, <1>7, <3>1 DEF MpiAsked, MpiSeen
    <3>2. CASE p = "child"
      <4>1. /\ passed["child"] = 2 * iter["child"] + 3 /\ arrived["child"] = passed["child"]
            /\ passed["parent"] = Returned("parent")
            /\ arrived["parent"] \in {passed["parent"], passed["parent"] + 1}
            /\ pc["parent"] \notin {"ready", "begin", "end"} => arrived["parent"] = passed["parent"]
            /\ passed["child"] <= arrived["parent"] /\ passed["parent"] <= arrived["child"]
        BY <1>1, <1>7, <3>2 DEF MpiSync, Returned, Procs
      <4>2. arrived["parent"] \in Nat /\ arrived["child"] \in Nat /\ passed["parent"] \in Nat
        BY DEF MpiTypeOK, Procs
      <4>3. pc["parent"] \notin {"sending", "recv"} \/ MpiSeen >= iter["child"] + 1
        BY <1>1, <4>1, <4>2 DEF Returned, MpiSeen
      <4>4. MpiAnswered = iter["child"] + 1
        BY <1>7, <3>2 DEF MpiAnswered
      <4> QED
        BY <1>1, <1>3, <4>1, <4>2, <4>3, <4>4 DEF Returned, MpiAsked, MpiSeen
    <3> QED
      BY <3>1, <3>2 DEF Procs
  <2>3. MpiHeard = MpiAsked /\ MpiSeen = MpiAnswered
    BY <1>3, <1>4, <2>2
  <2>4. channel["child"] = <<>> /\ channel["parent"] = <<>>
    BY <1>4, <2>3 DEF MpiMessages
  <2> QED
    BY <2>1, <2>4 DEF MpiTypeOK, Mpi!Quiet, Mpi!Procs, Procs
<1> QED
  BY <1>5, <1>6, <1>7

(***************************************************************************)
(* The variables of the benchmark picked keep their types: a semaphore is  *)
(* never above 1, a store buffer and an MPI channel hold at most one value *)
(* of the run.                                                             *)
(***************************************************************************)
THEOREM TypeCorrect == Spec => []TypeOK
<1>1. IInv => TypeOK
  BY AtomicFollows, CondFollows, SemFollows, MpiFollows DEF IInv, TypeOK
<1> QED
  BY <1>1, Invariance, PTL

(***************************************************************************)
(* Nobody aborts: sem_open without O_CREAT finds both names in the parent  *)
(* and in the child, whatever the order of the two after the fork.         *)
(***************************************************************************)
THEOREM NobodyAborts == Spec => [](\A p \in Procs : pc[p] # "aborted")
<1>1. IInv => \A p \in Procs : pc[p] # "aborted"
  <2> SUFFICES ASSUME IInv
               PROVE  \A p \in Procs : pc[p] # "aborted"
    OBVIOUS
  <2>1. LoopInv
    BY DEF IInv, Types, AtomicInv, CondInv, SemInv, MpiInv
  <2> QED
    BY <2>1 DEF LoopInv, Labels
<1> QED
  BY <1>1, Invariance, PTL

(***************************************************************************)
(* Each message is answered before the next: never more than one flag      *)
(* change, notification, post or MPI message is sent and not taken.        *)
(***************************************************************************)
THEOREM OneMessageInFlight == Spec => []OneInFlight
<1>1. IInv => OneInFlight
  BY AtomicFollows, CondFollows, SemFollows, MpiFollows DEF IInv, OneInFlight
<1> QED
  BY <1>1, Invariance, PTL

(***************************************************************************)
(* When the parent measures or starts an iteration, nothing of the one     *)
(* before is left: the flags are down and seen, no mutex is held, the      *)
(* semaphores are 0, the MPI channels empty, and its thread has ended.     *)
(***************************************************************************)
THEOREM IterationsAreClean == Spec => []CleanIterations
<1>1. IInv => CleanIterations
  BY AtomicFollows, CondFollows, SemFollows, MpiFollows DEF IInv, Types, CleanIterations
<1> QED
  BY <1>1, Invariance, PTL
-----------------------------------------------------------------------------
\* If both threads load an old value, each sees the last store of the other, which
\* is the one it waits for; and a thread that has ended its turns has stored twice
\* as often as it has turns.
LEMMA AtomicMoves ==
    ASSUME AtomicInv, \A p \in Procs : RelAcq!Blocked(p)
    PROVE  AllDone
<1> USE DEF AtomicInv
<1>1. RelAcq!Blocked("parent") /\ RelAcq!Blocked("child")
  BY DEF Procs
<1>2. \A p \in Procs : pending[p] = <<>> => flag[p] = LastStore(p) /\ Invisible(p) = 0
  BY DEF AtomicFlags, AtomicTypeOK, Invisible
<1>3. \A p \in Procs : Turns(p) \in Nat /\ turn[p] \in Nat
  BY TurnsAreNat, LoopAssumption DEF LoopAssumption, LoopInv
<1>4. CASE pc["parent"] = "done"
  BY <1>4 DEF ThreadLoop, AllDone
<1>5. CASE pc["parent"] # "done"
  <2>1. /\ pc["parent"] \in {"join", "wait_up", "wait_down"}
        /\ pc["child"] \in {"exit", "wait_up", "wait_down"}
    BY <1>1, <1>5 DEF RelAcq!Blocked, RelAcq!Idle, AtomicTypeOK, ThreadLoop
  <2>2. PICK n \in Nat : Turns("parent") = n + turn["parent"] /\ Turns("child") = n + turn["child"]
    BY <2>1, SameIteration DEF ThreadLoop, Procs
  <2>3. CASE pc["parent"] = "wait_up"
    <3>1. LastStore("parent") = TRUE /\ LastStore("child") = FALSE
      BY <1>1, <1>2, <2>3 DEF RelAcq!Blocked, RelAcq!Idle, RelAcq!Other, LastStore, Procs
    <3>2. pc["child"] # "wait_up" /\ pc["child"] # "wait_down"
      BY <1>1, <1>2, <3>1 DEF RelAcq!Blocked, RelAcq!Idle, RelAcq!Other, LastStore, Procs
    <3>3. AtomicAsked = 2 * Turns("parent") + 1 /\ AtomicHeard = 2 * Turns("child")
      BY <1>3, <2>1, <2>3, <3>2 DEF AtomicAsked, AtomicHeard, Procs
    <3>4. AtomicHeard <= AtomicAsked
      BY <1>3, <3>3 DEF AtomicCounts, Invisible, Procs
    <3>5. turn["parent"] < LoopSize /\ turn["child"] = LoopSize
      BY <2>1, <2>3, <3>2 DEF ThreadLoop
    <3> QED
      BY <1>3, <2>2, <3>3, <3>4, <3>5, LoopAssumption DEF LoopAssumption, Procs
  <2>4. CASE pc["parent"] = "wait_down"
    <3>1. LastStore("parent") = FALSE /\ LastStore("child") = TRUE
      BY <1>1, <1>2, <2>4 DEF RelAcq!Blocked, RelAcq!Idle, RelAcq!Other, LastStore, Procs
    <3> QED
      BY <1>1, <1>2, <2>1, <3>1 DEF RelAcq!Blocked, RelAcq!Idle, RelAcq!Other, LastStore, Procs
  <2>5. CASE pc["parent"] = "join"
    <3>1. LastStore("parent") = FALSE /\ pc["child"] # "exit"
      BY <1>1, <2>5 DEF RelAcq!Blocked, RelAcq!Idle, LastStore
    <3>2. pc["child"] = "wait_up"
      BY <1>1, <1>2, <2>1, <3>1 DEF RelAcq!Blocked, RelAcq!Idle, RelAcq!Other, LastStore, Procs
    <3>3. AtomicSeen = 2 * Turns("parent") /\ AtomicAnswered = 2 * Turns("child")
      BY <1>3, <2>5, <3>2 DEF AtomicSeen, AtomicAnswered, Procs
    <3>4. AtomicSeen <= AtomicAnswered
      BY <1>3, <3>3 DEF AtomicCounts, Invisible, Procs
    <3>5. turn["parent"] = LoopSize /\ turn["child"] < LoopSize
      BY <2>5, <3>2 DEF ThreadLoop
    <3> QED
      BY <1>3, <2>2, <3>3, <3>4, <3>5, LoopAssumption DEF LoopAssumption, Procs
  <2> QED
    BY <2>1, <2>3, <2>4, <2>5
<1> QED
  BY <1>4, <1>5

\* Who holds a mutex does not wait; and of two that sleep, or one that sleeps and
\* one that has ended, one has its flag up.
LEMMA CondMoves ==
    ASSUME CondInv, CondWakes, \A p \in Procs : Cond!Blocked(p)
    PROVE  AllDone
<1> USE DEF CondInv
<1>1. Cond!Blocked("parent") /\ Cond!Blocked("child")
  BY DEF Procs
<1>2. \A p \in Procs : pc[p] \notin {"set", "test", "sleep"}
  BY DEF Cond!Blocked, Cond!Idle
<1>3. \A m \in Procs : owner[m] = "nobody"
  BY <1>2 DEF CondOwners, CondTypeOK, Inside, Procs
<1>4. /\ pc["parent"] \in {"join", "done", "asleep"}
      /\ pc["child"] \in {"none", "exit", "asleep"}
  BY <1>1, <1>3 DEF Cond!Blocked, Cond!Idle, Cond!Other, CondTypeOK, CondLines, Procs
<1>5. \A p \in Procs : pc[p] = "asleep" => Up(Other(p)) = 0
  BY <1>4 DEF CondWakes, Up, Other, Procs
<1>6. \A p \in Procs : Turns(p) \in Nat /\ turn[p] \in Nat
  BY TurnsAreNat, LoopAssumption DEF LoopAssumption, LoopInv
<1>7. CASE pc["parent"] = "done"
  BY <1>7 DEF ThreadLoop, AllDone
<1>8. CASE pc["parent"] # "done"
  <2>1. pc["child"] # "none" /\ iter["child"] = iter["parent"]
    BY <1>4, <1>8 DEF ThreadLoop
  <2>2. PICK n \in Nat : Turns("parent") = n + turn["parent"] /\ Turns("child") = n + turn["child"]
    BY <2>1, SameIteration DEF Procs
  <2>3. CASE pc["parent"] = "asleep"
    <3>1. Turns("parent") = Turns("child")
      BY <1>4, <1>5, <1>6, <2>3 DEF CondCounts, CondSeen, CondAnswered, Other, Procs
    <3>2. CASE pc["child"] = "asleep"
      BY <1>5, <1>6, <2>3, <3>1, <3>2 DEF CondCounts, CondAsked, CondHeard, Other, Procs
    <3>3. CASE pc["child"] = "exit"
      <4>1. turn["parent"] < LoopSize /\ turn["child"] = LoopSize
        BY <2>3, <3>3 DEF ThreadLoop
      <4> QED
        BY <1>6, <2>2, <3>1, <4>1, LoopAssumption DEF LoopAssumption, Procs
    <3> QED
      BY <1>4, <2>1, <3>2, <3>3
  <2>4. CASE pc["parent"] = "join"
    <3>1. pc["child"] = "asleep"
      BY <1>1, <1>4, <2>1, <2>4 DEF Cond!Blocked, Cond!Idle
    <3>2. Turns("parent") = Turns("child")
      BY <1>5, <1>6, <2>4, <3>1 DEF CondCounts, CondAsked, CondHeard, Other, Procs
    <3>3. turn["parent"] = LoopSize /\ turn["child"] < LoopSize
      BY <2>4, <3>1 DEF ThreadLoop
    <3> QED
      BY <1>6, <2>2, <3>2, <3>3, LoopAssumption DEF LoopAssumption, Procs
  <2> QED
    BY <1>4, <1>8, <2>3, <2>4
<1> QED
  BY <1>7, <1>8

\* If both semaphores are 0, the posts and the waits of each process are as many
\* as those of the other, and none has a turn left that the other has not.
LEMMA SemMoves ==
    ASSUME SemInv, \A p \in Procs : Sem!Blocked(p)
    PROVE  AllDone
<1> USE DEF SemInv
<1>1. Sem!Blocked("parent") /\ Sem!Blocked("child")
  BY DEF Procs
<1>2. \A p \in Procs : Turns(p) \in Nat
  BY TurnsAreNat
<1>3. \A p \in Procs : pc[p] \in {"post", "wait"} => Turns(p) < Iterations * LoopSize
  BY TurnsLeft DEF SemLoop
<1>4. \A p \in Procs : pc[p] \in {"waitpid", "exit"} => Turns(p) = Iterations * LoopSize
  BY NoTurnsLeft DEF SemLoop
<1>5. CASE pc["parent"] = "done"
  BY <1>5 DEF SemLoop, AllDone
<1>6. CASE pc["parent"] # "done"
  <2>1. /\ pc["parent"] \in {"wait", "waitpid"}
        /\ pc["child"] \in {"wait", "exit"}
    BY <1>1, <1>6 DEF Sem!Blocked, Sem!Idle, SemTypeOK, SemLoop
  <2>2. CASE pc["parent"] = "wait"
    <3>1. Turns("parent") = Turns("child")
      BY <1>1, <1>2, <2>2 DEF Sem!Blocked, Sem!Idle, SemCounts, Procs
    <3>2. pc["child"] = "wait"
      BY <1>2, <1>3, <1>4, <2>1, <2>2, <3>1 DEF Procs
    <3> QED
      BY <1>1, <1>2, <2>2, <3>1, <3>2
         DEF Sem!Blocked, Sem!Idle, SemCounts, SemHeard, SemAsked, Procs
  <2>3. CASE pc["parent"] = "waitpid"
    <3>1. pc["child"] = "wait" /\ count["child"] = 0
      BY <1>1, <2>1, <2>3 DEF Sem!Blocked, Sem!Idle
    <3>2. Turns("child") = Turns("parent")
      BY <1>2, <2>3, <3>1 DEF SemCounts, SemHeard, SemAsked, Procs
    <3> QED
      BY <1>2, <1>3, <1>4, <2>3, <3>1, <3>2 DEF Procs
  <2> QED
    BY <2>1, <2>2, <2>3
<1> QED
  BY <1>5, <1>6

\* A rank that waits in MPI_Barrier has returned from as many as the other, and so
\* have two that do not; they are then in the same iteration, where one of them has
\* the message that the other has sent.
LEMMA MpiMoves ==
    ASSUME MpiInv, \A p \in Procs : Mpi!Blocked(p)
    PROVE  AllDone
<1> USE LoopAssumption DEF MpiInv, LoopAssumption
<1>1. \A p \in Procs : iter[p] \in Nat /\ arrived[p] \in Nat /\ passed[p] \in Nat
  BY DEF LoopInv, MpiTypeOK
<1>2. Mpi!Blocked("parent") /\ Mpi!Blocked("child")
  BY DEF Procs
<1>3. \A p \in Procs : Mpi!B!Waiting(p) => pc[p] \in {"ready", "begin", "end"}
  BY <1>1 DEF Mpi!B!Waiting, MpiSync
<1>4. /\ pc["parent"] \in {"ready", "begin", "end", "sending", "recv", "done"}
      /\ pc["child"] \in {"ready", "begin", "end", "sending", "recv", "exit"}
  BY <1>2, <1>3 DEF Mpi!Blocked, Mpi!Idle, MpiTypeOK, Procs
<1>5. \A p \in Procs : pc[p] \in {"ready", "begin", "end"} =>
                          arrived[p] = passed[p] + 1 /\ arrived[Other(p)] = passed[p]
  <2> SUFFICES ASSUME NEW p \in Procs, pc[p] \in {"ready", "begin", "end"}
               PROVE  arrived[p] = passed[p] + 1 /\ arrived[Other(p)] = passed[p]
    OBVIOUS
  <2>1. passed[p] < arrived[p] /\ arrived[Other(p)] < arrived[p]
    BY <1>1 DEF Mpi!Blocked, Mpi!Idle, Mpi!B!Waiting, Mpi!Procs, Procs, Other
  <2>2. passed[p] <= arrived[Other(p)] /\ arrived[p] \in {passed[p], passed[p] + 1}
    BY DEF MpiSync, Other, Procs
  <2>3. Other(p) \in Procs
    BY DEF Other, Procs
  <2> QED
    BY <1>1, <2>1, <2>2, <2>3
<1>6. \A p \in Procs : pc[p] \notin {"ready", "begin", "end"} => arrived[p] = passed[p]
  BY DEF MpiSync
<1>7. passed["parent"] = passed["child"]
  BY <1>1, <1>5, <1>6 DEF MpiSync, Other, Procs
<1>8. Returned("parent") = Returned("child")
  BY <1>7 DEF MpiSync, Procs
<1>9. \/ pc["parent"] \notin {"ready", "begin", "end"}
      \/ pc["child"] \notin {"ready", "begin", "end"}
  BY <1>1, <1>5 DEF Other, Procs
<1>10. CASE pc["parent"] = "done" /\ pc["child"] = "exit"
  BY <1>10 DEF AllDone
<1>11. CASE ~(pc["parent"] = "done" /\ pc["child"] = "exit")
  <2>1. \A p \in Procs : /\ pc[p] = "ready" => Returned(p) = 0
                         /\ pc[p] = "begin" => Returned(p) = 2 * iter[p] + 1
                         /\ pc[p] \in {"done", "exit"} => Returned(p) = 2 * Iterations + 1
                         /\ pc[p] \in {"end", "sending", "recv"} => Returned(p) = 2 * iter[p] + 2
    BY DEF Returned, MpiLoop
  <2>2. \A p \in Procs : pc[p] = "begin" => iter[p] < Iterations
    BY DEF MpiLoop
  <2>3. /\ pc["parent"] \in {"end", "sending", "recv"}
        /\ pc["child"] \in {"end", "sending", "recv"}
    BY <1>1, <1>4, <1>8, <1>9, <1>11, <2>1, <2>2 DEF Procs
  <2>4. iter["parent"] = iter["child"]
    <3>1. 2 * iter["parent"] + 2 = 2 * iter["child"] + 2
      BY <1>8, <2>1, <2>3 DEF Procs
    <3> QED
      BY <1>1, <3>1 DEF Procs
  <2>5. /\ channel["child"] = <<>> <=> MpiHeard = MpiAsked
        /\ channel["parent"] = <<>> <=> MpiSeen = MpiAnswered
    <3>1. MpiHeard \in Nat /\ MpiSeen \in Nat
      BY <1>1 DEF MpiHeard, MpiSeen, Procs
    <3>2. <<MpiAsked>> # <<>> /\ <<MpiAnswered>> # <<>>
      OBVIOUS
    <3>3. /\ MpiHeard = MpiAsked \/ MpiHeard + 1 = MpiAsked
          /\ MpiSeen = MpiAnswered \/ MpiSeen + 1 = MpiAnswered
      BY DEF MpiMessages
    <3>4. MpiHeard + 1 # MpiHeard /\ MpiSeen + 1 # MpiSeen
      BY <3>1
    <3>5. /\ MpiHeard = MpiAsked => channel["child"] = <<>>
          /\ MpiSeen = MpiAnswered => channel["parent"] = <<>>
      BY <3>4 DEF MpiMessages
    <3>6. /\ MpiHeard + 1 = MpiAsked => channel["child"] = <<MpiAsked>>
          /\ MpiSeen + 1 = MpiAnswered => channel["parent"] = <<MpiAnswered>>
      BY <3>4 DEF MpiMessages
    <3> QED
      BY <3>2, <3>3, <3>5, <3>6
  <2>6. /\ pc["parent"] = "recv" => channel["parent"] = <<>>
        /\ pc["parent"] = "sending" => channel["child"] # <<>>
        /\ pc["child"] = "recv" => channel["child"] = <<>>
        /\ pc["child"] = "sending" => channel["parent"] # <<>>
    BY <1>2, <1>3 DEF Mpi!Blocked, Mpi!Idle, Mpi!Other, Procs
  <2>7. /\ MpiAsked = iter["parent"] + 1
        /\ MpiSeen = iter["parent"] + (IF pc["parent"] = "end" THEN 1 ELSE 0)
    BY <1>9, <2>3 DEF MpiAsked, MpiSeen
  <2>8. /\ MpiHeard = iter["child"] + (IF pc["child"] = "recv" THEN 0 ELSE 1)
        /\ MpiAnswered = iter["child"] + (IF pc["child"] = "recv" THEN 0 ELSE 1)
    BY <2>3 DEF MpiHeard, MpiAnswered
  <2> QED
    BY <1>1, <1>9, <2>3, <2>4, <2>5, <2>6, <2>7, <2>8 DEF Procs
<1> QED
  BY <1>10, <1>11

(***************************************************************************)
(* The two are never both waiting: no thread sleeps through a notify, or   *)
(* waits for a store, a post or a message that nobody will make, and the   *)
(* ranks of MPI get by without a buffer for MPI_Send.                      *)
(***************************************************************************)
THEOREM NobodyWaitsInVain == Spec => []NoDeadlock
<1>1. IInv => NoDeadlock
  BY AtomicMoves, CondMoves, SemMoves, MpiMoves DEF IInv, NoDeadlock
<1> QED
  BY <1>1, Invariance, PTL
-----------------------------------------------------------------------------
\* The three counts that LatencyBenchmarks gives to PingPong.
Asked    == Pick(RelAcq!asked, Cond!asked, Sem!asked, Mpi!asked)
Answered == Pick(RelAcq!answered, Cond!answered, Sem!answered, Mpi!answered)
Seen     == Pick(RelAcq!seen, Cond!seen, Sem!seen, Mpi!seen)

\* They are those of the benchmark picked.
LEMMA AtomicPick ==
    type \in {"atomic", "atomic_rel_acq"} =>
       Asked = AtomicAsked /\ Answered = AtomicAnswered /\ Seen = AtomicSeen
  BY DEF Asked, Answered, Seen, Pick, RelAcq!asked, RelAcq!answered, RelAcq!seen,
     RelAcq!Turns, Turns, AtomicAsked, AtomicAnswered, AtomicSeen

\* For the condition variables.
LEMMA CondPick ==
    type = "condition_variable" => Asked = CondAsked /\ Answered = CondAnswered /\ Seen = CondSeen
  BY DEF Asked, Answered, Seen, Pick, Cond!asked, Cond!answered, Cond!seen, Cond!Sent,
     Cond!Turns, Turns, CondAsked, CondAnswered, CondSeen

\* For the semaphores.
LEMMA SemPick ==
    type = "semaphore" => Asked = SemAsked /\ Answered = Turns("child") /\ Seen = Turns("parent")
  BY DEF Asked, Answered, Seen, Pick, Sem!asked, Sem!answered, Sem!seen, Sem!Turns, Turns,
     SemAsked

\* For MPI.
LEMMA MpiPick ==
    type = "mpi" => Asked = MpiAsked /\ Answered = MpiAnswered /\ Seen = MpiSeen
  BY DEF Asked, Answered, Seen, Pick, Mpi!asked, Mpi!answered, Mpi!seen, Mpi!Counted,
     MpiAsked, MpiAnswered, MpiSeen

\* A step of the benchmark picked is one of PingPong, or none, for them.
LEMMA StepPlays ==
    ASSUME Moved, type \in Types, UNCHANGED type
    PROVE  Plays(Asked, Answered, Seen, Asked', Answered', Seen')
<1>1. CASE type \in {"atomic", "atomic_rel_acq"}
  <2>1. Asked = AtomicAsked /\ Answered = AtomicAnswered /\ Seen = AtomicSeen
    BY <1>1, AtomicPick
  <2>2. (type \in {"atomic", "atomic_rel_acq"} =>
            Asked = AtomicAsked /\ Answered = AtomicAnswered /\ Seen = AtomicSeen)'
    BY AtomicPick, PTL
  <2> QED
    BY <1>1, <2>1, <2>2 DEF Moved, AtomicPlays
<1>2. CASE type = "condition_variable"
  <2>1. Asked = CondAsked /\ Answered = CondAnswered /\ Seen = CondSeen
    BY <1>2, CondPick
  <2>2. (type = "condition_variable" =>
            Asked = CondAsked /\ Answered = CondAnswered /\ Seen = CondSeen)'
    BY CondPick, PTL
  <2> QED
    BY <1>2, <2>1, <2>2 DEF Moved, CondPlays
<1>3. CASE type = "semaphore"
  <2>1. Asked = SemAsked /\ Answered = Turns("child") /\ Seen = Turns("parent")
    BY <1>3, SemPick
  <2>2. (type = "semaphore" =>
            Asked = SemAsked /\ Answered = Turns("child") /\ Seen = Turns("parent"))'
    BY SemPick, PTL
  <2> QED
    BY <1>3, <2>1, <2>2 DEF Moved, SemPlays
<1>4. CASE type = "mpi"
  <2>1. Asked = MpiAsked /\ Answered = MpiAnswered /\ Seen = MpiSeen
    BY <1>4, MpiPick
  <2>2. (type = "mpi" =>
            Asked = MpiAsked /\ Answered = MpiAnswered /\ Seen = MpiSeen)'
    BY MpiPick, PTL
  <2> QED
    BY <1>4, <2>1, <2>2 DEF Moved, MpiPlays
<1> QED
  BY <1>1, <1>2, <1>3, <1>4 DEF Types

\* They are 0 at first.
LEMMA InitPlays ==
    ASSUME Init
    PROVE  Abstract!Init
<1>1. iter = [p \in Procs |-> 0] /\ turn = [p \in Procs |-> 0]
  BY DEF Init, SeqCst!Init, SeqCst!LoopInit, SeqCst!Procs, RelAcq!Init, RelAcq!LoopInit,
     RelAcq!Procs, Cond!Init, Cond!LoopInit, Cond!Procs, Sem!Init, Sem!LoopInit, Sem!Procs,
     Mpi!Init, Mpi!LoopInit, Mpi!Procs, Procs
<1>2. \A p \in Procs : iter[p] = 0 /\ Turns(p) = 0
  BY <1>1, TurnsAtFirst
<1>3. CASE type \in {"atomic", "atomic_rel_acq"}
  <2>1. pc = [parent |-> "create", child |-> "none"]
    BY <1>3 DEF Init, SeqCst!Init, RelAcq!Init
  <2> QED
    BY <1>2, <1>3, <2>1, AtomicPick DEF AtomicAsked, AtomicAnswered, AtomicSeen, Procs, Asked,
       Answered, Seen, Abstract!Init
<1>4. CASE type = "condition_variable"
  <2>1. pc = [parent |-> "create", child |-> "none"]
    BY <1>4 DEF Init, Cond!Init
  <2> QED
    BY <1>2, <1>4, <2>1, CondPick DEF CondAsked, CondAnswered, CondSeen, Procs, Asked,
       Answered, Seen, Abstract!Init
<1>5. CASE type = "semaphore"
  <2>1. pc = [parent |-> "clean", child |-> "none"]
    BY <1>5 DEF Init, Sem!Init
  <2> QED
    BY <1>2, <1>5, <2>1, SemPick DEF SemAsked, Procs, Asked, Answered, Seen, Abstract!Init
<1>6. CASE type = "mpi"
  <2>1. pc["parent"] = "ready" /\ pc["child"] = "ready"
    BY <1>6 DEF Init, Mpi!Init, Mpi!Procs
  <2> QED
    BY <1>2, <1>6, <2>1, MpiPick DEF MpiAsked, MpiAnswered, MpiSeen, Procs, Asked, Answered,
       Seen, Abstract!Init
<1> QED
  BY <1>3, <1>4, <1>5, <1>6 DEF Init

(***************************************************************************)
(* Each benchmark implements PingPong: the parent sends only when every    *)
(* message is answered and the answer taken, the child answers only what   *)
(* is sent, and the parent takes only what is answered. It is the safety   *)
(* half of ImplementsPingPong, whose fairness TLC checks.                  *)
(***************************************************************************)
THEOREM Implementation == Spec => Abstract!Spec
<1>1. Init => Abstract!Init
  BY InitPlays
<1>2. IInv /\ [Next]_vars => [Abstract!Next]_(Abstract!vars)
  <2> SUFFICES ASSUME IInv, [Next]_vars
               PROVE  [Abstract!Next]_(Abstract!vars)
    OBVIOUS
  <2>1. CASE Parent \/ Child \/ Visible \/ Spurious
    <3>1. Plays(Asked, Answered, Seen, Asked', Answered', Seen')
      BY <2>1, StepMoves, StepPlays DEF IInv
    <3> QED
      BY <3>1 DEF Plays, Asked, Answered, Seen, Abstract!Next, Abstract!Ask, Abstract!Answer,
         Abstract!See, Abstract!vars
  <2>2. CASE UNCHANGED vars
    <3>1. Asked' = Asked /\ Answered' = Answered /\ Seen' = Seen
      BY <2>2 DEF vars, loop, atomics, flags, semaphores, mpi, Asked, Answered, Seen, Pick,
         RelAcq!asked, RelAcq!answered, RelAcq!seen, RelAcq!Turns, Cond!asked, Cond!answered,
         Cond!seen, Cond!Sent, Cond!Turns, Sem!asked, Sem!answered, Sem!seen, Sem!Turns,
         Mpi!asked, Mpi!answered, Mpi!seen, Mpi!Counted
    <3> QED
      BY <3>1 DEF Asked, Answered, Seen, Abstract!vars
  <2> QED
    BY <2>1, <2>2 DEF Next, Done
<1> QED
  BY <1>1, <1>2, Invariance, PTL DEF Spec, Abstract!Spec
=============================================================================
