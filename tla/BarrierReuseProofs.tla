--------------------------- MODULE BarrierReuseProofs ---------------------------
(***************************************************************************)
(* Proofs about BarrierReuse, for any number of runs, waits and objects.   *)
(*                                                                         *)
(* The first part holds of all three harnesses and makes no use of the     *)
(* semaphore, because a straggler may leave the two users of a later run   *)
(* with different ones: each run has its memory to itself, and two users   *)
(* of one memory stay in the same round.  The second part is about the     *)
(* harnesses that reach their waitpid: there the runs follow one another,  *)
(* and each is one barrier as SenseReversingBarrierProofs has it.          *)
(***************************************************************************)
EXTENDS BarrierReuse, FiniteSetTheorems, TLAPS

\* The two processes of a run.
Sides == {"parent", "child"}

Peer(p) == <<p[1], IF p[2] = "parent" THEN "child" ELSE "parent">>

\* The main program before its fork; who has the memory mapped; who is counted in
\* count_ and waits for the other.
Before == {"clear_sem", "clear_shm", "fork"}
Mapped == {"shm_init"} \cup B!Joining \cup B!Polling \cup {"ready"} \cup B!InWait
             \cup (B!Leaving \ {"gone"})
Spinning == {"spin_wait", "spin"}

ReuseTypeOK == /\ B!TypeOK
               /\ harness \in Harnesses
               /\ run \in 1 .. Runs[harness]
               /\ main \in Before \cup {"running", "done"}

\* Processes of later runs have not begun; of earlier ones the parent is gone.
OrderInv ==
    \A p \in Procs :
        /\ p[1] > run \/ (p[1] = run /\ main \in Before) => pc[p] = "start"
        /\ p[1] < run /\ p[2] = "parent" => pc[p] = "gone"

\* The names are bound to objects that exist, and to none when a run begins.
NameInv == /\ sem_name # None => sem_name \in created
           /\ shm_name # None => shm_name \in created
           /\ main = "clear_shm" => sem_name = None
           /\ main = "fork" => sem_name = None /\ shm_name = None

\* Which handles are open at each line.
HandleInv == \A p \in Procs : /\ shm_sem_[p] # None <=> pc[p] \notin B!Closed
                              /\ shm_data_[p] # None <=> pc[p] \in Mapped
                              /\ shm_data_[p] # None => shm_data_[p] \in created

\* The runs have their memory apart, and the name is never bound to that of another
\* run.  A process that has yet to open it will find its peer's.
ApartInv ==
    \A p \in Procs :
        /\ \A q \in Procs : p[1] # q[1] /\ shm_data_[p] # None => shm_data_[p] # shm_data_[q]
        /\ main \notin Before /\ shm_name # None =>
              /\ p[1] # run => shm_data_[p] # shm_name
              /\ p[1] = run /\ pc[p] \in B!Entering \ {"shm_init"}
                    => shm_data_[Peer(p)] = shm_name

\* Memory that does not exist yet will be all zeros.
BlankInv == \A o \in Objects \ created :
                count_[o] = 0 /\ shared_sense_[o] = FALSE /\ n_users_[o] = 0

OwnerInv == NameInv /\ HandleInv /\ ApartInv /\ BlankInv

\* Whether p is in the count of users that memory o keeps.
Joined(p, o) == IF pc[p] \in B!Polling \cup B!Past /\ shm_data_[p] = o THEN 1 ELSE 0

\* Of p and its peer q.  Nobody is past the poll before both have joined, and n_users_
\* never counts more than have: a user that reads 2 has a peer in the same memory.
Half(p, q) ==
    LET o == shm_data_[p] IN
    /\ pc[p] \in B!Past => pc[q] \in B!Polling \cup B!Past
    /\ pc[p] \in B!Past /\ o # None /\ shm_data_[q] # None => o = shm_data_[q]
    /\ pc[p] \notin B!Past => rounds[p] = 0 /\ sense_[p] = TRUE
    /\ pc[p] \notin B!Past /\ pc[q] \notin B!Past /\ o # None =>
          /\ count_[o] = 0 /\ shared_sense_[o] = FALSE
          /\ n_users_[o] <= Joined(p, o) + Joined(q, o)
    /\ pc[p] = "join_store" => reg[p] <= Joined(q, o)
    /\ pc[p] \in B!InWait => rounds[p] < Waits

\* p is in round R, counted in it or on its way to it; count_ is 1 only while one of
\* the two spins, so that only the second to arrive takes itself for the last.
InRound(p, q, R) ==
    LET o == shm_data_[p] IN
    /\ rounds[p] \in {R - 1, R}
    /\ rounds[p] = R - 1 => pc[p] \in Spinning \cup {"return"}
    /\ pc[p] = "return" => rounds[p] = R - 1
    /\ (pc[p] \in B!Past \/ pc[q] \in B!Past) /\ o # None =>
          /\ rounds[p] = R <=> shared_sense_[o] # sense_[p]
          /\ count_[o] \in {0, 1}
          /\ count_[o] = 1 => \/ pc[p] \in Spinning /\ rounds[p] = R
                              \/ pc[q] \in Spinning /\ rounds[q] = R
    /\ pc[p] = "arrive_store" => \/ reg[p] = 0
                                 \/ reg[p] = 1 /\ pc[q] \in Spinning /\ rounds[q] = R

Pair(p, q) == /\ Half(p, q) /\ Half(q, p)
              /\ \E R \in 0 .. Waits : InRound(p, q, R) /\ InRound(q, p, R)

\* The two processes of every run, stragglers included, are in one round.
PairInv == \A p \in Procs : Pair(p, Peer(p))

SafeInv == ReuseTypeOK /\ OrderInv /\ OwnerInv /\ PairInv
-----------------------------------------------------------------------------
\* The run the main program is in, as the one barrier of SenseReversingBarrier.
OfRun(f) == [s \in Sides |-> f[<<run, s>>]]

Cur == INSTANCE SenseReversingBarrierProofs WITH
           Procs     <- Sides,
           N         <- 2,
           shm_sem_  <- OfRun(shm_sem_),
           shm_data_ <- OfRun(shm_data_),
           sense_    <- OfRun(sense_),
           reg       <- OfRun(reg),
           rounds    <- OfRun(rounds),
           pc        <- OfRun(pc)

\* With waitpid, that barrier's own invariant holds while it is in use, and the
\* processes of earlier runs are gone.
OneInv ==
    harness # "constructor" =>
        /\ main \notin Before => Cur!IInv
        /\ \A p \in Procs : p[1] < run => pc[p] = "gone"
        /\ harness = "latency" => \A p \in Procs :
              p[1] = run /\ p[2] = "parent" /\ pc[p] \in B!Leaving => Reaped(run)

(***************************************************************************)
(* The inductive invariant: the first part of all harnesses, the second of *)
(* those that reach their waitpid.                                         *)
(***************************************************************************)
IInv == SafeInv /\ OneInv
-----------------------------------------------------------------------------
\* The harnesses are few, so one of them has the most runs.
LEMMA MostRuns ==
    ASSUME NEW h \in Harnesses
    PROVE  MaxRuns \in Nat /\ Runs[h] \in Nat /\ Runs[h] <= MaxRuns
<1>1. Harnesses \subseteq {"latency", "wait", "constructor"} /\ \A g \in Harnesses : Runs[g] \in Nat
  BY ReuseAssumption
<1>2. \E m \in Harnesses : \A g \in Harnesses : Runs[g] <= Runs[m]
  BY <1>1
<1> DEFINE P(m) == m \in {Runs[g] : g \in Harnesses} /\ \A g \in Harnesses : Runs[g] <= m
<1>3. \E m : P(m)
  BY <1>2
<1>4. P(CHOOSE m : P(m))
  BY <1>3
<1>5. MaxRuns = CHOOSE m : P(m)
  BY DEF MaxRuns
<1> QED
  BY <1>1, <1>4, <1>5

\* What Peer is to a process of a run.
LEMMA Peers ==
    ASSUME NEW p \in Procs
    PROVE  /\ p[1] \in 1 .. MaxRuns /\ p[2] \in Sides /\ p = <<p[1], p[2]>>
           /\ Peer(p) \in Procs /\ Peer(p) # p /\ Peer(p)[1] = p[1] /\ Peer(Peer(p)) = p
           /\ \A q \in Procs : q[1] = p[1] => q = p \/ q = Peer(p)
  BY DEF Procs, Peer, Sides
-----------------------------------------------------------------------------
\* O_CREAT finds an object that was never used before.
LEMMA FreshObject ==
    ASSUME B!CanCreate, created \subseteq Objects
    PROVE  B!NewObject \in Objects /\ B!NewObject \notin created /\ B!NewObject # None
<1>1. \E o \in Objects : o \notin created
  BY DEF B!CanCreate
<1> QED
  BY <1>1, ReuseAssumption DEF B!NewObject

\* A step of a process keeps the types.
LEMMA TypeStep ==
    ASSUME ReuseTypeOK, HandleInv, NEW p \in Procs, B!Step(p)
    PROVE  B!TypeOK'
<1> USE DEF ReuseTypeOK, HandleInv, B!TypeOK, Mapped, B!Closed, B!Lines, B!Entering,
          B!Joining, B!Polling, B!InWait, B!Leaving, B!Closing, B!Goto, B!SemWait,
          B!SemPost, B!names, B!memory, B!shared, B!own
<1>1. CASE B!SemOpen(p)
  BY <1>1, FreshObject DEF B!SemOpen
<1>2. CASE B!InitAcquire(p)
  BY <1>2 DEF B!InitAcquire
<1>3. CASE B!ShmCreate(p)
  BY <1>3, FreshObject DEF B!ShmCreate
<1>4. CASE B!ShmInit(p)
  BY <1>4 DEF B!ShmInit
<1>5. CASE B!ShmOpen(p)
  BY <1>5 DEF B!ShmOpen
<1>6. CASE B!JoinAcquire(p)
  BY <1>6 DEF B!JoinAcquire
<1>7. CASE B!JoinLoad(p)
  BY <1>7 DEF B!JoinLoad
<1>8. CASE B!JoinStore(p)
  BY <1>8 DEF B!JoinStore
<1>9. CASE B!PollAcquire(p)
  BY <1>9 DEF B!PollAcquire
<1>10. CASE B!Poll(p)
  BY <1>10 DEF B!Poll
<1>11. CASE B!ArriveAcquire(p)
  BY <1>11 DEF B!ArriveAcquire
<1>12. CASE B!ArriveLoad(p)
  BY <1>12 DEF B!ArriveLoad
<1>13. CASE B!ArriveStore(p)
  BY <1>13 DEF B!ArriveStore
<1>14. CASE B!ArriveLast(p)
  BY <1>14 DEF B!ArriveLast
<1>15. CASE B!SpinAcquire(p)
  BY <1>15 DEF B!SpinAcquire
<1>16. CASE B!Spin(p)
  BY <1>16 DEF B!Spin
<1>17. CASE B!Return(p)
  BY <1>17 DEF B!Return
<1>18. CASE B!LeaveAcquire(p)
  BY <1>18 DEF B!LeaveAcquire
<1>19. CASE B!LeaveLoad(p)
  BY <1>19 DEF B!LeaveLoad
<1>20. CASE B!LeaveStore(p)
  BY <1>20 DEF B!LeaveStore
<1>21. CASE B!LeaveLast(p)
  BY <1>21 DEF B!LeaveLast
<1>22. CASE B!SemUnlink(p)
  BY <1>22 DEF B!SemUnlink
<1>23. CASE B!ShmUnlink(p)
  BY <1>23 DEF B!ShmUnlink
<1>24. CASE B!SemClose(p)
  BY <1>24 DEF B!SemClose
<1>25. CASE B!Unmap(p)
  BY <1>25 DEF B!Unmap
<1> QED
  BY <1>1, <1>2, <1>3, <1>4, <1>5, <1>6, <1>7, <1>8, <1>9, <1>10, <1>11, <1>12, <1>13,
     <1>14, <1>15, <1>16, <1>17, <1>18, <1>19, <1>20, <1>21, <1>22, <1>23, <1>24, <1>25
     DEF B!Step, B!Construct, B!Wait, B!Destroy

-----------------------------------------------------------------------------
\* What a step of p leaves alone: the other processes, and memory that is not its own.
Frame(p) ==
    \A x \in Procs \ {p} :
        /\ pc'[x] = pc[x] /\ shm_sem_'[x] = shm_sem_[x] /\ shm_data_'[x] = shm_data_[x]
        /\ sense_'[x] = sense_[x] /\ reg'[x] = reg[x] /\ rounds'[x] = rounds[x]
        /\ shm_data_[x] \in Objects /\ shm_data_[x] # shm_data_[p] =>
              /\ count_'[shm_data_[x]] = count_[shm_data_[x]]
              /\ shared_sense_'[shm_data_[x]] = shared_sense_[shm_data_[x]]
              /\ n_users_'[shm_data_[x]] = n_users_[shm_data_[x]]

\* A process changes nothing of another, nor memory it has not mapped.
LEMMA FrameStep ==
    ASSUME ReuseTypeOK, NEW p \in Procs, B!Step(p)
    PROVE  Frame(p)
<1> USE DEF ReuseTypeOK, B!TypeOK, Frame, B!Goto, B!SemWait, B!SemPost, B!names, B!memory,
          B!shared, B!own
<1>1. CASE B!SemOpen(p)
  BY <1>1 DEF B!SemOpen
<1>2. CASE B!InitAcquire(p)
  BY <1>2 DEF B!InitAcquire
<1>3. CASE B!ShmCreate(p)
  BY <1>3 DEF B!ShmCreate
<1>4. CASE B!ShmInit(p)
  BY <1>4 DEF B!ShmInit
<1>5. CASE B!ShmOpen(p)
  BY <1>5 DEF B!ShmOpen
<1>6. CASE B!JoinAcquire(p)
  BY <1>6 DEF B!JoinAcquire
<1>7. CASE B!JoinLoad(p)
  BY <1>7 DEF B!JoinLoad
<1>8. CASE B!JoinStore(p)
  BY <1>8 DEF B!JoinStore
<1>9. CASE B!PollAcquire(p)
  BY <1>9 DEF B!PollAcquire
<1>10. CASE B!Poll(p)
  BY <1>10 DEF B!Poll
<1>11. CASE B!ArriveAcquire(p)
  BY <1>11 DEF B!ArriveAcquire
<1>12. CASE B!ArriveLoad(p)
  BY <1>12 DEF B!ArriveLoad
<1>13. CASE B!ArriveStore(p)
  BY <1>13 DEF B!ArriveStore
<1>14. CASE B!ArriveLast(p)
  BY <1>14 DEF B!ArriveLast
<1>15. CASE B!SpinAcquire(p)
  BY <1>15 DEF B!SpinAcquire
<1>16. CASE B!Spin(p)
  BY <1>16 DEF B!Spin
<1>17. CASE B!Return(p)
  BY <1>17 DEF B!Return
<1>18. CASE B!LeaveAcquire(p)
  BY <1>18 DEF B!LeaveAcquire
<1>19. CASE B!LeaveLoad(p)
  BY <1>19 DEF B!LeaveLoad
<1>20. CASE B!LeaveStore(p)
  BY <1>20 DEF B!LeaveStore
<1>21. CASE B!LeaveLast(p)
  BY <1>21 DEF B!LeaveLast
<1>22. CASE B!SemUnlink(p)
  BY <1>22 DEF B!SemUnlink
<1>23. CASE B!ShmUnlink(p)
  BY <1>23 DEF B!ShmUnlink
<1>24. CASE B!SemClose(p)
  BY <1>24 DEF B!SemClose
<1>25. CASE B!Unmap(p)
  BY <1>25 DEF B!Unmap
<1> QED
  BY <1>1, <1>2, <1>3, <1>4, <1>5, <1>6, <1>7, <1>8, <1>9, <1>10, <1>11, <1>12, <1>13,
     <1>14, <1>15, <1>16, <1>17, <1>18, <1>19, <1>20, <1>21, <1>22, <1>23, <1>24, <1>25
     DEF B!Step, B!Construct, B!Wait, B!Destroy
-----------------------------------------------------------------------------
\* A process that makes a step belongs to this run, or to one whose parent is gone.
LEMMA WhoSteps ==
    ASSUME ReuseTypeOK, OrderInv, PairInv, NEW p \in Procs, Process(p)
    PROVE  /\ B!Step(p) /\ UNCHANGED <<run, main, harness>>
           /\ pc[p] \notin {"gone", "aborted"}
           /\ \/ p[1] = run /\ main \notin Before
              \/ p[1] < run /\ pc[p] \in B!Polling \cup B!Past
<1>1. B!Step(p) /\ UNCHANGED <<run, main, harness>>
  BY DEF Process, B!Step
<1>2. pc[p] \notin {"gone", "aborted"}
  BY <1>1 DEF B!Step, B!Construct, B!Wait, B!Destroy, B!SemOpen, B!InitAcquire,
     B!ShmCreate, B!ShmInit, B!ShmOpen, B!JoinAcquire, B!JoinLoad, B!JoinStore,
     B!PollAcquire, B!Poll, B!ArriveAcquire, B!ArriveLoad, B!ArriveStore, B!ArriveLast,
     B!SpinAcquire, B!Spin, B!Return, B!LeaveAcquire, B!LeaveLoad, B!LeaveStore,
     B!LeaveLast, B!SemClose, B!Unmap, B!SemUnlink, B!ShmUnlink
<1>3. (p[1] = run /\ main \notin Before) \/ p[1] < run
  <2>1. p[1] \in Int /\ run \in Int
    BY Peers DEF ReuseTypeOK
  <2> QED
    BY <2>1 DEF Process, Before
<1>4. ASSUME p[1] < run
      PROVE  pc[p] \in B!Polling \cup B!Past
  <2>1. p[2] = "child" /\ Peer(p)[2] = "parent" /\ Peer(p)[1] < run /\ Peer(p) \in Procs
    BY <1>2, <1>4, Peers DEF OrderInv, Sides, Peer
  <2>2. pc[Peer(p)] = "gone"
    BY <2>1 DEF OrderInv
  <2>3. Half(Peer(p), p)
    BY Peers DEF PairInv, Pair
  <2> QED
    BY <2>2, <2>3 DEF Half, B!Past, B!Leaving
<1> QED
  BY <1>1, <1>2, <1>3, <1>4

\* A step of a process begins no run and ends none.
LEMMA OrderStep ==
    ASSUME ReuseTypeOK, OrderInv, PairInv, NEW p \in Procs, Process(p)
    PROVE  OrderInv'
<1>1. /\ UNCHANGED <<run, main>> /\ pc[p] # "gone"
      /\ (p[1] = run /\ main \notin Before) \/ p[1] < run
  BY WhoSteps
<1>2. \A x \in Procs \ {p} : pc'[x] = pc[x]
  BY WhoSteps, FrameStep DEF Frame
<1>3. \A x \in Procs : x[1] \in Int /\ run \in Int
  BY Peers DEF ReuseTypeOK
<1> QED
  BY <1>1, <1>2, <1>3 DEF OrderInv

\* Only constructors bind names, and to objects that exist.
LEMMA NameStep ==
    ASSUME ReuseTypeOK, OrderInv, PairInv, NameInv, NEW p \in Procs, Process(p)
    PROVE  NameInv'
<1>0. B!Step(p) /\ UNCHANGED main /\ (main \in Before => pc[p] \notin B!Entering)
  BY WhoSteps DEF B!Entering, B!Polling, B!Past, B!InWait, B!Leaving, B!Closing
<1> USE <1>0 DEF ReuseTypeOK, B!TypeOK, NameInv, Before, B!Entering, B!Goto, B!SemWait,
          B!SemPost, B!names, B!memory, B!shared, B!own
<1>1. CASE B!SemOpen(p)
  BY <1>1, FreshObject DEF B!SemOpen
<1>2. CASE B!InitAcquire(p)
  BY <1>2 DEF B!InitAcquire
<1>3. CASE B!ShmCreate(p)
  BY <1>3, FreshObject DEF B!ShmCreate
<1>4. CASE B!ShmInit(p)
  BY <1>4 DEF B!ShmInit
<1>5. CASE B!ShmOpen(p)
  BY <1>5 DEF B!ShmOpen
<1>6. CASE B!JoinAcquire(p)
  BY <1>6 DEF B!JoinAcquire
<1>7. CASE B!JoinLoad(p)
  BY <1>7 DEF B!JoinLoad
<1>8. CASE B!JoinStore(p)
  BY <1>8 DEF B!JoinStore
<1>9. CASE B!PollAcquire(p)
  BY <1>9 DEF B!PollAcquire
<1>10. CASE B!Poll(p)
  BY <1>10 DEF B!Poll
<1>11. CASE B!ArriveAcquire(p)
  BY <1>11 DEF B!ArriveAcquire
<1>12. CASE B!ArriveLoad(p)
  BY <1>12 DEF B!ArriveLoad
<1>13. CASE B!ArriveStore(p)
  BY <1>13 DEF B!ArriveStore
<1>14. CASE B!ArriveLast(p)
  BY <1>14 DEF B!ArriveLast
<1>15. CASE B!SpinAcquire(p)
  BY <1>15 DEF B!SpinAcquire
<1>16. CASE B!Spin(p)
  BY <1>16 DEF B!Spin
<1>17. CASE B!Return(p)
  BY <1>17 DEF B!Return
<1>18. CASE B!LeaveAcquire(p)
  BY <1>18 DEF B!LeaveAcquire
<1>19. CASE B!LeaveLoad(p)
  BY <1>19 DEF B!LeaveLoad
<1>20. CASE B!LeaveStore(p)
  BY <1>20 DEF B!LeaveStore
<1>21. CASE B!LeaveLast(p)
  BY <1>21 DEF B!LeaveLast
<1>22. CASE B!SemUnlink(p)
  BY <1>22 DEF B!SemUnlink
<1>23. CASE B!ShmUnlink(p)
  BY <1>23 DEF B!ShmUnlink
<1>24. CASE B!SemClose(p)
  BY <1>24 DEF B!SemClose
<1>25. CASE B!Unmap(p)
  BY <1>25 DEF B!Unmap
<1> QED
  BY <1>1, <1>2, <1>3, <1>4, <1>5, <1>6, <1>7, <1>8, <1>9, <1>10, <1>11, <1>12, <1>13,
     <1>14, <1>15, <1>16, <1>17, <1>18, <1>19, <1>20, <1>21, <1>22, <1>23, <1>24, <1>25
     DEF B!Step, B!Construct, B!Wait, B!Destroy

\* Handles are opened and closed at their lines.
LEMMA HandleStep ==
    ASSUME ReuseTypeOK, OrderInv, PairInv, NameInv, HandleInv, NEW p \in Procs, Process(p)
    PROVE  HandleInv'
<1>0. B!Step(p) /\ Frame(p)
  BY WhoSteps, FrameStep
<1> USE <1>0 DEF ReuseTypeOK, B!TypeOK, NameInv, HandleInv, Frame, Mapped, B!Closed,
          B!Entering, B!Joining, B!Polling, B!InWait, B!Leaving, B!Closing, B!Goto,
          B!SemWait, B!SemPost, B!names, B!memory, B!shared, B!own
<1>1. CASE B!SemOpen(p)
  BY <1>1, FreshObject DEF B!SemOpen
<1>2. CASE B!InitAcquire(p)
  BY <1>2 DEF B!InitAcquire
<1>3. CASE B!ShmCreate(p)
  BY <1>3, FreshObject DEF B!ShmCreate
<1>4. CASE B!ShmInit(p)
  BY <1>4 DEF B!ShmInit
<1>5. CASE B!ShmOpen(p)
  BY <1>5 DEF B!ShmOpen
<1>6. CASE B!JoinAcquire(p)
  BY <1>6 DEF B!JoinAcquire
<1>7. CASE B!JoinLoad(p)
  BY <1>7 DEF B!JoinLoad
<1>8. CASE B!JoinStore(p)
  BY <1>8 DEF B!JoinStore
<1>9. CASE B!PollAcquire(p)
  BY <1>9 DEF B!PollAcquire
<1>10. CASE B!Poll(p)
  BY <1>10 DEF B!Poll
<1>11. CASE B!ArriveAcquire(p)
  BY <1>11 DEF B!ArriveAcquire
<1>12. CASE B!ArriveLoad(p)
  BY <1>12 DEF B!ArriveLoad
<1>13. CASE B!ArriveStore(p)
  BY <1>13 DEF B!ArriveStore
<1>14. CASE B!ArriveLast(p)
  BY <1>14 DEF B!ArriveLast
<1>15. CASE B!SpinAcquire(p)
  BY <1>15 DEF B!SpinAcquire
<1>16. CASE B!Spin(p)
  BY <1>16 DEF B!Spin
<1>17. CASE B!Return(p)
  BY <1>17 DEF B!Return
<1>18. CASE B!LeaveAcquire(p)
  BY <1>18 DEF B!LeaveAcquire
<1>19. CASE B!LeaveLoad(p)
  BY <1>19 DEF B!LeaveLoad
<1>20. CASE B!LeaveStore(p)
  BY <1>20 DEF B!LeaveStore
<1>21. CASE B!LeaveLast(p)
  BY <1>21 DEF B!LeaveLast
<1>22. CASE B!SemUnlink(p)
  BY <1>22 DEF B!SemUnlink
<1>23. CASE B!ShmUnlink(p)
  BY <1>23 DEF B!ShmUnlink
<1>24. CASE B!SemClose(p)
  BY <1>24 DEF B!SemClose
<1>25. CASE B!Unmap(p)
  BY <1>25 DEF B!Unmap
<1> QED
  BY <1>1, <1>2, <1>3, <1>4, <1>5, <1>6, <1>7, <1>8, <1>9, <1>10, <1>11, <1>12, <1>13,
     <1>14, <1>15, <1>16, <1>17, <1>18, <1>19, <1>20, <1>21, <1>22, <1>23, <1>24, <1>25
     DEF B!Step, B!Construct, B!Wait, B!Destroy
-----------------------------------------------------------------------------
\* Only memory that was created is written.
LEMMA BlankStep ==
    ASSUME ReuseTypeOK, HandleInv, BlankInv, NEW p \in Procs, B!Step(p)
    PROVE  BlankInv'
<1> USE DEF ReuseTypeOK, B!TypeOK, HandleInv, BlankInv, Mapped, B!Entering, B!Joining,
          B!Polling, B!InWait, B!Leaving, B!Closing, B!Goto, B!SemWait, B!SemPost,
          B!names, B!memory, B!shared, B!own
<1>1. CASE B!SemOpen(p)
  BY <1>1, FreshObject DEF B!SemOpen
<1>2. CASE B!InitAcquire(p)
  BY <1>2 DEF B!InitAcquire
<1>3. CASE B!ShmCreate(p)
  BY <1>3, FreshObject DEF B!ShmCreate
<1>4. CASE B!ShmInit(p)
  BY <1>4 DEF B!ShmInit
<1>5. CASE B!ShmOpen(p)
  BY <1>5 DEF B!ShmOpen
<1>6. CASE B!JoinAcquire(p)
  BY <1>6 DEF B!JoinAcquire
<1>7. CASE B!JoinLoad(p)
  BY <1>7 DEF B!JoinLoad
<1>8. CASE B!JoinStore(p)
  BY <1>8 DEF B!JoinStore
<1>9. CASE B!PollAcquire(p)
  BY <1>9 DEF B!PollAcquire
<1>10. CASE B!Poll(p)
  BY <1>10 DEF B!Poll
<1>11. CASE B!ArriveAcquire(p)
  BY <1>11 DEF B!ArriveAcquire
<1>12. CASE B!ArriveLoad(p)
  BY <1>12 DEF B!ArriveLoad
<1>13. CASE B!ArriveStore(p)
  BY <1>13 DEF B!ArriveStore
<1>14. CASE B!ArriveLast(p)
  BY <1>14 DEF B!ArriveLast
<1>15. CASE B!SpinAcquire(p)
  BY <1>15 DEF B!SpinAcquire
<1>16. CASE B!Spin(p)
  BY <1>16 DEF B!Spin
<1>17. CASE B!Return(p)
  BY <1>17 DEF B!Return
<1>18. CASE B!LeaveAcquire(p)
  BY <1>18 DEF B!LeaveAcquire
<1>19. CASE B!LeaveLoad(p)
  BY <1>19 DEF B!LeaveLoad
<1>20. CASE B!LeaveStore(p)
  BY <1>20 DEF B!LeaveStore
<1>21. CASE B!LeaveLast(p)
  BY <1>21 DEF B!LeaveLast
<1>22. CASE B!SemUnlink(p)
  BY <1>22 DEF B!SemUnlink
<1>23. CASE B!ShmUnlink(p)
  BY <1>23 DEF B!ShmUnlink
<1>24. CASE B!SemClose(p)
  BY <1>24 DEF B!SemClose
<1>25. CASE B!Unmap(p)
  BY <1>25 DEF B!Unmap
<1> QED
  BY <1>1, <1>2, <1>3, <1>4, <1>5, <1>6, <1>7, <1>8, <1>9, <1>10, <1>11, <1>12, <1>13,
     <1>14, <1>15, <1>16, <1>17, <1>18, <1>19, <1>20, <1>21, <1>22, <1>23, <1>24, <1>25
     DEF B!Step, B!Construct, B!Wait, B!Destroy

\* Before a process has its memory.
Opening == B!Entering \ {"shm_init"}

\* How the memory of a process and the name change: it keeps both, creates the
\* memory, opens it, or lets it go.
LEMMA MemoryMoves ==
    ASSUME ReuseTypeOK, NameInv, NEW p \in Procs, B!Step(p)
    PROVE  \/ /\ UNCHANGED <<shm_data_, shm_name>>
              /\ pc'[p] \in Opening => pc[p] \in Opening
           \/ /\ pc[p] \in Opening /\ pc'[p] = "shm_init"
              /\ shm_data_'[p] = shm_name' /\ shm_name' \in Objects \ created
           \/ /\ pc[p] \in Opening /\ pc'[p] = "join_wait"
              /\ shm_data_'[p] = shm_name /\ shm_name # None /\ UNCHANGED shm_name
           \/ /\ pc[p] \in B!Past /\ pc'[p] = "gone"
              /\ shm_data_'[p] = None /\ shm_name' \in {shm_name, None}
<1> USE DEF ReuseTypeOK, B!TypeOK, NameInv, Opening, B!Past, B!Entering, B!Joining,
          B!Polling, B!InWait, B!Leaving, B!Closing, B!Goto, B!SemWait, B!SemPost,
          B!names, B!memory, B!shared, B!own
<1>1. CASE B!SemOpen(p)
  BY <1>1, FreshObject DEF B!SemOpen
<1>2. CASE B!InitAcquire(p)
  BY <1>2 DEF B!InitAcquire
<1>3. CASE B!ShmCreate(p)
  BY <1>3, FreshObject DEF B!ShmCreate
<1>4. CASE B!ShmInit(p)
  BY <1>4 DEF B!ShmInit
<1>5. CASE B!ShmOpen(p)
  BY <1>5 DEF B!ShmOpen
<1>6. CASE B!JoinAcquire(p)
  BY <1>6 DEF B!JoinAcquire
<1>7. CASE B!JoinLoad(p)
  BY <1>7 DEF B!JoinLoad
<1>8. CASE B!JoinStore(p)
  BY <1>8 DEF B!JoinStore
<1>9. CASE B!PollAcquire(p)
  BY <1>9 DEF B!PollAcquire
<1>10. CASE B!Poll(p)
  BY <1>10 DEF B!Poll
<1>11. CASE B!ArriveAcquire(p)
  BY <1>11 DEF B!ArriveAcquire
<1>12. CASE B!ArriveLoad(p)
  BY <1>12 DEF B!ArriveLoad
<1>13. CASE B!ArriveStore(p)
  BY <1>13 DEF B!ArriveStore
<1>14. CASE B!ArriveLast(p)
  BY <1>14 DEF B!ArriveLast
<1>15. CASE B!SpinAcquire(p)
  BY <1>15 DEF B!SpinAcquire
<1>16. CASE B!Spin(p)
  BY <1>16 DEF B!Spin
<1>17. CASE B!Return(p)
  BY <1>17 DEF B!Return
<1>18. CASE B!LeaveAcquire(p)
  BY <1>18 DEF B!LeaveAcquire
<1>19. CASE B!LeaveLoad(p)
  BY <1>19 DEF B!LeaveLoad
<1>20. CASE B!LeaveStore(p)
  BY <1>20 DEF B!LeaveStore
<1>21. CASE B!LeaveLast(p)
  BY <1>21 DEF B!LeaveLast
<1>22. CASE B!SemUnlink(p)
  BY <1>22 DEF B!SemUnlink
<1>23. CASE B!ShmUnlink(p)
  BY <1>23 DEF B!ShmUnlink
<1>24. CASE B!SemClose(p)
  BY <1>24 DEF B!SemClose
<1>25. CASE B!Unmap(p)
  BY <1>25 DEF B!Unmap
<1> QED
  BY <1>1, <1>2, <1>3, <1>4, <1>5, <1>6, <1>7, <1>8, <1>9, <1>10, <1>11, <1>12, <1>13,
     <1>14, <1>15, <1>16, <1>17, <1>18, <1>19, <1>20, <1>21, <1>22, <1>23, <1>24, <1>25
     DEF B!Step, B!Construct, B!Wait, B!Destroy

\* A process creates its memory or opens that of its peer, never that of another run.
LEMMA ApartStep ==
    ASSUME ReuseTypeOK, OrderInv, PairInv, OwnerInv, NEW p \in Procs, Process(p)
    PROVE  ApartInv'
<1>1. /\ B!Step(p) /\ Frame(p) /\ UNCHANGED <<run, main>>
      /\ (p[1] = run /\ main \notin Before) \/ (p[1] < run /\ pc[p] \notin B!Entering)
  BY WhoSteps, FrameStep DEF B!Past, B!Entering, B!Joining, B!Polling, B!InWait,
     B!Leaving, B!Closing
<1>2. NameInv /\ HandleInv /\ ApartInv
  BY DEF OwnerInv
<1>3. None \notin Objects /\ created \subseteq Objects
  BY ReuseAssumption DEF ReuseTypeOK, B!TypeOK
<1>4. \A x \in Procs \ {p} : pc'[x] = pc[x] /\ shm_data_'[x] = shm_data_[x]
  BY <1>1 DEF Frame
<1>5. \A x \in Procs : shm_data_[x] # None => shm_data_[x] \in created
  BY <1>2 DEF HandleInv
<1>6. \A x \in Procs : Peer(x) \in Procs /\ Peer(x) # x /\ Peer(x)[1] = x[1] /\ Peer(Peer(x)) = x
  BY Peers
<1>7. \A x \in Procs : x[1] \in Int /\ run \in Int
  BY Peers DEF ReuseTypeOK
<1> USE DEF ApartInv
<1> HIDE DEF Opening
<1>8. CASE UNCHANGED <<shm_data_, shm_name>> /\ (pc'[p] \in Opening => pc[p] \in Opening)
  BY <1>1, <1>2, <1>4, <1>8 DEF Opening
<1>9. CASE /\ pc[p] \in Opening /\ pc'[p] = "shm_init"
           /\ shm_data_'[p] = shm_name' /\ shm_name' \in Objects \ created
  <2>1. p[1] = run
    BY <1>1, <1>9 DEF Opening
  <2> QED
    BY <1>1, <1>2, <1>3, <1>4, <1>5, <1>6, <1>9, <2>1, Peers
<1>10. CASE /\ pc[p] \in Opening /\ pc'[p] = "join_wait"
            /\ shm_data_'[p] = shm_name /\ shm_name # None /\ UNCHANGED shm_name
  <2>1. p[1] = run
    BY <1>1, <1>10 DEF Opening
  <2> QED
    BY <1>1, <1>2, <1>4, <1>6, <1>10, <2>1, Peers DEF B!Entering
<1>11. CASE /\ pc[p] \in B!Past /\ pc'[p] = "gone"
            /\ shm_data_'[p] = None /\ shm_name' \in {shm_name, None}
  <2>1. pc[Peer(p)] \notin B!Entering
    BY <1>11, Peers DEF PairInv, Pair, Half, B!Past, B!Entering, B!Joining, B!Polling,
       B!InWait, B!Leaving, B!Closing
  <2> QED
    BY <1>1, <1>2, <1>4, <1>6, <1>11, <2>1, Peers DEF B!Entering
<1> QED
  BY <1>1, <1>2, <1>8, <1>9, <1>10, <1>11, MemoryMoves

\* What a process owns stays its own.
LEMMA OwnerStep ==
    ASSUME ReuseTypeOK, OrderInv, PairInv, OwnerInv, NEW p \in Procs, Process(p)
    PROVE  OwnerInv'
  BY WhoSteps, NameStep, HandleStep, ApartStep, BlankStep DEF OwnerInv
-----------------------------------------------------------------------------
\* A step of p leaves the pairs of other runs alone.
LEMMA OtherPairs ==
    ASSUME ReuseTypeOK, HandleInv, ApartInv, NEW p \in Procs, Frame(p),
           NEW x \in Procs, x # p, NEW y \in Procs, y # p, x[1] # p[1], y[1] # p[1], Pair(x, y)
    PROVE  Pair(x, y)'
<1>1. /\ pc'[x] = pc[x] /\ shm_data_'[x] = shm_data_[x] /\ sense_'[x] = sense_[x]
      /\ reg'[x] = reg[x] /\ rounds'[x] = rounds[x]
      /\ pc'[y] = pc[y] /\ shm_data_'[y] = shm_data_[y] /\ sense_'[y] = sense_[y]
      /\ reg'[y] = reg[y] /\ rounds'[y] = rounds[y]
  BY DEF Frame
<1>2. /\ shm_data_[x] \in Objects \cup {None} /\ shm_data_[y] \in Objects \cup {None}
      /\ shm_data_[x] # None => shm_data_[x] # shm_data_[p]
      /\ shm_data_[y] # None => shm_data_[y] # shm_data_[p]
  BY DEF ReuseTypeOK, B!TypeOK, ApartInv
<1>3. \A z \in {x, y} : shm_data_[z] # None =>
          /\ count_'[shm_data_[z]] = count_[shm_data_[z]]
          /\ shared_sense_'[shm_data_[z]] = shared_sense_[shm_data_[z]]
          /\ n_users_'[shm_data_[z]] = n_users_[shm_data_[z]]
  BY <1>2 DEF Frame
<1>4. Half(x, y)' /\ Half(y, x)'
  BY <1>1, <1>3 DEF Pair, Half, Joined
<1>5. ASSUME NEW R \in 0 .. Waits, InRound(x, y, R), InRound(y, x, R)
      PROVE  InRound(x, y, R)' /\ InRound(y, x, R)'
  BY <1>1, <1>3, <1>5 DEF InRound
<1> QED
  BY <1>4, <1>5 DEF Pair

\* A step of one process keeps what holds of it and its peer before and after the poll.
LEMMA HalfStep ==
    ASSUME ReuseTypeOK, OwnerInv, NEW p \in Procs, NEW q \in Procs, q # p, q = Peer(p),
           pc[p] \in B!Entering => main \notin Before /\ p[1] = run,
           Pair(p, q), B!Step(p), Frame(p)
    PROVE  Half(p, q)' /\ Half(q, p)'
<1>0. /\ None \notin Objects
      /\ pc[p] = "shm_open" /\ shm_name # None => shm_data_[q] = shm_name
  BY ReuseAssumption DEF OwnerInv, ApartInv, B!Entering
<1>26. PICK R \in 0 .. Waits : InRound(p, q, R) /\ InRound(q, p, R)
  BY DEF Pair
<1> USE <1>0, <1>26 DEF ReuseTypeOK, B!TypeOK, OwnerInv, HandleInv, BlankInv, Frame, Pair,
          Half, Joined, InRound, Mapped, Spinning, B!Closed, B!Past, B!Entering, B!Joining,
          B!Polling, B!InWait, B!Leaving, B!Closing, B!Goto, B!SemWait, B!SemPost,
          B!names, B!memory, B!shared, B!own
<1>1. CASE B!SemOpen(p)
  BY <1>1, FreshObject DEF B!SemOpen
<1>2. CASE B!InitAcquire(p)
  BY <1>2 DEF B!InitAcquire
<1>3. CASE B!ShmCreate(p)
  BY <1>3, FreshObject DEF B!ShmCreate
<1>4. CASE B!ShmInit(p)
  BY <1>4 DEF B!ShmInit
<1>5. CASE B!ShmOpen(p)
  BY <1>5 DEF B!ShmOpen
<1>6. CASE B!JoinAcquire(p)
  BY <1>6 DEF B!JoinAcquire
<1>7. CASE B!JoinLoad(p)
  BY <1>7 DEF B!JoinLoad
<1>8. CASE B!JoinStore(p)
  BY <1>8 DEF B!JoinStore
<1>9. CASE B!PollAcquire(p)
  BY <1>9 DEF B!PollAcquire
<1>10. CASE B!Poll(p)
  BY <1>10 DEF B!Poll
<1>11. CASE B!ArriveAcquire(p)
  BY <1>11 DEF B!ArriveAcquire
<1>12. CASE B!ArriveLoad(p)
  BY <1>12 DEF B!ArriveLoad
<1>13. CASE B!ArriveStore(p)
  BY <1>13 DEF B!ArriveStore
<1>14. CASE B!ArriveLast(p)
  BY <1>14 DEF B!ArriveLast
<1>15. CASE B!SpinAcquire(p)
  BY <1>15 DEF B!SpinAcquire
<1>16. CASE B!Spin(p)
  BY <1>16 DEF B!Spin
<1>17. CASE B!Return(p)
  BY <1>17 DEF B!Return
<1>18. CASE B!LeaveAcquire(p)
  BY <1>18 DEF B!LeaveAcquire
<1>19. CASE B!LeaveLoad(p)
  BY <1>19 DEF B!LeaveLoad
<1>20. CASE B!LeaveStore(p)
  BY <1>20 DEF B!LeaveStore
<1>21. CASE B!LeaveLast(p)
  BY <1>21 DEF B!LeaveLast
<1>22. CASE B!SemUnlink(p)
  BY <1>22 DEF B!SemUnlink
<1>23. CASE B!ShmUnlink(p)
  BY <1>23 DEF B!ShmUnlink
<1>24. CASE B!SemClose(p)
  BY <1>24 DEF B!SemClose
<1>25. CASE B!Unmap(p)
  BY <1>25 DEF B!Unmap
<1> QED
  BY <1>1, <1>2, <1>3, <1>4, <1>5, <1>6, <1>7, <1>8, <1>9, <1>10, <1>11, <1>12, <1>13,
     <1>14, <1>15, <1>16, <1>17, <1>18, <1>19, <1>20, <1>21, <1>22, <1>23, <1>24, <1>25
     DEF B!Step, B!Construct, B!Wait, B!Destroy

\* Until both have joined, nobody has been in a round.
LEMMA RoundZero ==
    ASSUME ReuseTypeOK, NEW p \in Procs, NEW q \in Procs, q # p, Pair(p, q), Frame(p),
           pc[p] \in B!Entering \cup B!Joining, pc'[p] \notin B!Past, UNCHANGED rounds
    PROVE  \E R \in 0 .. Waits : InRound(p, q, R)' /\ InRound(q, p, R)'
<1>1. pc[p] \notin B!Polling \cup B!Past
  BY DEF B!Entering, B!Joining, B!Polling, B!Past, B!InWait, B!Leaving, B!Closing
<1>2. pc[q] \notin B!Past /\ rounds[p] = 0 /\ rounds[q] = 0
  BY <1>1 DEF Pair, Half
<1>3. pc'[q] = pc[q] /\ pc'[q] \notin B!Past /\ rounds'[p] = 0 /\ rounds'[q] = 0
  BY <1>2 DEF Frame
<1>4. pc'[p] \notin {"return", "arrive_store"} /\ pc'[q] \notin {"return", "arrive_store"}
  BY <1>3 DEF B!Past, B!InWait
<1>5. InRound(p, q, 0)' /\ InRound(q, p, 0)'
  BY <1>3, <1>4 DEF InRound
<1> QED
  BY <1>5, ReuseAssumption

\* A step of one process keeps the two in one round; the last to arrive begins the next.
LEMMA RoundStep ==
    ASSUME ReuseTypeOK, OwnerInv, NEW p \in Procs, NEW q \in Procs, q # p, q = Peer(p),
           Pair(p, q), B!Step(p), Frame(p)
    PROVE  \E R \in 0 .. Waits : InRound(p, q, R)' /\ InRound(q, p, R)'
<1>0. None \notin Objects
  BY ReuseAssumption
<1>26. PICK R \in 0 .. Waits : InRound(p, q, R) /\ InRound(q, p, R)
  BY DEF Pair
<1> USE <1>0, <1>26 DEF ReuseTypeOK, B!TypeOK, OwnerInv, HandleInv, BlankInv, Frame, Pair,
          Half, Joined, InRound, Mapped, Spinning, B!Closed, B!Past, B!Entering, B!Joining,
          B!Polling, B!InWait, B!Leaving, B!Closing, B!Goto, B!SemWait, B!SemPost,
          B!names, B!memory, B!shared, B!own
<1>1. CASE B!SemOpen(p)
  <2>1. pc[p] \in B!Entering \cup B!Joining /\ pc'[p] \notin B!Past /\ UNCHANGED rounds
    BY <1>1 DEF B!SemOpen
  <2> HIDE DEF ReuseTypeOK, Frame, Pair, InRound, B!Past, B!Entering, B!Joining
  <2> QED
    BY <2>1, RoundZero
<1>2. CASE B!InitAcquire(p)
  <2>1. pc[p] \in B!Entering \cup B!Joining /\ pc'[p] \notin B!Past /\ UNCHANGED rounds
    BY <1>2 DEF B!InitAcquire
  <2> HIDE DEF ReuseTypeOK, Frame, Pair, InRound, B!Past, B!Entering, B!Joining
  <2> QED
    BY <2>1, RoundZero
<1>3. CASE B!ShmCreate(p)
  <2>1. pc[p] \in B!Entering \cup B!Joining /\ pc'[p] \notin B!Past /\ UNCHANGED rounds
    BY <1>3 DEF B!ShmCreate
  <2> HIDE DEF ReuseTypeOK, Frame, Pair, InRound, B!Past, B!Entering, B!Joining
  <2> QED
    BY <2>1, RoundZero
<1>4. CASE B!ShmInit(p)
  <2>1. pc[p] \in B!Entering \cup B!Joining /\ pc'[p] \notin B!Past /\ UNCHANGED rounds
    BY <1>4 DEF B!ShmInit
  <2> HIDE DEF ReuseTypeOK, Frame, Pair, InRound, B!Past, B!Entering, B!Joining
  <2> QED
    BY <2>1, RoundZero
<1>5. CASE B!ShmOpen(p)
  <2>1. pc[p] \in B!Entering \cup B!Joining /\ pc'[p] \notin B!Past /\ UNCHANGED rounds
    BY <1>5 DEF B!ShmOpen
  <2> HIDE DEF ReuseTypeOK, Frame, Pair, InRound, B!Past, B!Entering, B!Joining
  <2> QED
    BY <2>1, RoundZero
<1>6. CASE B!JoinAcquire(p)
  <2>1. pc[p] \in B!Entering \cup B!Joining /\ pc'[p] \notin B!Past /\ UNCHANGED rounds
    BY <1>6 DEF B!JoinAcquire
  <2> HIDE DEF ReuseTypeOK, Frame, Pair, InRound, B!Past, B!Entering, B!Joining
  <2> QED
    BY <2>1, RoundZero
<1>7. CASE B!JoinLoad(p)
  <2>1. pc[p] \in B!Entering \cup B!Joining /\ pc'[p] \notin B!Past /\ UNCHANGED rounds
    BY <1>7 DEF B!JoinLoad
  <2> HIDE DEF ReuseTypeOK, Frame, Pair, InRound, B!Past, B!Entering, B!Joining
  <2> QED
    BY <2>1, RoundZero
<1>8. CASE B!JoinStore(p)
  <2>1. pc[p] \in B!Entering \cup B!Joining /\ pc'[p] \notin B!Past /\ UNCHANGED rounds
    BY <1>8 DEF B!JoinStore
  <2> HIDE DEF ReuseTypeOK, Frame, Pair, InRound, B!Past, B!Entering, B!Joining
  <2> QED
    BY <2>1, RoundZero
<1>9. CASE B!PollAcquire(p)
  <2>1. /\ pc'[q] = pc[q] /\ UNCHANGED <<shm_data_, sense_, rounds, reg>>
        /\ UNCHANGED <<count_, shared_sense_, n_users_>>
        /\ pc'[p] = "poll" /\ pc[p] = "poll_wait"
    BY <1>9 DEF B!PollAcquire
  <2> HIDE DEF ReuseTypeOK, OwnerInv, HandleInv, BlankInv, Frame, Pair, Half
  <2>2. InRound(p, q, R)'
    BY <2>1
  <2>3. InRound(q, p, R)'
    BY <2>1
  <2> QED
    BY <2>2, <2>3
<1>10. CASE B!Poll(p)
  <2>1. /\ pc'[q] = pc[q] /\ UNCHANGED <<shm_data_, sense_, rounds, reg>>
        /\ UNCHANGED <<count_, shared_sense_, n_users_>>
        /\ pc'[p] \in {"ready", "poll_wait"} /\ pc[p] = "poll"
    BY <1>10 DEF B!Poll
  <2>2. CASE pc[q] \in B!Past
    <3>1. InRound(p, q, R)'
      BY <2>1, <2>2
    <3>2. InRound(q, p, R)'
      BY <2>1, <2>2
    <3> QED
      BY <3>1, <3>2
  <2>3. CASE pc[q] \notin B!Past
    <3>1. rounds[p] = 0 /\ rounds[q] = 0 /\ R = 0
      BY <2>1, <2>3
    <3>2. /\ sense_[p] = TRUE /\ sense_[q] = TRUE
          /\ \A o \in {shm_data_[p], shm_data_[q]} :
                o # None => count_[o] = 0 /\ shared_sense_[o] = FALSE
      BY <2>1, <2>3
    <3>3. pc[q] \notin {"spin_wait", "spin", "return", "arrive_store"}
      BY <2>3
    <3> USE <2>1, <3>1, <3>2, <3>3
    <3> HIDE DEF ReuseTypeOK, OwnerInv, HandleInv, BlankInv, Frame, Pair, Half
    <3>4. InRound(p, q, 0)'
      BY DEF InRound
    <3>5. InRound(q, p, 0)'
      BY DEF InRound
    <3> QED
      BY <3>4, <3>5
  <2> QED
    BY <2>2, <2>3
<1>11. CASE B!ArriveAcquire(p)
  BY <1>11 DEF B!ArriveAcquire
<1>12. CASE B!ArriveLoad(p)
  BY <1>12 DEF B!ArriveLoad
<1>13. CASE B!ArriveStore(p)
  BY <1>13 DEF B!ArriveStore
<1>14. CASE B!ArriveLast(p)
  <2> DEFINE o == shm_data_[p]
  <2>0. reg[p] = 1 /\ pc[p] = "arrive_store"
    BY <1>14 DEF B!ArriveLast
  <2>6. pc[q] \in Spinning /\ rounds[q] = R /\ rounds[p] = R
    BY <2>0
  <2>7. rounds[p] < Waits /\ R + 1 \in 0 .. Waits
    BY <2>0, <2>6, ReuseAssumption
  <2>8. o \in Objects /\ shm_data_[q] = o
    BY <2>0, <2>6
  <2>1. /\ reg[p] = 1 /\ pc[q] \in Spinning /\ rounds[q] = R /\ rounds[p] = R
        /\ R + 1 \in 0 .. Waits /\ o \in Objects /\ shm_data_[q] = o
    BY <2>0, <2>6, <2>7, <2>8
  <2>2. /\ UNCHANGED <<rounds, sense_, shm_data_>> /\ pc'[p] = "return" /\ pc'[q] = pc[q]
        /\ count_'[o] = 0 /\ shared_sense_'[o] = ~shared_sense_[o]
    BY <1>14, <2>1 DEF B!ArriveLast
  <2>3. shared_sense_[o] # sense_[p] /\ shared_sense_[o] # sense_[q]
    BY <1>14, <2>1 DEF B!ArriveLast
  <2>4. shared_sense_'[o] = sense_[p] /\ shared_sense_'[o] = sense_[q]
    <3>1. shared_sense_[o] \in BOOLEAN /\ sense_[p] \in BOOLEAN /\ sense_[q] \in BOOLEAN
      BY <2>1
    <3> QED
      BY <2>2, <2>3, <3>1
  <2>5. InRound(p, q, R + 1)' /\ InRound(q, p, R + 1)'
    BY <2>1, <2>2, <2>4
  <2> QED
    BY <2>1, <2>5
<1>15. CASE B!SpinAcquire(p)
  BY <1>15 DEF B!SpinAcquire
<1>16. CASE B!Spin(p)
  BY <1>16 DEF B!Spin
<1>17. CASE B!Return(p)
  BY <1>17 DEF B!Return
<1>18. CASE B!LeaveAcquire(p)
  BY <1>18 DEF B!LeaveAcquire
<1>19. CASE B!LeaveLoad(p)
  BY <1>19 DEF B!LeaveLoad
<1>20. CASE B!LeaveStore(p)
  BY <1>20 DEF B!LeaveStore
<1>21. CASE B!LeaveLast(p)
  BY <1>21 DEF B!LeaveLast
<1>22. CASE B!SemUnlink(p)
  BY <1>22 DEF B!SemUnlink
<1>23. CASE B!ShmUnlink(p)
  BY <1>23 DEF B!ShmUnlink
<1>24. CASE B!SemClose(p)
  BY <1>24 DEF B!SemClose
<1>25. CASE B!Unmap(p)
  BY <1>25 DEF B!Unmap
<1> QED
  BY <1>1, <1>2, <1>3, <1>4, <1>5, <1>6, <1>7, <1>8, <1>9, <1>10, <1>11, <1>12, <1>13,
     <1>14, <1>15, <1>16, <1>17, <1>18, <1>19, <1>20, <1>21, <1>22, <1>23, <1>24, <1>25
     DEF B!Step, B!Construct, B!Wait, B!Destroy
-----------------------------------------------------------------------------
\* A step keeps the pairs of all runs.
LEMMA PairStep ==
    ASSUME ReuseTypeOK, OrderInv, PairInv, OwnerInv, NEW p \in Procs, Process(p)
    PROVE  PairInv'
<1>1. /\ B!Step(p) /\ Frame(p)
      /\ pc[p] \in B!Entering => main \notin Before /\ p[1] = run
  BY WhoSteps, FrameStep DEF B!Entering, B!Polling, B!Past, B!InWait, B!Leaving, B!Closing
<1>2. Pair(p, Peer(p))'
  <2>1. Peer(p) \in Procs /\ Peer(p) # p /\ Pair(p, Peer(p))
    BY Peers DEF PairInv
  <2> DEFINE q == Peer(p)
  <2>2. Half(p, q)' /\ Half(q, p)'
    BY <1>1, <2>1, HalfStep
  <2>3. \E R \in 0 .. Waits : InRound(p, q, R)' /\ InRound(q, p, R)'
    BY <1>1, <2>1, RoundStep
  <2> QED
    BY <2>2, <2>3 DEF Pair
<1>3. ASSUME NEW x \in Procs PROVE Pair(x, Peer(x))'
  <2>1. Peer(x) \in Procs /\ Pair(x, Peer(x)) /\ Peer(x)[1] = x[1]
    BY Peers DEF PairInv
  <2>2. CASE x = p
    BY <1>2, <2>2
  <2>3. CASE x = Peer(p)
    <3>1. Peer(x) = p
      BY <2>3, Peers
    <3> QED
      BY <1>2, <2>3, <3>1 DEF Pair
  <2>4. CASE x # p /\ x # Peer(p)
    <3>1. x[1] # p[1] /\ Peer(x) # p
      BY <2>1, <2>4, Peers
    <3> DEFINE y == Peer(x)
    <3>2. HandleInv /\ ApartInv
      BY DEF OwnerInv
    <3>3. Pair(x, y)'
      <4>1. y \in Procs /\ y # p /\ y[1] # p[1] /\ Pair(x, y)
        BY <2>1, <3>1
      <4> HIDE DEF y
      <4> QED
        BY <1>1, <2>4, <3>1, <3>2, <4>1, OtherPairs
    <3> QED
      BY <3>3
  <2> QED
    BY <2>2, <2>3, <2>4
<1> QED
  BY <1>3 DEF PairInv

\* The steps of the main program, and those that do nothing.
MainSteps == ClearSem \/ ClearShm \/ Fork \/ NextRun \/ UNCHANGED vars

\* The unlinks, the fork and the next run disturb no pair, not even of stragglers.
LEMMA MainStep ==
    ASSUME SafeInv, MainSteps
    PROVE  SafeInv'
<1> USE DEF SafeInv, MainSteps, ClearSem, ClearShm, Fork, NextRun, vars, barrier, Before
<1>1. /\ UNCHANGED <<created, value, count_, shared_sense_, n_users_, shm_sem_,
                     shm_data_, sense_, reg, rounds, pc, harness>>
      /\ sem_name' \in {sem_name, None} /\ shm_name' \in {shm_name, None}
  OBVIOUS
<1>2. ReuseTypeOK'
  <2>1. run \in Int /\ Runs[harness] \in Int /\ run' \in 1 .. Runs[harness]
    BY MostRuns DEF ReuseTypeOK
  <2> QED
    BY <1>1, <2>1 DEF ReuseTypeOK, B!TypeOK
<1>3. OrderInv'
  <2>1. run \in Int /\ \A x \in Procs : x[1] \in Int /\ x = <<x[1], x[2]>>
    BY Peers DEF ReuseTypeOK
  <2> QED
    BY <1>1, <2>1 DEF OrderInv
<1>4. NameInv' /\ HandleInv' /\ BlankInv'
  BY <1>1 DEF OwnerInv, NameInv, HandleInv, BlankInv
<1>5. ApartInv'
  <2>1. run' = run \/ main' \in Before
    OBVIOUS
  <2>2. CASE main \in Before /\ main' \notin Before
    BY <1>1, <2>2 DEF OwnerInv, NameInv, ApartInv
  <2>3. CASE main \in Before <=> main' \in Before
    BY <1>1, <2>1, <2>3 DEF OwnerInv, ApartInv
  <2>4. CASE main' \in Before
    BY <1>1, <2>4 DEF OwnerInv, ApartInv
  <2> QED
    BY <2>2, <2>3, <2>4
<1>6. PairInv'
  <2>1. ASSUME NEW x \in Procs, NEW y \in Procs, Pair(x, y)
        PROVE  Pair(x, y)'
    BY <1>1, <2>1 DEF Pair, Half, InRound, Joined
  <2> QED
    BY <2>1, Peers DEF PairInv
<1> QED
  BY <1>2, <1>3, <1>4, <1>5, <1>6 DEF OwnerInv

\* Every step keeps this part of the invariant.
LEMMA SafeStep ==
    ASSUME SafeInv, [Next]_vars
    PROVE  SafeInv'
<1>1. ASSUME NEW p \in Procs, Process(p)
      PROVE  SafeInv'
  <2>1. ReuseTypeOK'
    BY <1>1, TypeStep, WhoSteps DEF SafeInv, OwnerInv, ReuseTypeOK
  <2> QED
    BY <1>1, <2>1, OrderStep, OwnerStep, PairStep DEF SafeInv
<1>2. CASE MainSteps
  BY <1>2, MainStep
<1> QED
  BY <1>1, <1>2 DEF Next, MainSteps, Done

\* It holds at first, whatever a killed program left behind.
LEMMA SafeInit ==
    ASSUME Init
    PROVE  SafeInv
<1>1. harness \in Harnesses /\ run = 1 /\ main = "clear_sem" /\ Runs[harness] \in Nat \ {0}
  BY ReuseAssumption DEF Init
<1>2. /\ shm_sem_ = [p \in Procs |-> None] /\ shm_data_ = [p \in Procs |-> None]
      /\ sense_ = [p \in Procs |-> TRUE] /\ reg = [p \in Procs |-> 0]
      /\ rounds = [p \in Procs |-> 0] /\ pc = [p \in Procs |-> "start"]
  BY DEF Init, B!Init, InitStale
<1>3. /\ sem_name \in created \cup {None} /\ shm_name \in created \cup {None}
      /\ created \subseteq Objects /\ value = [o \in Objects |-> 0]
      /\ count_ \in [Objects -> Int] /\ shared_sense_ \in [Objects -> BOOLEAN]
      /\ n_users_ \in [Objects -> Int] /\ BlankInv
  <2>1. CASE B!Init
    BY <2>1 DEF B!Init, BlankInv
  <2>2. CASE InitStale
    <3> DEFINE s == CHOOSE o \in Objects : TRUE
               m == CHOOSE o \in Objects : o # s
    <3>1. \E a, b \in Objects : a # b
      <4>1. ASSUME \A a, b \in Objects : a = b
            PROVE  FALSE
        <5>1. Objects = {} \/ \E a \in Objects : Objects = {a}
          BY <4>1
        <5>2. Cardinality(Objects) \in {0, 1}
          BY <5>1, FS_EmptySet, FS_Singleton
        <5> QED
          BY <5>2, ReuseAssumption
      <4> QED
        BY <4>1
    <3>2. s \in Objects
      BY <3>1
    <3>3. \E o \in Objects : o # s
      BY <3>1
    <3>4. m \in Objects
      <4> HIDE DEF s
      <4> QED
        BY <3>3
    <3>5. /\ sem_name = s /\ shm_name = m /\ created = {s, m} /\ value = [o \in Objects |-> 0]
          /\ count_ = [o \in Objects |-> IF o = m THEN 1 ELSE 0]
          /\ shared_sense_ = [o \in Objects |-> o = m]
          /\ n_users_ = [o \in Objects |-> IF o = m THEN 1 ELSE 0]
      BY <2>2 DEF InitStale
    <3> HIDE DEF s, m
    <3>6. \A o \in Objects : shared_sense_[o] = (o = m)
      BY <3>5
    <3>7. /\ shared_sense_ \in [Objects -> BOOLEAN]
          /\ count_ \in [Objects -> Int] /\ n_users_ \in [Objects -> Int]
      BY <3>5
    <3>8. BlankInv
      <4>1. \A o \in Objects \ created : o # m
        BY <3>5
      <4>2. \A o \in Objects \ created : shared_sense_[o] = FALSE
        BY <3>6, <4>1
      <4> QED
        BY <3>5, <4>1, <4>2 DEF BlankInv
    <3> QED
      BY <3>2, <3>4, <3>5, <3>7, <3>8
  <2> QED
    BY <2>1, <2>2 DEF Init
<1>4. ReuseTypeOK
  BY <1>1, <1>2, <1>3 DEF ReuseTypeOK, B!TypeOK, Before, B!Lines, B!Entering
<1>5. OrderInv
  <2>1. \A p \in Procs : p[1] \in 1 .. MaxRuns /\ MaxRuns \in Nat
    BY <1>1, Peers, MostRuns
  <2> QED
    BY <1>1, <1>2, <2>1 DEF OrderInv
<1>6. OwnerInv
  <2>1. None \notin Objects
    BY ReuseAssumption
  <2>2. NameInv
    BY <1>1, <1>3 DEF NameInv
  <2>3. HandleInv
    BY <1>2 DEF HandleInv, B!Closed, Mapped, B!Joining, B!Polling, B!InWait, B!Leaving,
       B!Closing
  <2>4. ApartInv
    BY <1>1, <1>2 DEF ApartInv, Before
  <2> QED
    BY <1>3, <2>2, <2>3, <2>4 DEF OwnerInv
<1>7. ASSUME NEW p \in Procs, NEW q \in Procs
      PROVE  Pair(p, q)
  <2> USE DEF B!Past, B!InWait, B!Leaving, B!Closing, Spinning
  <2>1. Half(p, q) /\ Half(q, p)
    BY <1>2 DEF Half
  <2>2. InRound(p, q, 0) /\ InRound(q, p, 0)
    BY <1>2 DEF InRound
  <2>3. 0 \in 0 .. Waits
    BY ReuseAssumption
  <2> QED
    BY <2>1, <2>2, <2>3 DEF Pair
<1> QED
  BY <1>4, <1>5, <1>6, <1>7, Peers DEF SafeInv, PairInv

\* The two processes of a run are in the same round or in rounds that follow.
LEMMA PairIsSafe ==
    ASSUME ReuseTypeOK, NEW p \in Procs, NEW q \in Procs, Pair(p, q)
    PROVE  rounds[p] <= B!Arrived(q)
<1>1. PICK R \in 0 .. Waits : InRound(p, q, R) /\ InRound(q, p, R)
  BY DEF Pair
<1>2. rounds[p] \in Int /\ rounds[q] \in Int
  BY DEF ReuseTypeOK, B!TypeOK
<1> QED
  BY <1>1, <1>2 DEF InRound, B!Arrived, Spinning

\* The barrier separates the rounds of every run (Wait, barrier.cc:99-133), also when
\* a straggler of an earlier run unlinks the names of this one (barrier_test.cc:24-39).
THEOREM RunsAreSeparate == Spec => []RunsAreSafe
<1>1. ASSUME SafeInv, NEW r \in 1 .. run, NEW a \in Sides, NEW b \in Sides
      PROVE  rounds[<<r, a>>] <= B!Arrived(<<r, b>>)
  <2> DEFINE p == <<r, a>>
  <2>1. p \in Procs /\ <<r, b>> \in Procs /\ rounds[p] \in Nat
    BY <1>1, MostRuns DEF SafeInv, ReuseTypeOK, B!TypeOK, Procs, Sides
  <2>2. CASE a = b
    BY <2>1, <2>2 DEF B!Arrived
  <2>3. CASE a # b
    <3>1. <<r, b>> = Peer(p)
      BY <2>3 DEF Peer, Sides
    <3>2. Pair(p, Peer(p))
      BY <1>1, <2>1 DEF SafeInv, PairInv
    <3> QED
      BY <1>1, <2>1, <3>1, <3>2, PairIsSafe DEF SafeInv
  <2> QED
    BY <2>2, <2>3
<1>2. SafeInv => RunsAreSafe
  BY <1>1 DEF RunsAreSafe, Sides
<1> QED
  BY <1>2, SafeInit, SafeStep, PTL DEF Spec
-----------------------------------------------------------------------------
\* A step of a process of this run is a step of the one barrier.
LEMMA CurrentStep ==
    ASSUME ReuseTypeOK, NEW s \in Sides, NEW p \in Procs, p = <<run, s>>, B!Step(p), run' = run
    PROVE  Cur!Step(s)
<1>0. Frame(p) /\ \A t \in Sides : <<run, t>> \in Procs /\ (t # s => <<run, t>> # p)
  BY FrameStep, MostRuns DEF ReuseTypeOK, Procs, Sides
<1>26. /\ UNCHANGED shm_sem_ => UNCHANGED OfRun(shm_sem_)
       /\ UNCHANGED shm_data_ => UNCHANGED OfRun(shm_data_)
       /\ UNCHANGED sense_ => UNCHANGED OfRun(sense_)
       /\ UNCHANGED reg => UNCHANGED OfRun(reg)
       /\ UNCHANGED rounds => UNCHANGED OfRun(rounds)
       /\ UNCHANGED pc => UNCHANGED OfRun(pc)
  BY DEF OfRun
<1>27. /\ OfRun(shm_sem_)[s] = shm_sem_[p]
       /\ OfRun(shm_data_)[s] = shm_data_[p]
       /\ OfRun(sense_)[s] = sense_[p]
       /\ OfRun(reg)[s] = reg[p]
       /\ OfRun(rounds)[s] = rounds[p]
       /\ OfRun(pc)[s] = pc[p]
  BY DEF OfRun
<1>28. /\ DOMAIN shm_sem_ = Procs
       /\ DOMAIN shm_data_ = Procs
       /\ DOMAIN sense_ = Procs
       /\ DOMAIN reg = Procs
       /\ DOMAIN rounds = Procs
       /\ DOMAIN pc = Procs
  BY DEF ReuseTypeOK, B!TypeOK
<1>29. /\ OfRun(shm_sem_)' = [OfRun(shm_sem_) EXCEPT ![s] = shm_sem_'[p]]
       /\ OfRun(shm_data_)' = [OfRun(shm_data_) EXCEPT ![s] = shm_data_'[p]]
       /\ OfRun(sense_)' = [OfRun(sense_) EXCEPT ![s] = sense_'[p]]
       /\ OfRun(reg)' = [OfRun(reg) EXCEPT ![s] = reg'[p]]
       /\ OfRun(rounds)' = [OfRun(rounds) EXCEPT ![s] = rounds'[p]]
       /\ OfRun(pc)' = [OfRun(pc) EXCEPT ![s] = pc'[p]]
  BY <1>0 DEF OfRun, Frame
<1> USE <1>26, <1>27, <1>28, <1>29 DEF B!Goto, B!SemWait, B!SemPost, B!names, B!memory,
          B!shared, B!own, Cur!CanCreate, B!CanCreate, Cur!NewObject, B!NewObject,
          Cur!Goto, Cur!SemWait, Cur!SemPost, Cur!names, Cur!memory, Cur!shared, Cur!own
<1>1. B!SemOpen(p) => Cur!SemOpen(s)
  BY DEF B!SemOpen, Cur!SemOpen
<1>2. B!InitAcquire(p) => Cur!InitAcquire(s)
  BY DEF B!InitAcquire, Cur!InitAcquire
<1>3. B!ShmCreate(p) => Cur!ShmCreate(s)
  BY DEF B!ShmCreate, Cur!ShmCreate
<1>4. B!ShmInit(p) => Cur!ShmInit(s)
  BY DEF B!ShmInit, Cur!ShmInit
<1>5. B!ShmOpen(p) => Cur!ShmOpen(s)
  BY DEF B!ShmOpen, Cur!ShmOpen
<1>6. B!JoinAcquire(p) => Cur!JoinAcquire(s)
  BY DEF B!JoinAcquire, Cur!JoinAcquire
<1>7. B!JoinLoad(p) => Cur!JoinLoad(s)
  BY DEF B!JoinLoad, Cur!JoinLoad
<1>8. B!JoinStore(p) => Cur!JoinStore(s)
  BY DEF B!JoinStore, Cur!JoinStore
<1>9. B!PollAcquire(p) => Cur!PollAcquire(s)
  BY DEF B!PollAcquire, Cur!PollAcquire
<1>10. B!Poll(p) => Cur!Poll(s)
  BY DEF B!Poll, Cur!Poll
<1>11. B!ArriveAcquire(p) => Cur!ArriveAcquire(s)
  BY DEF B!ArriveAcquire, Cur!ArriveAcquire
<1>12. B!ArriveLoad(p) => Cur!ArriveLoad(s)
  BY DEF B!ArriveLoad, Cur!ArriveLoad
<1>13. B!ArriveStore(p) => Cur!ArriveStore(s)
  BY DEF B!ArriveStore, Cur!ArriveStore
<1>14. B!ArriveLast(p) => Cur!ArriveLast(s)
  BY DEF B!ArriveLast, Cur!ArriveLast
<1>15. B!SpinAcquire(p) => Cur!SpinAcquire(s)
  BY DEF B!SpinAcquire, Cur!SpinAcquire
<1>16. B!Spin(p) => Cur!Spin(s)
  BY DEF B!Spin, Cur!Spin
<1>17. B!Return(p) => Cur!Return(s)
  BY DEF B!Return, Cur!Return
<1>18. B!LeaveAcquire(p) => Cur!LeaveAcquire(s)
  BY DEF B!LeaveAcquire, Cur!LeaveAcquire
<1>19. B!LeaveLoad(p) => Cur!LeaveLoad(s)
  BY DEF B!LeaveLoad, Cur!LeaveLoad
<1>20. B!LeaveStore(p) => Cur!LeaveStore(s)
  BY DEF B!LeaveStore, Cur!LeaveStore
<1>21. B!LeaveLast(p) => Cur!LeaveLast(s)
  BY DEF B!LeaveLast, Cur!LeaveLast
<1>22. B!SemUnlink(p) => Cur!SemUnlink(s)
  BY DEF B!SemUnlink, Cur!SemUnlink
<1>23. B!ShmUnlink(p) => Cur!ShmUnlink(s)
  BY DEF B!ShmUnlink, Cur!ShmUnlink
<1>24. B!SemClose(p) => Cur!SemClose(s)
  BY DEF B!SemClose, Cur!SemClose
<1>25. B!Unmap(p) => Cur!Unmap(s)
  BY DEF B!Unmap, Cur!Unmap
<1> QED
  BY <1>1, <1>2, <1>3, <1>4, <1>5, <1>6, <1>7, <1>8, <1>9, <1>10, <1>11, <1>12, <1>13,
     <1>14, <1>15, <1>16, <1>17, <1>18, <1>19, <1>20, <1>21, <1>22, <1>23, <1>24, <1>25
     DEF B!Step, B!Construct, B!Wait, B!Destroy, Cur!Step, Cur!Construct, Cur!Wait,
     Cur!Destroy
-----------------------------------------------------------------------------
\* The two processes of a run are all the users of its barrier.
LEMMA TwoUsers == Cur!BarrierAssumption /\ Cur!OneBarrier
<1>1. IsFiniteSet({"parent"}) /\ Cardinality({"parent"}) = 1
  BY FS_Singleton
<1>2. Sides = {"parent"} \cup {"child"} /\ "child" \notin {"parent"}
  BY DEF Sides
<1>3. IsFiniteSet(Sides) /\ Cardinality(Sides) = 2
  BY <1>1, <1>2, FS_AddElement
<1>4. Cur!IsFiniteSet(Sides)
  BY <1>3 DEF Cur!IsFiniteSet, IsFiniteSet
<1>5. Cur!Cardinality(Sides) = Cardinality(Sides)
  BY DEF Cur!Cardinality, Cardinality
<1> QED
  BY <1>3, <1>4, <1>5, ReuseAssumption DEF Cur!BarrierAssumption, Cur!OneBarrier

\* After both unlinks a run begins like the first use of a barrier.
LEMMA FreshRun ==
    ASSUME SafeInv, main = "fork"
    PROVE  Cur!IInv
<1>1. run \in 1 .. MaxRuns /\ \A s \in Sides : <<run, s>> \in Procs
  BY MostRuns DEF SafeInv, ReuseTypeOK, Procs, Sides
<1>2. \A s \in Sides : pc[<<run, s>>] = "start"
  BY <1>1 DEF SafeInv, OrderInv, Before
<1>3. \A s \in Sides : shm_sem_[<<run, s>>] = None /\ shm_data_[<<run, s>>] = None
  BY <1>1, <1>2 DEF SafeInv, OwnerInv, HandleInv, B!Closed, Mapped, B!Joining, B!Polling,
     B!InWait, B!Leaving, B!Closing
<1>4. \A s \in Sides : rounds[<<run, s>>] = 0 /\ sense_[<<run, s>>] = TRUE
  BY <1>1, <1>2 DEF SafeInv, PairInv, Pair, Half, B!Past, B!InWait, B!Leaving, B!Closing
<1>5. sem_name = None /\ shm_name = None
  BY DEF SafeInv, OwnerInv, NameInv
<1>6. \A s \in Sides : /\ OfRun(pc)[s] = "start"
                       /\ OfRun(shm_sem_)[s] = None /\ OfRun(shm_data_)[s] = None
                       /\ OfRun(rounds)[s] = 0 /\ OfRun(sense_)[s] = TRUE
  BY <1>2, <1>3, <1>4 DEF OfRun
<1>7. Cur!TypeOK
  <2>1. \A s \in Sides : reg[<<run, s>>] \in Int
    BY <1>1 DEF SafeInv, ReuseTypeOK, B!TypeOK
  <2>2. /\ OfRun(pc) \in [Sides -> Cur!Lines]
        /\ OfRun(rounds) \in [Sides -> Nat]
    BY <1>2, <1>4 DEF OfRun, Cur!Lines, Cur!Entering
  <2>3. /\ OfRun(shm_sem_) \in [Sides -> Objects \cup {None}]
        /\ OfRun(shm_data_) \in [Sides -> Objects \cup {None}]
        /\ OfRun(sense_) \in [Sides -> BOOLEAN]
        /\ OfRun(reg) \in [Sides -> Int]
    BY <1>3, <1>4, <2>1 DEF OfRun
  <2> QED
    BY <2>2, <2>3 DEF SafeInv, ReuseTypeOK, B!TypeOK, Cur!TypeOK
<1> USE <1>5, <1>6 DEF Cur!Closed, Cur!Unmapped, Cur!Past, Cur!Entering, Cur!Joining,
          Cur!Polling, Cur!InWait, Cur!Leaving, Cur!Closing, Cur!Locked, Cur!Initialized
<1>8. Cur!HandleInv /\ Cur!ClosingInv /\ Cur!LockInv /\ Cur!LoadInv /\ Cur!UserInv
  BY DEF Cur!HandleInv, Cur!ClosingInv, Cur!LockInv, Cur!LoadInv, Cur!UserInv
<1>9. Cur!LeaveInv
  BY DEF Cur!LeaveInv, Cur!NoEarlyLeave, Cur!LastUserUnlinks
<1>10. Cur!RoundInv
  <2>1. Cur!InRound(0)
    BY DEF Cur!InRound, Cur!RoundsOK
  <2> QED
    BY <2>1, ReuseAssumption DEF Cur!RoundInv
<1> QED
  BY <1>7, <1>8, <1>9, <1>10 DEF Cur!IInv

\* With waitpid, one barrier follows the other: each is gone before the next begins.
LEMMA OneStep ==
    ASSUME SafeInv, OneInv, [Next]_vars
    PROVE  OneInv'
<1> SUFFICES ASSUME harness' # "constructor"
             PROVE  OneInv'
  BY DEF OneInv
<1>0. /\ harness' = harness
      /\ main \notin Before => Cur!IInv
      /\ \A p \in Procs : p[1] < run => pc[p] = "gone"
      /\ harness = "latency" => \A p \in Procs :
            p[1] = run /\ p[2] = "parent" /\ pc[p] \in B!Leaving => Reaped(run)
  BY DEF OneInv, Next, ClearSem, ClearShm, Fork, NextRun, Process, Done, vars
<1>6. /\ run \in 1 .. MaxRuns /\ run \in Nat /\ MaxRuns \in Nat
      /\ \A s \in Sides : <<run, s>> \in Procs
      /\ main \in Before \cup {"running", "done"}
  BY MostRuns DEF SafeInv, ReuseTypeOK, Procs, Sides
<1>1. ASSUME NEW p \in Procs, Process(p)
      PROVE  OneInv'
  <2>1. B!Step(p) /\ run' = run /\ main' = main
    BY <1>1 DEF Process, B!Step
  <2>2. pc[p] \notin {"gone", "aborted"}
    BY <2>1 DEF B!Step, B!Construct, B!Wait, B!Destroy, B!SemOpen, B!InitAcquire,
       B!ShmCreate, B!ShmInit, B!ShmOpen, B!JoinAcquire, B!JoinLoad, B!JoinStore,
       B!PollAcquire, B!Poll, B!ArriveAcquire, B!ArriveLoad, B!ArriveStore, B!ArriveLast,
       B!SpinAcquire, B!Spin, B!Return, B!LeaveAcquire, B!LeaveLoad, B!LeaveStore,
       B!LeaveLast, B!SemClose, B!Unmap, B!SemUnlink, B!ShmUnlink
  <2>3. p[1] = run /\ main \notin Before
    <3>1. ~(p[1] < run)
      BY <1>0, <2>2
    <3> QED
      BY <1>1, <3>1 DEF Process, Before
  <2>4. p = <<run, p[2]>> /\ p[2] \in Sides
    BY <2>3, Peers
  <2>5. Cur!Step(p[2])
    BY <2>1, <2>4, CurrentStep DEF SafeInv
  <2>6. Cur!IInv'
    <3>1. Cur!Next
      BY <2>4, <2>5 DEF Cur!Next
    <3> QED
      BY <1>0, <2>3, <3>1, TwoUsers, Cur!InvNext
  <2>7. \A q \in Procs : q # p => pc'[q] = pc[q]
    BY <1>1, <2>1, FrameStep DEF SafeInv, Frame
  <2>8. \A q \in Procs : q[1] < run => pc'[q] = "gone"
    BY <1>0, <2>3, <1>6, <2>7
  <2>9. ASSUME harness = "latency", pc'[<<run, "parent">>] \in B!Leaving
        PROVE  Reaped(run)'
    <3>1. Reaped(run)
      <4>1. CASE pc[<<run, "parent">>] \in B!Leaving
        BY <1>0, <1>6, <2>9, <4>1 DEF Sides
      <4>2. CASE pc[<<run, "parent">>] \notin B!Leaving
        <5>1. p = <<run, "parent">> /\ pc'[p] \in B!Leaving /\ pc[p] \notin B!Leaving
          BY <1>6, <2>7, <2>9, <4>2 DEF Sides
        <5>2. ~B!Construct(p) /\ ~B!Wait(p)
          BY <5>1 DEF SafeInv, ReuseTypeOK, B!TypeOK, B!Leaving, B!Closing, B!Goto,
             B!Construct, B!Wait, B!SemOpen, B!InitAcquire, B!ShmCreate, B!ShmInit,
             B!ShmOpen, B!JoinAcquire, B!JoinLoad, B!JoinStore, B!PollAcquire, B!Poll,
             B!ArriveAcquire, B!ArriveLoad, B!ArriveStore, B!ArriveLast, B!SpinAcquire,
             B!Spin, B!Return
        <5> QED
          BY <1>1, <2>9, <5>1, <5>2 DEF Process, MayLeave
      <4> QED
        BY <4>1, <4>2
    <3>2. p # <<run, "child">>
      BY <2>2, <3>1 DEF Reaped
    <3> QED
      BY <1>6, <2>1, <2>7, <3>1, <3>2 DEF Reaped, Sides
  <2> QED
    BY <1>0, <1>6, <2>1, <2>6, <2>8, <2>9, Peers DEF OneInv, Sides
<1>2. CASE ClearSem \/ ClearShm
  BY <1>0, <1>2 DEF ClearSem, ClearShm, OneInv, Before, Reaped
<1>3. CASE Fork
  <2>1. UNCHANGED <<barrier, run>> /\ main = "fork"
    BY <1>3 DEF Fork
  <2>2. Cur!IInv
    BY <2>1, FreshRun
  <2>3. Cur!IInv'
    <3>1. UNCHANGED Cur!vars
      BY <2>1 DEF barrier, Cur!vars, Cur!shared, Cur!own, OfRun
    <3> QED
      BY <2>2, <3>1, TwoUsers, Cur!InvNext
  <2> QED
    BY <1>0, <2>1, <2>3 DEF OneInv, barrier, Reaped
<1>4. CASE NextRun
  <2>1. UNCHANGED barrier /\ main = "running" /\ pc[<<run, "parent">>] = "gone"
    BY <1>4 DEF NextRun
  <2>2. Cur!IInv
    BY <1>0, <2>1 DEF Before
  <2>3. CASE run' = run /\ main' = "done"
    <3>1. Cur!IInv'
      <4>1. UNCHANGED Cur!vars
        BY <2>1, <2>3 DEF barrier, Cur!vars, Cur!shared, Cur!own, OfRun
      <4> QED
        BY <2>2, <4>1, TwoUsers, Cur!InvNext
    <3> QED
      BY <1>0, <2>1, <2>3, <3>1 DEF OneInv, barrier, Reaped
  <2>4. CASE run' = run + 1 /\ main' = "clear_sem"
    <3>1. Reaped(run)
      <4>1. harness \in {"latency", "wait"}
        BY <1>0, ReuseAssumption DEF SafeInv, ReuseTypeOK
      <4> QED
        BY <1>0, <1>4, <1>6, <2>1, <4>1 DEF NextRun, B!Leaving, Sides
    <3>2. pc[<<run, "child">>] = "gone"
      <4>1. OfRun(pc)["child"] # "aborted"
        BY <2>2 DEF Cur!IInv, Cur!HandleInv, Sides
      <4> QED
        BY <3>1, <4>1 DEF Reaped, OfRun, Sides
    <3>3. \A p \in Procs : p[1] = run => pc[p] = "gone"
      BY <2>1, <3>2, Peers DEF Sides
    <3>4. \A p \in Procs : p[1] \in Nat
      BY <1>6, Peers
    <3>5. \A p \in Procs : p[1] < run + 1 => pc'[p] = "gone"
      BY <1>0, <1>6, <2>1, <3>3, <3>4 DEF barrier
    <3>6. \A p \in Procs : p[1] = run + 1 => pc'[p] = "start"
      BY <1>6, <2>1, <3>4 DEF barrier, SafeInv, OrderInv
    <3> QED
      BY <2>4, <3>5, <3>6 DEF OneInv, Before, B!Leaving, B!Closing
  <2> QED
    BY <1>4, <2>3, <2>4 DEF NextRun
<1>5. CASE UNCHANGED vars
  <2>1. UNCHANGED Cur!vars
    BY <1>5 DEF vars, barrier, Cur!vars, Cur!shared, Cur!own, OfRun
  <2>2. main \notin Before => Cur!IInv'
    BY <1>0, <2>1, TwoUsers, Cur!InvNext
  <2> QED
    BY <1>0, <1>5, <2>2 DEF OneInv, vars, barrier, Reaped
<1> QED
  BY <1>1, <1>2, <1>3, <1>4, <1>5 DEF Next, Done

\* No barrier is in use before the first run.
LEMMA OneInit ==
    ASSUME Init
    PROVE  OneInv
<1>1. main = "clear_sem" /\ run = 1 /\ \A p \in Procs : pc[p] = "start"
  BY DEF Init, B!Init, InitStale
<1>2. \A p \in Procs : p[1] \in 1 .. MaxRuns /\ MaxRuns \in Nat
  BY Peers, MostRuns DEF Init
<1> QED
  BY <1>1, <1>2 DEF OneInv, Before, B!Leaving, B!Closing

\* The inductive invariant of successive runs.
LEMMA Invariance == Spec => []IInv
<1>1. Init => IInv
  BY SafeInit, OneInit DEF IInv
<1>2. IInv /\ [Next]_vars => IInv'
  BY SafeStep, OneStep DEF IInv
<1> QED
  BY <1>1, <1>2, PTL DEF Spec

\* Where waitpid is reached, both processes of a run are gone before a later run has
\* one: no destructor (barrier.cc:135-153) hits the names of a later run.
THEOREM NobodyStraggles == Spec => []NoStraggler
<1>1. ASSUME IInv, harness # "constructor", NEW p \in Procs, NEW q \in Procs,
             p[1] < q[1], pc[q] # "start"
      PROVE  pc[p] = "gone"
  <2>1. p[1] \in Nat /\ q[1] \in Nat /\ run \in Nat
    BY <1>1, Peers, MostRuns DEF IInv, SafeInv, ReuseTypeOK
  <2>2. ~(q[1] > run)
    BY <1>1 DEF IInv, SafeInv, OrderInv
  <2> QED
    BY <1>1, <2>1, <2>2 DEF IInv, OneInv
<1>2. IInv => NoStraggler
  BY <1>1 DEF NoStraggler
<1> QED
  BY <1>2, Invariance, PTL

\* Where waitpid is reached, the two processes of a run wait on one semaphore and map
\* one memory (barrier.cc:29-80), whatever earlier runs left behind.
THEOREM ObjectsAreShared == Spec => []WaitpidKeepsObjects
<1>1. ASSUME IInv, harness # "constructor", NEW r \in 1 .. run
      PROVE  LET parent == <<r, "parent">>  child == <<r, "child">> IN
             /\ shm_sem_[parent] # None /\ shm_sem_[child] # None =>
                   shm_sem_[parent] = shm_sem_[child]
             /\ shm_data_[parent] # None /\ shm_data_[child] # None =>
                   shm_data_[parent] = shm_data_[child]
  <2>0. <<r, "parent">> \in Procs /\ <<r, "child">> \in Procs /\ run \in Nat
    BY <1>1, MostRuns DEF IInv, SafeInv, ReuseTypeOK, Procs
  <2>1. CASE r < run \/ main \in Before
    <3>1. pc[<<r, "child">>] \in {"start", "gone"}
      BY <1>1, <2>0, <2>1 DEF IInv, SafeInv, OrderInv, OneInv
    <3>2. shm_sem_[<<r, "child">>] = None /\ shm_data_[<<r, "child">>] = None
      BY <1>1, <2>0, <3>1 DEF IInv, SafeInv, OwnerInv, HandleInv, B!Closed, Mapped,
         B!Joining, B!Polling, B!InWait, B!Leaving, B!Closing
    <3> QED
      BY <3>2
  <2>2. CASE r = run /\ main \notin Before
    <3>1. Cur!HandleInv /\ Cur!ClosingInv
      BY <1>1, <2>2 DEF IInv, OneInv, Cur!IInv
    <3>2. /\ OfRun(shm_sem_)["parent"] # None /\ OfRun(shm_sem_)["child"] # None =>
                OfRun(shm_sem_)["parent"] = OfRun(shm_sem_)["child"]
          /\ OfRun(shm_data_)["parent"] # None /\ OfRun(shm_data_)["child"] # None =>
                OfRun(shm_data_)["parent"] = OfRun(shm_data_)["child"]
      <4>1. "parent" \in Sides /\ "child" \in Sides
        BY DEF Sides
      <4> QED
        BY <3>1, <4>1, TwoUsers, Cur!SameHandles
    <3>3. /\ OfRun(shm_sem_)["parent"] = shm_sem_[<<r, "parent">>]
          /\ OfRun(shm_sem_)["child"] = shm_sem_[<<r, "child">>]
          /\ OfRun(shm_data_)["parent"] = shm_data_[<<r, "parent">>]
          /\ OfRun(shm_data_)["child"] = shm_data_[<<r, "child">>]
      BY <2>2 DEF OfRun, Sides
    <3> QED
      BY <3>2, <3>3
  <2> QED
    BY <2>0, <2>1, <2>2
<1>2. IInv => WaitpidKeepsObjects
  BY <1>1 DEF WaitpidKeepsObjects, SameObjects
<1> QED
  BY <1>2, Invariance, PTL
=============================================================================
