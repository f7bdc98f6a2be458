-------------------- MODULE SenseReversingBarrierProofs --------------------
(***************************************************************************)
(* Proofs about SenseReversingBarrier for any number of users and rounds.  *)
(***************************************************************************)
EXTENDS SenseReversingBarrier, FiniteSetTheorems, TLAPS

\* One barrier: the processes of Procs are exactly the N users that join, and
\* every one of them calls Wait at least once.
OneBarrier == Cardinality(Procs) = N /\ Waits > 0

\* O_CREAT finds an object that was never used before.
LEMMA FreshObject ==
    ASSUME TypeOK, CanCreate
    PROVE  NewObject \in Objects /\ NewObject \notin created
<1>1. \E o \in Objects : o \notin created
  BY DEF TypeOK, CanCreate
<1> QED
  BY <1>1 DEF NewObject

LEMMA UsersFinite ==
    ASSUME BarrierAssumption
    PROVE  /\ IsFiniteSet(Users)
           /\ Cardinality(Users) \in Nat
           /\ Cardinality(Users) <= Cardinality(Procs)
           /\ Cardinality(Users) = Cardinality(Procs) => Users = Procs
<1>1. Users \subseteq Procs
  BY DEF Users
<1> QED
  BY <1>1, FS_Subset, FS_CardinalityType DEF BarrierAssumption

LEMMA UsersGrow ==
    ASSUME BarrierAssumption, NEW p, p \notin Users, Users' = Users \cup {p}
    PROVE  Cardinality(Users') = Cardinality(Users) + 1
  BY UsersFinite, FS_AddElement

LEMMA UsersShrink ==
    ASSUME BarrierAssumption, NEW p, p \in Users, Users' = Users \ {p}
    PROVE  Cardinality(Users') = Cardinality(Users) - 1
  BY UsersFinite, FS_RemoveElement

LEMMA OnlyUser ==
    ASSUME BarrierAssumption, NEW p \in Users, Cardinality(Users) = 1
    PROVE  Users = {p}
<1>1. Cardinality(Users \ {p}) = 0 /\ IsFiniteSet(Users \ {p})
  BY UsersFinite, FS_RemoveElement
<1> QED
  BY <1>1, FS_EmptySet

LEMMA SpinnersFinite ==
    ASSUME BarrierAssumption, NEW R
    PROVE  /\ IsFiniteSet(Spinners(R))
           /\ Cardinality(Spinners(R)) \in Nat
  BY FS_Subset, FS_CardinalityType DEF Spinners, BarrierAssumption

LEMMA SpinnersGrow ==
    ASSUME BarrierAssumption, NEW R, NEW p, p \notin Spinners(R)
    PROVE  Cardinality(Spinners(R) \cup {p}) = Cardinality(Spinners(R)) + 1
  BY SpinnersFinite, FS_AddElement

LEMMA Flip ==
    \A a, b \in BOOLEAN : ((a # b) <=> (~a = b)) /\ ((a = b) <=> (a # ~b))
  OBVIOUS


LEMMA ReverseSense ==
    ASSUME TypeOK, NEW p \in Procs, ArriveLast(p), NEW R, SenseOK(R),
           shm_data_[p] = shm_name, shm_name \in Objects,
           \A q \in Procs : rounds[q] = R
    PROVE  \A q \in Procs : shared_sense_'[shm_name'] = sense_'[q]
<1>1. shared_sense_'[shm_name'] = ~shared_sense_[shm_name] /\ sense_' = sense_
  BY DEF ArriveLast, TypeOK, names, own
<1>2. \A q \in Procs : shared_sense_[shm_name] # sense_[q]
  BY DEF SenseOK
<1>3. shared_sense_[shm_name] \in BOOLEAN /\ \A q \in Procs : sense_[q] \in BOOLEAN
  BY DEF TypeOK
<1> QED
  BY <1>1, <1>2, <1>3, Flip

-----------------------------------------------------------------------------
\* Every action preserves every part of the invariant.

LEMMA TypeStep ==
    ASSUME TypeOK, HandleInv, NEW p \in Procs, Step(p)
    PROVE  TypeOK'
<1> USE DEF TypeOK, HandleInv, Closed, Unmapped, Goto, SemWait, SemPost, Lines, Entering,
          Joining, Polling,
            InWait, Leaving, Closing, names, shared, own, memory
<1>1. CASE SemOpen(p)
  BY <1>1, FreshObject DEF SemOpen
<1>2. CASE InitAcquire(p)
  BY <1>2 DEF InitAcquire
<1>3. CASE ShmCreate(p)
  BY <1>3, FreshObject DEF ShmCreate
<1>4. CASE ShmInit(p)
  BY <1>4 DEF ShmInit
<1>5. CASE ShmOpen(p)
  BY <1>5 DEF ShmOpen
<1>6. CASE JoinAcquire(p)
  BY <1>6 DEF JoinAcquire
<1>7. CASE JoinLoad(p)
  BY <1>7 DEF JoinLoad
<1>8. CASE JoinStore(p)
  BY <1>8 DEF JoinStore
<1>9. CASE PollAcquire(p)
  BY <1>9 DEF PollAcquire
<1>10. CASE Poll(p)
  BY <1>10 DEF Poll
<1>11. CASE ArriveAcquire(p)
  BY <1>11 DEF ArriveAcquire
<1>12. CASE ArriveLoad(p)
  BY <1>12 DEF ArriveLoad
<1>13. CASE ArriveStore(p)
  BY <1>13 DEF ArriveStore
<1>14. CASE ArriveLast(p)
  BY <1>14 DEF ArriveLast
<1>15. CASE SpinAcquire(p)
  BY <1>15 DEF SpinAcquire
<1>16. CASE Spin(p)
  BY <1>16 DEF Spin
<1>17. CASE Return(p)
  BY <1>17 DEF Return
<1>18. CASE LeaveAcquire(p)
  BY <1>18 DEF LeaveAcquire
<1>19. CASE LeaveLoad(p)
  BY <1>19 DEF LeaveLoad
<1>20. CASE LeaveStore(p)
  BY <1>20 DEF LeaveStore
<1>21. CASE LeaveLast(p)
  BY <1>21 DEF LeaveLast
<1>22. CASE SemUnlink(p)
  BY <1>22 DEF SemUnlink
<1>23. CASE ShmUnlink(p)
  BY <1>23 DEF ShmUnlink
<1>24. CASE SemClose(p)
  BY <1>24 DEF SemClose
<1>25. CASE Unmap(p)
  BY <1>25 DEF Unmap
<1> QED
  BY <1>1, <1>2, <1>3, <1>4, <1>5, <1>6, <1>7, <1>8, <1>9, <1>10, <1>11, <1>12,
     <1>13, <1>14, <1>15, <1>16, <1>17, <1>18, <1>19, <1>20, <1>21, <1>22, <1>23,
     <1>24, <1>25
     DEF Step, Construct, Wait, Destroy

LEMMA HandleStep ==
    ASSUME TypeOK, HandleInv, LockInv, UserInv, LeaveInv, NEW p \in Procs, Step(p)
    PROVE  HandleInv'
<1> USE DEF TypeOK, HandleInv, LockInv, UserInv, LeaveInv, LastUserUnlinks, Goto, SemWait,
          SemPost, names, shared, own, memory, Lines, Entering, Joining, Polling, InWait,
          Leaving, Closing, Closed, Unmapped, Locked, Past
<1>1. CASE SemOpen(p)
  BY <1>1, FreshObject, BarrierAssumption DEF SemOpen
<1>2. CASE InitAcquire(p)
  BY <1>2 DEF InitAcquire
<1>3. CASE ShmCreate(p)
  BY <1>3, FreshObject, BarrierAssumption DEF ShmCreate
<1>4. CASE ShmInit(p)
  BY <1>4 DEF ShmInit
<1>5. CASE ShmOpen(p)
  BY <1>5 DEF ShmOpen
<1>6. CASE JoinAcquire(p)
  BY <1>6 DEF JoinAcquire
<1>7. CASE JoinLoad(p)
  BY <1>7 DEF JoinLoad
<1>8. CASE JoinStore(p)
  BY <1>8 DEF JoinStore
<1>9. CASE PollAcquire(p)
  BY <1>9 DEF PollAcquire
<1>10. CASE Poll(p)
  BY <1>10 DEF Poll
<1>11. CASE ArriveAcquire(p)
  BY <1>11 DEF ArriveAcquire
<1>12. CASE ArriveLoad(p)
  BY <1>12 DEF ArriveLoad
<1>13. CASE ArriveStore(p)
  BY <1>13 DEF ArriveStore
<1>14. CASE ArriveLast(p)
  BY <1>14 DEF ArriveLast
<1>15. CASE SpinAcquire(p)
  BY <1>15 DEF SpinAcquire
<1>16. CASE Spin(p)
  BY <1>16 DEF Spin
<1>17. CASE Return(p)
  BY <1>17 DEF Return
<1>18. CASE LeaveAcquire(p)
  BY <1>18 DEF LeaveAcquire
<1>19. CASE LeaveLoad(p)
  BY <1>19 DEF LeaveLoad
<1>20. CASE LeaveStore(p)
  BY <1>20 DEF LeaveStore
<1>21. CASE LeaveLast(p)
  BY <1>21 DEF LeaveLast
<1>22. CASE SemUnlink(p)
  BY <1>22 DEF SemUnlink
<1>23. CASE ShmUnlink(p)
  BY <1>23 DEF ShmUnlink
<1>24. CASE SemClose(p)
  BY <1>24 DEF SemClose
<1>25. CASE Unmap(p)
  BY <1>25 DEF Unmap
<1> QED
  BY <1>1, <1>2, <1>3, <1>4, <1>5, <1>6, <1>7, <1>8, <1>9, <1>10, <1>11, <1>12,
     <1>13, <1>14, <1>15, <1>16, <1>17, <1>18, <1>19, <1>20, <1>21, <1>22, <1>23,
     <1>24, <1>25
     DEF Step, Construct, Wait, Destroy

LEMMA ClosingStep ==
    ASSUME TypeOK, HandleInv, ClosingInv, LockInv, UserInv, LeaveInv, RoundInv,
           NEW p \in Procs, Step(p)
    PROVE  ClosingInv'
<1> USE DEF TypeOK, HandleInv, ClosingInv, LockInv, UserInv, LeaveInv, LastUserUnlinks,
          Goto, SemWait, SemPost, names, shared, own, memory, Lines, Entering, Joining,
          Polling, InWait, Leaving, Closing, Closed, Unmapped, Locked, Past
<1>1. CASE SemOpen(p)
  BY <1>1, FreshObject, BarrierAssumption DEF SemOpen
<1>2. CASE InitAcquire(p)
  BY <1>2 DEF InitAcquire
<1>3. CASE ShmCreate(p)
  BY <1>3, FreshObject, BarrierAssumption DEF ShmCreate
<1>4. CASE ShmInit(p)
  BY <1>4 DEF ShmInit
<1>5. CASE ShmOpen(p)
  BY <1>5 DEF ShmOpen
<1>6. CASE JoinAcquire(p)
  BY <1>6 DEF JoinAcquire
<1>7. CASE JoinLoad(p)
  BY <1>7 DEF JoinLoad
<1>8. CASE JoinStore(p)
  BY <1>8 DEF JoinStore
<1>9. CASE PollAcquire(p)
  BY <1>9 DEF PollAcquire
<1>10. CASE Poll(p)
  BY <1>10 DEF Poll
<1>11. CASE ArriveAcquire(p)
  BY <1>11 DEF ArriveAcquire
<1>12. CASE ArriveLoad(p)
  BY <1>12 DEF ArriveLoad
<1>13. CASE ArriveStore(p)
  BY <1>13 DEF ArriveStore
<1>14. CASE ArriveLast(p)
  BY <1>14 DEF ArriveLast
<1>15. CASE SpinAcquire(p)
  BY <1>15 DEF SpinAcquire
<1>16. CASE Spin(p)
  BY <1>16 DEF Spin
<1>17. CASE Return(p)
  BY <1>17 DEF Return
<1>18. CASE LeaveAcquire(p)
  BY <1>18 DEF LeaveAcquire
<1>19. CASE LeaveLoad(p)
  BY <1>19 DEF LeaveLoad
<1>20. CASE LeaveStore(p)
  BY <1>20 DEF LeaveStore
<1>21. CASE LeaveLast(p)
  BY <1>21 DEF LeaveLast
<1>22. CASE SemUnlink(p)
  BY <1>22 DEF SemUnlink
<1>23. CASE ShmUnlink(p)
  <2>1. PICK R \in 0 .. Waits : InRound(R)
    BY DEF RoundInv
  <2>2. Users = {} /\ Spinners(R) = {}
    BY <1>23 DEF ShmUnlink, Users, Spinners
  <2>3. Cardinality({}) = 0
    BY FS_EmptySet
  <2>4. Initialized
    BY <1>23 DEF ShmUnlink, Initialized
  <2>5. n_users_[shm_name] = 0 /\ count_[shm_name] = 0
    BY <2>1, <2>2, <2>3, <2>4 DEF InRound, CountOK
  <2> QED
    BY <2>5, <1>23 DEF ShmUnlink
<1>24. CASE SemClose(p)
  BY <1>24 DEF SemClose
<1>25. CASE Unmap(p)
  BY <1>25 DEF Unmap
<1> QED
  BY <1>1, <1>2, <1>3, <1>4, <1>5, <1>6, <1>7, <1>8, <1>9, <1>10, <1>11, <1>12,
     <1>13, <1>14, <1>15, <1>16, <1>17, <1>18, <1>19, <1>20, <1>21, <1>22, <1>23,
     <1>24, <1>25
     DEF Step, Construct, Wait, Destroy

LEMMA LockStep ==
    ASSUME TypeOK, HandleInv, LockInv, LeaveInv, NEW p \in Procs, Step(p)
    PROVE  LockInv'
<1> USE DEF TypeOK, HandleInv, LockInv, LeaveInv, LastUserUnlinks, Goto, SemWait, SemPost,
          names, shared, own, memory, Lines, Entering, Joining, Polling, InWait, Leaving,
          Closing, Closed, Unmapped, Locked, Past
<1>1. CASE SemOpen(p)
  BY <1>1, FreshObject, BarrierAssumption DEF SemOpen
<1>2. CASE InitAcquire(p)
  BY <1>2 DEF InitAcquire
<1>3. CASE ShmCreate(p)
  BY <1>3 DEF ShmCreate
<1>4. CASE ShmInit(p)
  BY <1>4 DEF ShmInit
<1>5. CASE ShmOpen(p)
  BY <1>5 DEF ShmOpen
<1>6. CASE JoinAcquire(p)
  BY <1>6 DEF JoinAcquire
<1>7. CASE JoinLoad(p)
  BY <1>7 DEF JoinLoad
<1>8. CASE JoinStore(p)
  BY <1>8 DEF JoinStore
<1>9. CASE PollAcquire(p)
  BY <1>9 DEF PollAcquire
<1>10. CASE Poll(p)
  BY <1>10 DEF Poll
<1>11. CASE ArriveAcquire(p)
  BY <1>11 DEF ArriveAcquire
<1>12. CASE ArriveLoad(p)
  BY <1>12 DEF ArriveLoad
<1>13. CASE ArriveStore(p)
  BY <1>13 DEF ArriveStore
<1>14. CASE ArriveLast(p)
  BY <1>14 DEF ArriveLast
<1>15. CASE SpinAcquire(p)
  BY <1>15 DEF SpinAcquire
<1>16. CASE Spin(p)
  BY <1>16 DEF Spin
<1>17. CASE Return(p)
  BY <1>17 DEF Return
<1>18. CASE LeaveAcquire(p)
  BY <1>18 DEF LeaveAcquire
<1>19. CASE LeaveLoad(p)
  BY <1>19 DEF LeaveLoad
<1>20. CASE LeaveStore(p)
  BY <1>20 DEF LeaveStore
<1>21. CASE LeaveLast(p)
  BY <1>21 DEF LeaveLast
<1>22. CASE SemUnlink(p)
  BY <1>22 DEF SemUnlink
<1>23. CASE ShmUnlink(p)
  BY <1>23 DEF ShmUnlink
<1>24. CASE SemClose(p)
  BY <1>24 DEF SemClose
<1>25. CASE Unmap(p)
  BY <1>25 DEF Unmap
<1> QED
  BY <1>1, <1>2, <1>3, <1>4, <1>5, <1>6, <1>7, <1>8, <1>9, <1>10, <1>11, <1>12,
     <1>13, <1>14, <1>15, <1>16, <1>17, <1>18, <1>19, <1>20, <1>21, <1>22, <1>23,
     <1>24, <1>25
     DEF Step, Construct, Wait, Destroy

LEMMA LoadStep ==
    ASSUME TypeOK, HandleInv, LockInv, LoadInv, NEW p \in Procs, Step(p)
    PROVE  LoadInv'
<1> USE DEF TypeOK, HandleInv, LockInv, LoadInv, Goto, SemWait, SemPost, names, shared,
          own, memory, Lines, Entering, Joining, Polling, InWait, Leaving, Closing,
          Closed, Unmapped, Locked, Past
<1>1. CASE SemOpen(p)
  BY <1>1, FreshObject, BarrierAssumption DEF SemOpen
<1>2. CASE InitAcquire(p)
  BY <1>2 DEF InitAcquire
<1>3. CASE ShmCreate(p)
  BY <1>3, FreshObject, BarrierAssumption DEF ShmCreate
<1>4. CASE ShmInit(p)
  BY <1>4 DEF ShmInit
<1>5. CASE ShmOpen(p)
  BY <1>5 DEF ShmOpen
<1>6. CASE JoinAcquire(p)
  BY <1>6 DEF JoinAcquire
<1>7. CASE JoinLoad(p)
  BY <1>7 DEF JoinLoad
<1>8. CASE JoinStore(p)
  BY <1>8 DEF JoinStore
<1>9. CASE PollAcquire(p)
  BY <1>9 DEF PollAcquire
<1>10. CASE Poll(p)
  BY <1>10 DEF Poll
<1>11. CASE ArriveAcquire(p)
  BY <1>11 DEF ArriveAcquire
<1>12. CASE ArriveLoad(p)
  BY <1>12 DEF ArriveLoad
<1>13. CASE ArriveStore(p)
  BY <1>13 DEF ArriveStore
<1>14. CASE ArriveLast(p)
  BY <1>14 DEF ArriveLast
<1>15. CASE SpinAcquire(p)
  BY <1>15 DEF SpinAcquire
<1>16. CASE Spin(p)
  BY <1>16 DEF Spin
<1>17. CASE Return(p)
  BY <1>17 DEF Return
<1>18. CASE LeaveAcquire(p)
  BY <1>18 DEF LeaveAcquire
<1>19. CASE LeaveLoad(p)
  BY <1>19 DEF LeaveLoad
<1>20. CASE LeaveStore(p)
  BY <1>20 DEF LeaveStore
<1>21. CASE LeaveLast(p)
  BY <1>21 DEF LeaveLast
<1>22. CASE SemUnlink(p)
  BY <1>22 DEF SemUnlink
<1>23. CASE ShmUnlink(p)
  BY <1>23 DEF ShmUnlink
<1>24. CASE SemClose(p)
  BY <1>24 DEF SemClose
<1>25. CASE Unmap(p)
  BY <1>25 DEF Unmap
<1> QED
  BY <1>1, <1>2, <1>3, <1>4, <1>5, <1>6, <1>7, <1>8, <1>9, <1>10, <1>11, <1>12,
     <1>13, <1>14, <1>15, <1>16, <1>17, <1>18, <1>19, <1>20, <1>21, <1>22, <1>23,
     <1>24, <1>25
     DEF Step, Construct, Wait, Destroy

LEMMA UserStep ==
    ASSUME OneBarrier, TypeOK, HandleInv, LockInv, LoadInv, UserInv, LeaveInv, NoEarlyLeave,
           NEW p \in Procs, Step(p)
    PROVE  UserInv'
<1> USE DEF TypeOK, HandleInv, LockInv, LoadInv, UserInv, LeaveInv, LastUserUnlinks,
          NoEarlyLeave, Initialized, Goto, SemWait, SemPost, names, shared, own, memory,
          Lines, Entering, Joining, Polling, InWait, Leaving, Closing, Closed, Unmapped,
          Locked, Past
<1>1. CASE SemOpen(p)
  <2>1. Users' = Users
    BY <1>1 DEF SemOpen, Users
  <2> QED
    BY <2>1, <1>1, FreshObject, BarrierAssumption DEF SemOpen
<1>2. CASE InitAcquire(p)
  <2>1. Users' = Users
    BY <1>2 DEF InitAcquire, Users
  <2> QED
    BY <2>1, <1>2 DEF InitAcquire
<1>3. CASE ShmCreate(p)
  <2>1. Users' = Users
    BY <1>3 DEF ShmCreate, Users
  <2> QED
    BY <2>1, <1>3, FreshObject, BarrierAssumption DEF ShmCreate
<1>4. CASE ShmInit(p)
  <2>1. Users = {} /\ Users' = Users
    BY <1>4 DEF ShmInit, Users
  <2>2. Cardinality(Users') = 0
    BY <2>1, FS_EmptySet
  <2> QED
    BY <2>2, <1>4 DEF ShmInit
<1>5. CASE ShmOpen(p)
  <2>1. Users' = Users
    BY <1>5 DEF ShmOpen, Users
  <2> QED
    BY <2>1, <1>5 DEF ShmOpen
<1>6. CASE JoinAcquire(p)
  <2>1. Users' = Users
    BY <1>6 DEF JoinAcquire, Users
  <2> QED
    BY <2>1, <1>6 DEF JoinAcquire
<1>7. CASE JoinLoad(p)
  <2>1. Users' = Users
    BY <1>7 DEF JoinLoad, Users
  <2> QED
    BY <2>1, <1>7 DEF JoinLoad
<1>8. CASE JoinStore(p)
  <2>1. p \notin Users /\ Users' = Users \cup {p}
    BY <1>8 DEF JoinStore, Users
  <2>2. Cardinality(Users') = Cardinality(Users) + 1
    BY <2>1, UsersGrow, BarrierAssumption
  <2>3. Initialized
    BY <1>8 DEF JoinStore
  <2> QED
    BY <2>2, <2>3, <1>8 DEF JoinStore
<1>9. CASE PollAcquire(p)
  <2>1. Users' = Users
    BY <1>9 DEF PollAcquire, Users
  <2> QED
    BY <2>1, <1>9 DEF PollAcquire
<1>10. CASE Poll(p)
  <2>1. Users' = Users
    BY <1>10 DEF Poll, Users
  <2>2. Initialized
    BY <1>10 DEF Poll
  <2>3. pc'[p] = "ready" => Cardinality(Users) >= Cardinality(Procs)
    BY <2>2, <1>10 DEF Poll, OneBarrier
  <2>4. pc'[p] = "ready" => Users = Procs
    BY <2>3, UsersFinite, BarrierAssumption, FS_CardinalityType
  <2>5. pc'[p] = "ready" => \A q \in Procs : pc[q] \notin Entering \cup Joining
    BY <2>4 DEF Users
  <2> QED
    BY <2>1, <2>5, <1>10 DEF Poll
<1>11. CASE ArriveAcquire(p)
  <2>1. Users' = Users
    BY <1>11 DEF ArriveAcquire, Users
  <2> QED
    BY <2>1, <1>11 DEF ArriveAcquire
<1>12. CASE ArriveLoad(p)
  <2>1. Users' = Users
    BY <1>12 DEF ArriveLoad, Users
  <2> QED
    BY <2>1, <1>12 DEF ArriveLoad
<1>13. CASE ArriveStore(p)
  <2>1. Users' = Users
    BY <1>13 DEF ArriveStore, Users
  <2> QED
    BY <2>1, <1>13 DEF ArriveStore
<1>14. CASE ArriveLast(p)
  <2>1. Users' = Users
    BY <1>14 DEF ArriveLast, Users
  <2> QED
    BY <2>1, <1>14 DEF ArriveLast
<1>15. CASE SpinAcquire(p)
  <2>1. Users' = Users
    BY <1>15 DEF SpinAcquire, Users
  <2> QED
    BY <2>1, <1>15 DEF SpinAcquire
<1>16. CASE Spin(p)
  <2>1. Users' = Users
    BY <1>16 DEF Spin, Users
  <2> QED
    BY <2>1, <1>16 DEF Spin
<1>17. CASE Return(p)
  <2>1. Users' = Users
    BY <1>17 DEF Return, Users
  <2> QED
    BY <2>1, <1>17 DEF Return
<1>18. CASE LeaveAcquire(p)
  <2>1. Users' = Users
    BY <1>18 DEF LeaveAcquire, Users
  <2> QED
    BY <2>1, <1>18 DEF LeaveAcquire
<1>19. CASE LeaveLoad(p)
  <2>1. Users' = Users
    BY <1>19 DEF LeaveLoad, Users
  <2> QED
    BY <2>1, <1>19 DEF LeaveLoad
<1>20. CASE LeaveStore(p)
  <2>1. p \in Users /\ Users' = Users \ {p}
    BY <1>20 DEF LeaveStore, Users
  <2>2. Cardinality(Users') = Cardinality(Users) - 1
    BY <2>1, UsersShrink, BarrierAssumption
  <2>3. Initialized
    BY <1>20 DEF LeaveStore
  <2> QED
    BY <2>2, <2>3, <1>20 DEF LeaveStore
<1>21. CASE LeaveLast(p)
  <2>1. p \in Users /\ Users' = Users \ {p}
    BY <1>21 DEF LeaveLast, Users
  <2>2. Cardinality(Users') = Cardinality(Users) - 1
    BY <2>1, UsersShrink, BarrierAssumption
  <2>3. Initialized
    BY <1>21 DEF LeaveLast
  <2> QED
    BY <2>2, <2>3, <1>21 DEF LeaveLast
<1>22. CASE SemUnlink(p)
  <2>1. Users' = Users
    BY <1>22 DEF SemUnlink, Users
  <2> QED
    BY <2>1, <1>22 DEF SemUnlink
<1>23. CASE ShmUnlink(p)
  <2>1. Users' = Users
    BY <1>23 DEF ShmUnlink, Users
  <2> QED
    BY <2>1, <1>23 DEF ShmUnlink
<1>24. CASE SemClose(p)
  <2>1. Users' = Users
    BY <1>24 DEF SemClose, Users
  <2> QED
    BY <2>1, <1>24 DEF SemClose
<1>25. CASE Unmap(p)
  <2>1. Users' = Users
    BY <1>25 DEF Unmap, Users
  <2> QED
    BY <2>1, <1>25 DEF Unmap
<1> QED
  BY <1>1, <1>2, <1>3, <1>4, <1>5, <1>6, <1>7, <1>8, <1>9, <1>10, <1>11, <1>12,
     <1>13, <1>14, <1>15, <1>16, <1>17, <1>18, <1>19, <1>20, <1>21, <1>22, <1>23,
     <1>24, <1>25
     DEF Step, Construct, Wait, Destroy

LEMMA LeaveStep ==
    ASSUME OneBarrier, TypeOK, HandleInv, LockInv, LoadInv, UserInv, LeaveInv, RoundInv,
           NEW p \in Procs, Step(p)
    PROVE  LeaveInv'
<1> USE DEF TypeOK, HandleInv, LockInv, LoadInv, UserInv, LeaveInv, LastUserUnlinks,
          NoEarlyLeave, Initialized, Goto, SemWait, SemPost, names, shared, own, memory,
          Lines, Entering, Joining, Polling, InWait, Leaving, Closing, Closed, Unmapped,
          Locked, Past
<1>1. CASE SemOpen(p)
  BY <1>1 DEF SemOpen
<1>2. CASE InitAcquire(p)
  BY <1>2 DEF InitAcquire
<1>3. CASE ShmCreate(p)
  BY <1>3 DEF ShmCreate
<1>4. CASE ShmInit(p)
  BY <1>4 DEF ShmInit
<1>5. CASE ShmOpen(p)
  BY <1>5 DEF ShmOpen
<1>6. CASE JoinAcquire(p)
  BY <1>6 DEF JoinAcquire
<1>7. CASE JoinLoad(p)
  BY <1>7 DEF JoinLoad
<1>8. CASE JoinStore(p)
  BY <1>8 DEF JoinStore
<1>9. CASE PollAcquire(p)
  BY <1>9 DEF PollAcquire
<1>10. CASE Poll(p)
  BY <1>10 DEF Poll
<1>11. CASE ArriveAcquire(p)
  BY <1>11 DEF ArriveAcquire
<1>12. CASE ArriveLoad(p)
  BY <1>12 DEF ArriveLoad
<1>13. CASE ArriveStore(p)
  BY <1>13 DEF ArriveStore
<1>14. CASE ArriveLast(p)
  BY <1>14 DEF ArriveLast
<1>15. CASE SpinAcquire(p)
  BY <1>15 DEF SpinAcquire
<1>16. CASE Spin(p)
  BY <1>16 DEF Spin
<1>17. CASE Return(p)
  BY <1>17 DEF Return
<1>18. CASE LeaveAcquire(p)
  <2>1. PICK R \in 0 .. Waits : InRound(R)
    BY DEF RoundInv
  <2>2. \A q \in Procs : pc[q] \notin Polling
    BY <2>1, <1>18, BarrierAssumption DEF LeaveAcquire, InRound, RoundsOK, OneBarrier
  <2> QED
    BY <2>2, <1>18 DEF LeaveAcquire
<1>19. CASE LeaveLoad(p)
  BY <1>19 DEF LeaveLoad
<1>20. CASE LeaveStore(p)
  <2>1. Initialized /\ p \in Users
    BY <1>20 DEF LeaveStore, Users
  <2>2. Cardinality(Users) # 1
    BY <2>1, <1>20 DEF LeaveStore
  <2>3. Users # {p}
    <3>1. Cardinality({p}) = 1
      BY FS_Singleton
    <3> QED
      BY <2>2, <3>1
  <2>4. \E q \in Users : q # p
    BY <2>1, <2>3
  <2>5. \E q \in Procs : q # p /\ pc[q] \notin Closing \cup {"gone"}
    BY <2>4 DEF Users
  <2>6. \A q \in Procs : pc[q] \notin {"sem_unlink", "shm_unlink"}
    BY <2>5, <1>20 DEF LeaveStore
  <2> QED
    BY <2>5, <2>6, <1>20 DEF LeaveStore
<1>21. CASE LeaveLast(p)
  <2>1. Initialized /\ p \in Users
    BY <1>21 DEF LeaveLast, Users
  <2>2. Cardinality(Users) = 1
    BY <2>1, <1>21 DEF LeaveLast
  <2>3. Users = {p}
    BY <2>1, <2>2, OnlyUser, BarrierAssumption
  <2>4. \A q \in Procs : q # p => pc[q] \in Closing \cup {"gone"}
    BY <2>3, <1>21 DEF LeaveLast, Users
  <2> QED
    BY <2>4, <1>21 DEF LeaveLast
<1>22. CASE SemUnlink(p)
  BY <1>22 DEF SemUnlink
<1>23. CASE ShmUnlink(p)
  BY <1>23 DEF ShmUnlink
<1>24. CASE SemClose(p)
  BY <1>24 DEF SemClose
<1>25. CASE Unmap(p)
  BY <1>25 DEF Unmap
<1> QED
  BY <1>1, <1>2, <1>3, <1>4, <1>5, <1>6, <1>7, <1>8, <1>9, <1>10, <1>11, <1>12,
     <1>13, <1>14, <1>15, <1>16, <1>17, <1>18, <1>19, <1>20, <1>21, <1>22, <1>23,
     <1>24, <1>25
     DEF Step, Construct, Wait, Destroy

LEMMA RoundStep ==
    ASSUME OneBarrier, TypeOK, HandleInv, LockInv, LoadInv, UserInv, LeaveInv, RoundInv,
           NEW p \in Procs, Step(p)
    PROVE  RoundInv'
<1> USE DEF TypeOK, HandleInv, LockInv, LoadInv, UserInv, LeaveInv, LastUserUnlinks,
          NoEarlyLeave, Initialized, InRound, RoundsOK, CountOK, SenseOK, RoundInv, Goto,
          SemWait, SemPost, names, shared, own, memory, Lines, Entering, Joining, Polling,
          InWait, Leaving, Closing, Closed, Unmapped, Locked, Past
<1>0. PICK R \in 0 .. Waits : InRound(R)
  OBVIOUS
<1>1. CASE SemOpen(p)
  <2>1. Spinners(R)' = Spinners(R)
    BY <1>0, <1>1 DEF SemOpen, Spinners
  <2>9. InRound(R)'
    BY <1>0, <2>1, <1>1, FreshObject, BarrierAssumption DEF SemOpen
  <2> QED
    BY <1>0, <2>9
<1>2. CASE InitAcquire(p)
  <2>1. Spinners(R)' = Spinners(R)
    BY <1>0, <1>2 DEF InitAcquire, Spinners
  <2>9. InRound(R)'
    BY <1>0, <2>1, <1>2 DEF InitAcquire
  <2> QED
    BY <1>0, <2>9
<1>3. CASE ShmCreate(p)
  <2>1. Spinners(R)' = Spinners(R)
    BY <1>0, <1>3 DEF ShmCreate, Spinners
  <2>9. InRound(R)'
    BY <1>0, <2>1, <1>3, FreshObject, BarrierAssumption DEF ShmCreate
  <2> QED
    BY <1>0, <2>9
<1>4. CASE ShmInit(p)
  <2>1. R = 0
    BY <1>0, <1>4 DEF ShmInit
  <2>2. Spinners(R)' = {}
    BY <1>0, <1>4 DEF ShmInit, Spinners
  <2>3. Cardinality(Spinners(R)') = 0
    BY <1>0, <2>2, FS_EmptySet
  <2>4. RoundsOK(R)'
    BY <1>0, <1>4 DEF ShmInit
  <2>5. CountOK(R)'
    BY <1>0, <2>3, <1>4, BarrierAssumption DEF ShmInit
  <2>6. SenseOK(R)'
    <3>1. \A q \in Procs : rounds[q] = 0 /\ sense_[q] = TRUE
      BY <1>0, <1>4 DEF ShmInit
    <3>2. shared_sense_'[shm_name'] = FALSE /\ sense_' = sense_ /\ rounds' = rounds
      BY <1>0, <1>4 DEF ShmInit
    <3> QED
      BY <1>0, <2>1, <3>1, <3>2 DEF ShmInit
  <2>9. InRound(R)'
    BY <1>0, <2>4, <2>5, <2>6 DEF InRound
  <2> QED
    BY <1>0, <2>9
<1>5. CASE ShmOpen(p)
  <2>1. Spinners(R)' = Spinners(R)
    BY <1>0, <1>5 DEF ShmOpen, Spinners
  <2>9. InRound(R)'
    BY <1>0, <2>1, <1>5 DEF ShmOpen
  <2> QED
    BY <1>0, <2>9
<1>6. CASE JoinAcquire(p)
  <2>1. Spinners(R)' = Spinners(R)
    BY <1>0, <1>6 DEF JoinAcquire, Spinners
  <2>9. InRound(R)'
    BY <1>0, <2>1, <1>6 DEF JoinAcquire
  <2> QED
    BY <1>0, <2>9
<1>7. CASE JoinLoad(p)
  <2>1. Spinners(R)' = Spinners(R)
    BY <1>0, <1>7 DEF JoinLoad, Spinners
  <2>9. InRound(R)'
    BY <1>0, <2>1, <1>7 DEF JoinLoad
  <2> QED
    BY <1>0, <2>9
<1>8. CASE JoinStore(p)
  <2>1. Spinners(R)' = Spinners(R)
    BY <1>0, <1>8 DEF JoinStore, Spinners
  <2>9. InRound(R)'
    BY <1>0, <2>1, <1>8 DEF JoinStore
  <2> QED
    BY <1>0, <2>9
<1>9. CASE PollAcquire(p)
  <2>1. Spinners(R)' = Spinners(R)
    BY <1>0, <1>9 DEF PollAcquire, Spinners
  <2>9. InRound(R)'
    BY <1>0, <2>1, <1>9 DEF PollAcquire
  <2> QED
    BY <1>0, <2>9
<1>10. CASE Poll(p)
  <2>1. Spinners(R)' = Spinners(R)
    BY <1>0, <1>10 DEF Poll, Spinners
  <2>9. InRound(R)'
    BY <1>0, <2>1, <1>10 DEF Poll
  <2> QED
    BY <1>0, <2>9
<1>11. CASE ArriveAcquire(p)
  <2>1. Spinners(R)' = Spinners(R)
    BY <1>0, <1>11 DEF ArriveAcquire, Spinners
  <2>9. InRound(R)'
    BY <1>0, <2>1, <1>11 DEF ArriveAcquire
  <2> QED
    BY <1>0, <2>9
<1>12. CASE ArriveLoad(p)
  <2>1. Spinners(R)' = Spinners(R)
    BY <1>0, <1>12 DEF ArriveLoad, Spinners
  <2>9. InRound(R)'
    BY <1>0, <2>1, <1>12 DEF ArriveLoad
  <2> QED
    BY <1>0, <2>9
<1>13. CASE ArriveStore(p)
  <2>1. Initialized /\ rounds[p] = R
    BY <1>0, <1>13 DEF ArriveStore
  <2>2. p \notin Spinners(R) /\ Spinners(R)' = Spinners(R) \cup {p}
    BY <1>0, <2>1, <1>13 DEF ArriveStore, Spinners
  <2>3. Cardinality(Spinners(R)') = Cardinality(Spinners(R)) + 1
    BY <1>0, <2>2, SpinnersGrow, BarrierAssumption
  <2>4. count_'[shm_name'] = count_[shm_name] + 1 /\ count_'[shm_name'] < N
    BY <1>0, <2>1, <1>13, BarrierAssumption DEF ArriveStore
  <2>5. RoundsOK(R)'
    BY <1>0, <2>1, <1>13 DEF ArriveStore
  <2>6. CountOK(R)'
    BY <1>0, <2>1, <2>3, <2>4, <1>13 DEF ArriveStore
  <2>7. SenseOK(R)'
    BY <1>0, <2>1, <1>13 DEF ArriveStore
  <2>9. InRound(R)'
    BY <2>5, <2>6, <2>7 DEF InRound
  <2> QED
    BY <1>0, <2>9
<1>14. CASE ArriveLast(p)
  <2>1. Initialized /\ rounds[p] = R /\ R + 1 \in 0 .. Waits
    BY <1>0, <1>14, BarrierAssumption DEF ArriveLast
  <2>2. Spinners(R) \cup {p} = Procs
    <3>1. p \notin Spinners(R) /\ Spinners(R) \cup {p} \subseteq Procs
      BY <1>0, <1>14 DEF ArriveLast, Spinners
    <3>2. Cardinality(Spinners(R) \cup {p}) = N
      BY <1>0, <2>1, <3>1, <1>14, SpinnersFinite, SpinnersGrow,
         BarrierAssumption DEF ArriveLast
    <3> QED
      BY <1>0, <3>1, <3>2, FS_Subset, BarrierAssumption DEF OneBarrier
  <2>3. \A q \in Procs : rounds[q] = R
    BY <1>0, <2>1, <2>2 DEF Spinners
  <2>8. \A q \in Procs : q # p => pc[q] \in {"spin_wait", "spin"}
    BY <1>0, <2>1, <2>2 DEF Spinners
  <2>4. Spinners(R + 1)' = {}
    BY <1>0, <2>3, <1>14 DEF ArriveLast, Spinners
  <2>5. Cardinality(Spinners(R + 1)') = 0
    BY <1>0, <2>4, FS_EmptySet
  <2>6. \A q \in Procs : shared_sense_'[shm_name'] = sense_'[q]
    <3>1. shm_data_[p] = shm_name /\ shm_name \in Objects
      BY <1>0, <1>14 DEF ArriveLast
    <3> HIDE DEF TypeOK, SenseOK
    <3>3. SenseOK(R)
      BY <1>0, <2>1
    <3> QED
      BY <1>0, <1>14, <2>3, <3>1, <3>3, ReverseSense
  <2>7. InRound(R + 1)'
    BY <1>0, <2>1, <2>3, <2>8, <2>5, <2>6, <1>14, BarrierAssumption DEF ArriveLast
  <2> QED
    BY <1>0, <2>1, <2>7
<1>15. CASE SpinAcquire(p)
  <2>1. Spinners(R)' = Spinners(R)
    BY <1>0, <1>15 DEF SpinAcquire, Spinners
  <2>9. InRound(R)'
    BY <1>0, <2>1, <1>15 DEF SpinAcquire
  <2> QED
    BY <1>0, <2>9
<1>16. CASE Spin(p)
  <2>1. Spinners(R)' = Spinners(R)
    BY <1>0, <1>16 DEF Spin, Spinners
  <2>2. shared_sense_[shm_name] \in BOOLEAN /\ sense_[p] \in BOOLEAN
    BY <1>0, <1>16 DEF Spin
  <2>3. RoundsOK(R)'
    BY <1>0, <1>16 DEF Spin
  <2>4. Initialized /\ CountOK(R)'
    BY <1>0, <2>1, <1>16 DEF Spin
  <2>5. SenseOK(R)'
    BY <1>0, <2>2, <2>4, Flip, <1>16 DEF Spin
  <2>9. InRound(R)'
    BY <1>0, <2>1, <1>16 DEF Spin
  <2> QED
    BY <1>0, <2>9
<1>17. CASE Return(p)
  <2>1. Spinners(R)' = Spinners(R)
    BY <1>0, <1>17 DEF Return, Spinners
  <2>2. shared_sense_[shm_name] \in BOOLEAN /\ sense_[p] \in BOOLEAN
    BY <1>0, <1>17 DEF Return
  <2>3. RoundsOK(R)'
    BY <1>0, <1>17 DEF Return
  <2>4. Initialized /\ CountOK(R)'
    BY <1>0, <2>1, <1>17 DEF Return
  <2>5. SenseOK(R)'
    BY <1>0, <2>2, <2>4, Flip, <1>17 DEF Return
  <2>9. InRound(R)'
    BY <1>0, <2>1, <1>17 DEF Return
  <2> QED
    BY <1>0, <2>9
<1>18. CASE LeaveAcquire(p)
  <2>1. Spinners(R)' = Spinners(R)
    BY <1>0, <1>18 DEF LeaveAcquire, Spinners
  <2>9. InRound(R)'
    BY <1>0, <2>1, <1>18 DEF LeaveAcquire
  <2> QED
    BY <1>0, <2>9
<1>19. CASE LeaveLoad(p)
  <2>1. Spinners(R)' = Spinners(R)
    BY <1>0, <1>19 DEF LeaveLoad, Spinners
  <2>9. InRound(R)'
    BY <1>0, <2>1, <1>19 DEF LeaveLoad
  <2> QED
    BY <1>0, <2>9
<1>20. CASE LeaveStore(p)
  <2>1. Spinners(R)' = Spinners(R)
    BY <1>0, <1>20 DEF LeaveStore, Spinners
  <2>9. InRound(R)'
    BY <1>0, <2>1, <1>20 DEF LeaveStore
  <2> QED
    BY <1>0, <2>9
<1>21. CASE LeaveLast(p)
  <2>1. Spinners(R)' = Spinners(R)
    BY <1>0, <1>21 DEF LeaveLast, Spinners
  <2>9. InRound(R)'
    BY <1>0, <2>1, <1>21 DEF LeaveLast
  <2> QED
    BY <1>0, <2>9
<1>22. CASE SemUnlink(p)
  <2>1. Spinners(R)' = Spinners(R)
    BY <1>0, <1>22 DEF SemUnlink, Spinners
  <2>9. InRound(R)'
    BY <1>0, <2>1, <1>22 DEF SemUnlink
  <2> QED
    BY <1>0, <2>9
<1>23. CASE ShmUnlink(p)
  <2>1. Spinners(R)' = Spinners(R)
    BY <1>0, <1>23 DEF ShmUnlink, Spinners
  <2>9. InRound(R)'
    BY <1>0, <2>1, <1>23 DEF ShmUnlink
  <2> QED
    BY <1>0, <2>9
<1>24. CASE SemClose(p)
  <2>1. Spinners(R)' = Spinners(R)
    BY <1>0, <1>24 DEF SemClose, Spinners
  <2>9. InRound(R)'
    BY <1>0, <2>1, <1>24 DEF SemClose
  <2> QED
    BY <1>0, <2>9
<1>25. CASE Unmap(p)
  <2>1. Spinners(R)' = Spinners(R)
    BY <1>0, <1>25 DEF Unmap, Spinners
  <2>9. InRound(R)'
    BY <1>0, <2>1, <1>25 DEF Unmap
  <2> QED
    BY <1>0, <2>9
<1> QED
  BY <1>1, <1>2, <1>3, <1>4, <1>5, <1>6, <1>7, <1>8, <1>9, <1>10, <1>11, <1>12,
     <1>13, <1>14, <1>15, <1>16, <1>17, <1>18, <1>19, <1>20, <1>21, <1>22, <1>23,
     <1>24, <1>25
     DEF Step, Construct, Wait, Destroy

-----------------------------------------------------------------------------
\* The invariant holds initially, and a step of the specification keeps it.

LEMMA InvInit ==
    ASSUME Init, OneBarrier
    PROVE  IInv
<1> USE BarrierAssumption DEF Init, OneBarrier, Closed, Unmapped, Locked, Past, Lines,
          Entering, Joining, Polling, InWait, Leaving, Closing, Initialized
<1>1. TypeOK
  BY DEF TypeOK
<1>2. HandleInv /\ ClosingInv /\ LockInv /\ LoadInv
  BY DEF HandleInv, ClosingInv, LockInv, LoadInv
<1>3. UserInv
  BY DEF UserInv
<1>4. LeaveInv
  BY DEF LeaveInv, NoEarlyLeave, LastUserUnlinks
<1>5. InRound(0)
  BY DEF InRound, RoundsOK
<1> QED
  BY <1>1, <1>2, <1>3, <1>4, <1>5 DEF IInv, RoundInv

LEMMA InvStutter ==
    ASSUME IInv, UNCHANGED vars
    PROVE  IInv'
<1> USE DEF vars, shared, own, names, Closed, Unmapped, Locked, Past, Initialized
<1>1. TypeOK'
  BY DEF IInv, TypeOK
<1>2. HandleInv' /\ ClosingInv' /\ LockInv' /\ LoadInv'
  BY DEF IInv, HandleInv, ClosingInv, LockInv, LoadInv
<1>3. Users' = Users
  BY DEF Users
<1>4. UserInv'
  BY <1>3 DEF IInv, UserInv
<1>5. LeaveInv'
  BY DEF IInv, LeaveInv, NoEarlyLeave, LastUserUnlinks
<1>6. ASSUME NEW R, InRound(R)
      PROVE  InRound(R)'
  <2>1. Spinners(R)' = Spinners(R)
    BY DEF Spinners
  <2> QED
    BY <1>6, <2>1 DEF InRound, RoundsOK, CountOK, SenseOK
<1>7. RoundInv'
  BY <1>6 DEF IInv, RoundInv
<1> QED
  BY <1>1, <1>2, <1>4, <1>5, <1>7 DEF IInv

LEMMA InvNext ==
    ASSUME IInv, OneBarrier, [Next]_vars
    PROVE  IInv'
<1>1. ASSUME NEW p \in Procs, Step(p)
      PROVE  IInv'
  <2> USE <1>1 DEF IInv
  <2>1. NoEarlyLeave
    BY DEF LeaveInv
  <2>2. TypeOK'
    BY TypeStep
  <2>3. HandleInv'
    BY HandleStep
  <2>4. LockInv'
    BY LockStep
  <2>5. LoadInv'
    BY LoadStep
  <2>6. UserInv'
    BY <2>1, UserStep
  <2>7. LeaveInv'
    BY LeaveStep
  <2>8. RoundInv'
    BY RoundStep
  <2>9. ClosingInv'
    BY ClosingStep
  <2> QED
    BY <2>2, <2>3, <2>4, <2>5, <2>6, <2>7, <2>8, <2>9
<1>2. CASE Done \/ UNCHANGED vars
  BY <1>2, InvStutter DEF Done
<1> QED
  BY <1>1, <1>2 DEF Next

\* The inductive invariant of barrier.cc: handles, lock, counts and rounds of
\* the constructor, Wait and the destructor fit together in every state.
THEOREM Invariance ==
    ASSUME OneBarrier
    PROVE  Spec => []IInv
<1>1. Init => IInv
  BY InvInit
<1>2. IInv /\ [Next]_vars => IInv'
  BY InvNext
<1> QED
  BY <1>1, <1>2, PTL DEF Spec
-----------------------------------------------------------------------------
\* What the invariant says of a single state.

\* All open handles are to one semaphore and one memory, unlinked or not.
LEMMA SameHandles ==
    ASSUME HandleInv, ClosingInv, NEW p \in Procs, NEW q \in Procs
    PROVE  /\ shm_sem_[p] # None /\ shm_sem_[q] # None => shm_sem_[p] = shm_sem_[q]
           /\ shm_data_[p] # None /\ shm_data_[q] # None => shm_data_[p] = shm_data_[q]
<1>1. ASSUME shm_sem_[p] # None, shm_sem_[q] # None
      PROVE  shm_sem_[p] = shm_sem_[q]
  <2>1. CASE pc[p] = "sem_close" /\ pc[q] = "sem_close"
    BY <2>1 DEF ClosingInv
  <2>2. CASE pc[p] # "sem_close" \/ pc[q] # "sem_close"
    BY <1>1, <2>2 DEF HandleInv, Closed, Closing
  <2> QED
    BY <2>1, <2>2
<1>2. ASSUME shm_data_[p] # None, shm_data_[q] # None
      PROVE  shm_data_[p] = shm_data_[q]
  <2>1. CASE pc[p] \in Closing /\ pc[q] \in Closing
    BY <2>1 DEF ClosingInv
  <2>2. CASE pc[p] \notin Closing \/ pc[q] \notin Closing
    BY <1>2, <2>2 DEF HandleInv, Unmapped
  <2> QED
    BY <2>1, <2>2
<1> QED
  BY <1>1, <1>2

LEMMA Consequences ==
    ASSUME IInv, OneBarrier
    PROVE  /\ SameInitializedMemory
           /\ BarrierSafety
           /\ CountersInRange
           /\ NoEarlyLeave
           /\ LastUserUnlinks
           /\ CleanedUp
<1> USE DEF IInv
<1>1. PICK R \in 0 .. Waits : InRound(R)
  BY DEF RoundInv
<1>2. SameInitializedMemory
  <2>1. ASSUME NEW p \in Procs, NEW q \in Procs, pc[p] = "shm_init", shm_data_[q] # None
        PROVE  p = q
    BY <2>1 DEF HandleInv, Unmapped
  <2> QED
    BY <2>1, SameHandles DEF SameInitializedMemory
<1>3. BarrierSafety
  BY <1>1 DEF InRound, RoundsOK, BarrierSafety, Arrived, TypeOK
<1>4. ASSUME NEW p \in Procs, shm_data_[p] # None, pc[p] # "shm_init"
      PROVE  /\ count_[shm_data_[p]] \in 0 .. N - 1
             /\ n_users_[shm_data_[p]] \in 0 .. N
  <2>1. CASE pc[p] \in Closing /\ shm_name = None
    BY <2>1, BarrierAssumption DEF ClosingInv
  <2>2. CASE pc[p] \notin Closing \/ shm_name # None
    <3>1. shm_data_[p] = shm_name /\ pc[p] \notin Unmapped
      BY <1>4, <2>2 DEF HandleInv, Unmapped
    <3>2. Initialized
      BY <1>4, <3>1 DEF HandleInv, Initialized, Unmapped
    <3>3. /\ count_[shm_name] = Cardinality(Spinners(R))
          /\ count_[shm_name] < N
          /\ n_users_[shm_name] = Cardinality(Users)
      BY <1>1, <3>2 DEF InRound, CountOK, UserInv
    <3> QED
      BY <3>1, <3>3, SpinnersFinite, UsersFinite, BarrierAssumption DEF OneBarrier
  <2> QED
    BY <2>1, <2>2
<1>5. CountersInRange
  BY <1>4 DEF CountersInRange
<1>6. CleanedUp
  BY DEF HandleInv, LeaveInv, CleanedUp
<1> QED
  BY <1>2, <1>3, <1>5, <1>6 DEF LeaveInv

\* Variables keep their types: the handles, counters and lines of barrier.cc.
THEOREM TypeCorrect ==
    ASSUME OneBarrier
    PROVE  Spec => []TypeOK
<1>1. IInv => TypeOK
  BY DEF IInv
<1> QED
  BY <1>1, Invariance, PTL

\* Wait (barrier.cc:99-133) returns only when everybody has called it as often.
THEOREM BarrierIsSafe ==
    ASSUME OneBarrier
    PROVE  Spec => []BarrierSafety
<1>1. IInv => BarrierSafety
  BY Consequences
<1> QED
  BY <1>1, Invariance, PTL

\* The constructor (barrier.cc:24-74) gives everybody the same, zeroed memory.
THEOREM MemoryIsShared ==
    ASSUME OneBarrier
    PROVE  Spec => []SameInitializedMemory
<1>1. IInv => SameInitializedMemory
  BY Consequences
<1> QED
  BY <1>1, Invariance, PTL

\* count_ and n_users_ (barrier.cc:77, 102, 138) stay in range: no wrap.
THEOREM CountersStayInRange ==
    ASSUME OneBarrier
    PROVE  Spec => []CountersInRange
<1>1. IInv => CountersInRange
  BY Consequences
<1> QED
  BY <1>1, Invariance, PTL

\* Nobody is in its destructor while another polls (barrier.cc:84-92).
THEOREM NobodyLeavesEarly ==
    ASSUME OneBarrier
    PROVE  Spec => []NoEarlyLeave
<1>1. IInv => NoEarlyLeave
  BY Consequences
<1> QED
  BY <1>1, Invariance, PTL

\* Only the last user unlinks the names: everybody else has been counted out by then
\* and can only close its own handles; and the names are gone at the end
\* (barrier.cc:138-164).
THEOREM NamesAreCleanedUp ==
    ASSUME OneBarrier
    PROVE  Spec => [](LastUserUnlinks /\ CleanedUp)
<1>1. IInv => LastUserUnlinks /\ CleanedUp
  BY Consequences
<1> QED
  BY <1>1, Invariance, PTL
-----------------------------------------------------------------------------
\* Nobody waits in vain.

\* Who finds the semaphore at 0 shares it with the process that has it.
LEMMA LockHasHolder ==
    ASSUME IInv, NEW p \in Procs, shm_sem_[p] # None, value[shm_sem_[p]] = 0
    PROVE  \E q \in Procs : pc[q] \in Locked /\ shm_sem_[q] = shm_sem_[p]
<1>1. shm_sem_[p] = sem_name /\ sem_name # None
  <2>1. pc[p] \notin Closed
    BY DEF IInv, HandleInv
  <2>2. CASE pc[p] = "sem_close"
    BY <2>1, <2>2 DEF IInv, HandleInv, ClosingInv
  <2>3. CASE pc[p] # "sem_close"
    BY <2>1, <2>3 DEF IInv, HandleInv, Closing, Closed
  <2> QED
    BY <2>2, <2>3
<1>2. PICK q \in Procs : pc[q] \in Locked
  BY <1>1 DEF IInv, LockInv
<1>3. shm_sem_[q] = sem_name
  BY <1>2 DEF IInv, HandleInv, Locked, Closing, Closed
<1> QED
  BY <1>1, <1>2, <1>3

\* Who polls for n_ users while fewer are counted waits for one that is not counted
\* yet, since none has left.
LEMMA PollerHasPeer ==
    ASSUME IInv, OneBarrier, NEW p \in Procs, pc[p] \in Polling, LooksAgain(p)
    PROVE  \E q \in Procs : pc[q] \in Entering \cup Joining
<1>1. shm_data_[p] = shm_name /\ Initialized
  BY DEF IInv, HandleInv, Initialized, Unmapped, Closing, Polling
<1>2. Cardinality(Users) < N
  BY <1>1 DEF IInv, UserInv, LooksAgain, Polling
<1>3. Users # Procs
  BY <1>2, UsersFinite, BarrierAssumption DEF OneBarrier
<1>4. PICK q \in Procs : q \notin Users
  BY <1>3 DEF Users
<1>5. pc[q] \notin Leaving /\ pc[q] # "aborted"
  BY DEF IInv, LeaveInv, NoEarlyLeave, HandleInv
<1> QED
  BY <1>4, <1>5 DEF IInv, TypeOK, Lines, Users

\* Who spins on the sense of its round waits for one that is not counted in it.
LEMMA SpinnerHasPeer ==
    ASSUME IInv, OneBarrier, NEW p \in Procs, pc[p] \in {"spin_wait", "spin"}, LooksAgain(p)
    PROVE  \E q \in Procs : pc[q] \notin {"gone", "aborted"} /\ ~LooksAgain(q)
<1> USE DEF IInv
<1>1. PICK R \in 0 .. Waits : InRound(R)
  BY DEF RoundInv
<1>2. shm_data_[p] = shm_name /\ Initialized
  BY DEF HandleInv, Initialized, Unmapped, Closing
<1>3. shared_sense_[shm_name] # sense_[p]
  BY <1>2 DEF LooksAgain, Polling
<1>4. rounds[p] = R /\ R < Waits
  BY <1>1, <1>2, <1>3 DEF InRound, SenseOK, LeaveInv, InWait
<1>5. Cardinality(Spinners(R)) < N
  BY <1>1, <1>2 DEF InRound, CountOK
<1>6. PICK q \in Procs : q \notin Spinners(R)
  <2>1. Spinners(R) # Procs
    BY <1>5, BarrierAssumption DEF OneBarrier
  <2> QED
    BY <2>1 DEF Spinners
<1>7. pc[q] \notin Leaving /\ pc[q] # "aborted"
  <2>1. rounds[q] # Waits
    BY <1>1, <1>4, BarrierAssumption DEF InRound, RoundsOK, TypeOK
  <2> QED
    BY <2>1 DEF LeaveInv, HandleInv
<1>8. ~LooksAgain(q)
  <2>1. CASE pc[q] \in Polling
    <3>1. \A r \in Procs : pc[r] \notin Entering \cup Joining
      BY DEF UserInv, Past, InWait
    <3> QED
      BY <2>1, <3>1, PollerHasPeer
  <2>2. CASE pc[q] \in {"spin_wait", "spin"}
    <3>1. rounds[q] # R
      BY <1>6, <2>2 DEF Spinners
    <3>2. shared_sense_[shm_name] = sense_[q] /\ shm_data_[q] = shm_name
      BY <1>1, <1>2, <2>2, <3>1 DEF InRound, SenseOK, HandleInv, Unmapped, Closing
    <3> QED
      BY <2>2, <3>2 DEF LooksAgain, Polling
  <2> QED
    BY <2>1, <2>2 DEF LooksAgain
<1> QED
  BY <1>7, <1>8 DEF Leaving

\* No deadlock, and no livelock of all in the two busy-wait loops (barrier.cc:84-92,
\* :120-127): somebody can do more than look again, for any number of users and waits.
THEOREM NobodyWaitsInVain ==
    ASSUME OneBarrier
    PROVE  Spec => []NoDeadlock
<1>1. ASSUME IInv, NEW p \in Procs, pc[p] # "gone"
      PROVE  \E q \in Procs : pc[q] \notin {"gone", "aborted"} /\ ~LooksAgain(q)
  <2>1. CASE ~LooksAgain(p)
    BY <1>1, <2>1 DEF IInv, HandleInv
  <2>2. CASE LooksAgain(p) /\ pc[p] \in {"spin_wait", "spin"}
    BY <1>1, <2>2, SpinnerHasPeer
  <2>3. CASE LooksAgain(p) /\ pc[p] \in Polling
    <3>1. PICK q \in Procs : pc[q] \in Entering \cup Joining
      BY <1>1, <2>3, PollerHasPeer
    <3> QED
      BY <3>1 DEF LooksAgain, Entering, Joining, Polling
  <2> QED
    BY <2>1, <2>2, <2>3 DEF LooksAgain
<1>2. IInv => NoDeadlock
  BY <1>1, LockHasHolder DEF NoDeadlock
<1> QED
  BY <1>2, Invariance, PTL
-----------------------------------------------------------------------------
\* The barrier implements the abstract one.

LEMMA AbstractInit ==
    ASSUME Init
    PROVE  Abs!Init
  BY DEF Init, Abs!Init, Arrived

\* Being counted is the abstract arrival.
LEMMA ArriveRefines ==
    ASSUME TypeOK, NEW p \in Procs, ArriveStore(p) \/ ArriveLast(p)
    PROVE  Abs!Arrive(p)
  BY DEF ArriveStore, ArriveLast, Goto, own, TypeOK, Arrived, Abs!Arrive

\* The return is the abstract pass: everybody has arrived.
LEMMA ReturnRefines ==
    ASSUME IInv, NEW p \in Procs, Return(p)
    PROVE  Abs!Pass(p)
<1>1. PICK R \in 0 .. Waits : InRound(R)
  BY DEF IInv, RoundInv
<1>2. Arrived(p) = R /\ \A q \in Procs : R <= Arrived(q)
  BY <1>1 DEF IInv, TypeOK, InRound, RoundsOK, Return, Arrived
<1> QED
  BY <1>1, <1>2 DEF IInv, TypeOK, Return, Goto, Arrived, Abs!Pass

\* Every other step is invisible.
LEMMA OtherRefines ==
    ASSUME TypeOK, NEW p \in Procs, Step(p),
           ~ArriveStore(p), ~ArriveLast(p), ~Return(p)
    PROVE  UNCHANGED Abs!vars
<1>1. rounds' = rounds /\ \A q \in Procs : Arrived(q)' = Arrived(q)
  <2> USE DEF TypeOK, Goto, own, Arrived
  <2>1. CASE Construct(p)
    BY <2>1 DEF Construct, SemOpen, InitAcquire, ShmCreate, ShmInit, ShmOpen,
                JoinAcquire, JoinLoad, JoinStore, PollAcquire, Poll
  <2>2. CASE Wait(p)
    BY <2>2 DEF Wait, ArriveAcquire, ArriveLoad, SpinAcquire, Spin
  <2>3. CASE Destroy(p)
    BY <2>3 DEF Destroy, LeaveAcquire, LeaveLoad, LeaveStore, LeaveLast,
                SemClose, Unmap, SemUnlink, ShmUnlink
  <2> QED
    BY <2>1, <2>2, <2>3 DEF Step
<1> QED
  BY <1>1 DEF Abs!vars

LEMMA NextRefines ==
    ASSUME IInv, [Next]_vars
    PROVE  [Abs!Next]_(Abs!vars)
<1>1. ASSUME NEW p \in Procs, Step(p)
      PROVE  [Abs!Next]_(Abs!vars)
  <2>1. TypeOK
    BY DEF IInv
  <2>2. CASE ArriveStore(p) \/ ArriveLast(p)
    BY <2>1, <2>2, ArriveRefines DEF Abs!Next
  <2>3. CASE Return(p)
    BY <2>3, ReturnRefines DEF Abs!Next
  <2>4. CASE ~ArriveStore(p) /\ ~ArriveLast(p) /\ ~Return(p)
    BY <1>1, <2>1, <2>4, OtherRefines
  <2> QED
    BY <2>2, <2>3, <2>4
<1>2. CASE Done \/ UNCHANGED vars
  BY <1>2 DEF Done, vars, shared, own, Arrived, Abs!vars
<1> QED
  BY <1>1, <1>2 DEF Next

\* Constructor, Wait and destructor of barrier.cc implement AbstractBarrier.
THEOREM Implementation ==
    ASSUME OneBarrier
    PROVE  Spec => ImplementsBarrier
<1>1. Init => Abs!Init
  BY AbstractInit
<1>2. IInv /\ [Next]_vars => [Abs!Next]_(Abs!vars)
  BY NextRefines
<1> QED
  BY <1>1, <1>2, Invariance, PTL DEF Spec, Abs!Spec, ImplementsBarrier
=============================================================================
