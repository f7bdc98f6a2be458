----------------------- MODULE SenseReversingBarrier -----------------------
(***************************************************************************)
(* barrier.cc: the constructor, Wait and the destructor of the interprocess*)
(* barrier, one user per process, down to the named semaphore and the named*)
(* shared memory they find through the kernel.  A step is one system call  *)
(* or one access to the shared record: the increments of n_users_ and      *)
(* count_ are a load and a store, so it is the semaphore, and nothing in   *)
(* the model, that keeps them together.                                    *)
(*                                                                         *)
(* A process calls Wait exactly Waits times between its constructor and    *)
(* its destructor, like the loops of barrier_latency.cc and barrier_test.cc*)
(***************************************************************************)
EXTENDS Integers, FiniteSets

CONSTANTS Procs,       \* the processes that construct a barrier on one id
          N,           \* n_: the users each of them waits for
          Waits,       \* calls of Wait each makes before its destructor
          Objects,     \* identities of kernel objects; bounds the creations
          None         \* no object: an unbound name, a closed handle

ASSUME BarrierAssumption == /\ IsFiniteSet(Procs)
                            /\ N \in Nat \ {0}
                            /\ Waits \in Nat
                            /\ None \notin Objects

VARIABLES
    sem_name,   \* the object the name shm_sem_id_ is bound to
    shm_name,   \* the object the name shm_id_ is bound to
    created,    \* the objects created so far, unlinked ones included
    value,      \* value[o]: the value of semaphore o
    count_,          \* the three fields of the ShmData in shared memory o:
    shared_sense_,   \* count_[o], shared_sense_[o] and n_users_[o]
    n_users_,
    shm_sem_,   \* shm_sem_[p]: the semaphore p has open
    shm_data_,  \* shm_data_[p]: the shared memory p has mapped
    sense_,     \* sense_[p]: p's sense
    reg,        \* reg[p]: what p loaded and has not stored back yet
    rounds,     \* rounds[p]: calls of Wait that returned to p
    pc          \* pc[p]: the line p is about to execute

names  == <<sem_name, shm_name>>
memory == <<count_, shared_sense_, n_users_>>
shared == <<sem_name, shm_name, created, value, count_, shared_sense_, n_users_>>
own    == <<shm_sem_, shm_data_, sense_, reg, rounds>>
vars   == <<shared, own, pc>>

\* Where a process is: before it has the memory mapped and released the lock,
\* before it is counted in n_users_, polling, inside Wait, in the destructor.
Entering == {"start", "init_wait", "shm_create", "shm_init", "shm_open"}
Joining  == {"join_wait", "join_load", "join_store"}
Polling  == {"poll_wait", "poll"}
InWait   == {"arrive_load", "arrive_store", "spin_wait", "spin", "return"}
Closing  == {"sem_close", "munmap"}      \* counted out, handles still open
Leaving  == {"leave_load", "leave_store", "sem_unlink", "shm_unlink", "gone"} \cup Closing
Lines == Entering \cup Joining \cup Polling \cup {"ready"} \cup InWait
            \cup Leaving \cup {"aborted"}      \* abort() of a failed AKCHECK

\* The lines between a sem_wait and the sem_post after it.
Locked == {"shm_create", "shm_init", "shm_open", "join_load", "join_store",
           "poll", "arrive_load", "arrive_store", "spin",
           "leave_load", "leave_store"}

Init == /\ sem_name = None
        /\ shm_name = None
        /\ created = {}
        /\ value = [o \in Objects |-> 0]
        /\ count_ = [o \in Objects |-> 0]
        /\ shared_sense_ = [o \in Objects |-> FALSE]
        /\ n_users_ = [o \in Objects |-> 0]
        /\ shm_sem_ = [p \in Procs |-> None]
        /\ shm_data_ = [p \in Procs |-> None]
        /\ sense_ = [p \in Procs |-> TRUE]
        /\ reg = [p \in Procs |-> 0]
        /\ rounds = [p \in Procs |-> 0]
        /\ pc = [p \in Procs |-> "start"]

Goto(p, line) == pc' = [pc EXCEPT ![p] = line]

\* sem_wait(shm_sem_) that succeeds, and sem_post(shm_sem_).
SemWait(p) == /\ value[shm_sem_[p]] > 0
              /\ value' = [value EXCEPT ![shm_sem_[p]] = @ - 1]
SemPost(p) == value' = [value EXCEPT ![shm_sem_[p]] = @ + 1]

\* The identity of a fresh object does not matter, so the choice is fixed.
CanCreate == created # Objects
NewObject == CHOOSE o \in Objects : o \notin created
-----------------------------------------------------------------------------
\* The constructor.

\* sem_open with O_CREAT: the bound object, or a new one with value 1.
SemOpen(p) ==
    /\ pc[p] = "start"
    /\ \/ /\ sem_name # None
          /\ shm_sem_' = [shm_sem_ EXCEPT ![p] = sem_name]
          /\ UNCHANGED <<sem_name, created, value>>
       \/ /\ sem_name = None /\ CanCreate
          /\ sem_name' = NewObject
          /\ created' = created \cup {NewObject}
          /\ value' = [value EXCEPT ![NewObject] = 1]
          /\ shm_sem_' = [shm_sem_ EXCEPT ![p] = NewObject]
    /\ Goto(p, "init_wait")
    /\ UNCHANGED <<shm_name, memory, shm_data_, sense_, reg, rounds>>

\* Mutant: the semaphore is taken without waiting for it.
InitAcquire_NoWait(p) ==
    /\ pc[p] = "init_wait"
    /\ value' = [value EXCEPT ![shm_sem_[p]] = @ - 1]
    /\ Goto(p, "shm_create")
    /\ UNCHANGED <<names, created, memory, own>>

InitAcquire(p) ==
    /\ pc[p] = "init_wait"
    /\ SemWait(p)
    /\ Goto(p, "shm_create")
    /\ UNCHANGED <<names, created, memory, own>>

\* Mutant: without O_EXCL the second process initializes the memory again.
ShmCreate_NoExcl(p) ==
    /\ pc[p] = "shm_create"
    /\ \/ /\ shm_name = None /\ CanCreate
          /\ shm_name' = NewObject
          /\ created' = created \cup {NewObject}
          /\ shm_data_' = [shm_data_ EXCEPT ![p] = NewObject]
       \/ /\ shm_name # None
          /\ shm_data_' = [shm_data_ EXCEPT ![p] = shm_name]
          /\ UNCHANGED <<shm_name, created>>
    /\ Goto(p, "shm_init")
    /\ UNCHANGED <<sem_name, value, memory, shm_sem_, sense_, reg, rounds>>

\* shm_open with O_EXCL: create the object, or learn that the name is taken.
ShmCreate(p) ==
    /\ pc[p] = "shm_create"
    /\ \/ /\ shm_name = None /\ CanCreate
          /\ shm_name' = NewObject
          /\ created' = created \cup {NewObject}
          /\ shm_data_' = [shm_data_ EXCEPT ![p] = NewObject]
          /\ Goto(p, "shm_init")
       \/ /\ shm_name # None
          /\ Goto(p, "shm_open")
          /\ UNCHANGED <<shm_name, created, shm_data_>>
    /\ UNCHANGED <<sem_name, value, memory, shm_sem_, sense_, reg, rounds>>

\* ftruncate, mmap, the three assignments and the sem_post after them.
ShmInit(p) ==
    /\ pc[p] = "shm_init"
    /\ count_' = [count_ EXCEPT ![shm_data_[p]] = 0]
    /\ shared_sense_' = [shared_sense_ EXCEPT ![shm_data_[p]] = FALSE]
    /\ n_users_' = [n_users_ EXCEPT ![shm_data_[p]] = 0]
    /\ SemPost(p)
    /\ Goto(p, "join_wait")
    /\ UNCHANGED <<names, created, own>>

\* The second shm_open, without O_CREAT: it fails if the name is gone by now.
ShmOpen(p) ==
    /\ pc[p] = "shm_open"
    /\ \/ /\ shm_name # None
          /\ shm_data_' = [shm_data_ EXCEPT ![p] = shm_name]
          /\ SemPost(p)
          /\ Goto(p, "join_wait")
       \/ /\ shm_name = None
          /\ Goto(p, "aborted")
          /\ UNCHANGED <<value, shm_data_>>
    /\ UNCHANGED <<names, created, memory, shm_sem_, sense_, reg, rounds>>

\* Mutant: n_users_++ outside the critical section.
JoinAcquire_NoLock(p) ==
    /\ pc[p] = "join_wait"
    /\ Goto(p, "join_load")
    /\ UNCHANGED <<shared, own>>

JoinAcquire(p) ==
    /\ pc[p] = "join_wait"
    /\ SemWait(p)
    /\ Goto(p, "join_load")
    /\ UNCHANGED <<names, created, memory, own>>

JoinLoad(p) ==
    /\ pc[p] = "join_load"
    /\ reg' = [reg EXCEPT ![p] = n_users_[shm_data_[p]]]
    /\ Goto(p, "join_store")
    /\ UNCHANGED <<shared, shm_sem_, shm_data_, sense_, rounds>>

JoinStore(p) ==
    /\ pc[p] = "join_store"
    /\ n_users_' = [n_users_ EXCEPT ![shm_data_[p]] = reg[p] + 1]
    /\ SemPost(p)
    /\ Goto(p, "poll_wait")
    /\ UNCHANGED <<names, created, count_, shared_sense_, own>>

PollAcquire(p) ==
    /\ pc[p] = "poll_wait"
    /\ SemWait(p)
    /\ Goto(p, "poll")
    /\ UNCHANGED <<names, created, memory, own>>

\* One turn of the loop that waits for all users to join.
Poll(p) ==
    /\ pc[p] = "poll"
    /\ SemPost(p)
    /\ Goto(p, IF n_users_[shm_data_[p]] >= N THEN "ready" ELSE "poll_wait")
    /\ UNCHANGED <<names, created, memory, own>>
-----------------------------------------------------------------------------
\* Wait.

ArriveAcquire(p) ==
    /\ pc[p] = "ready"
    /\ rounds[p] < Waits
    /\ SemWait(p)
    /\ Goto(p, "arrive_load")
    /\ UNCHANGED <<names, created, memory, own>>

ArriveLoad(p) ==
    /\ pc[p] = "arrive_load"
    /\ reg' = [reg EXCEPT ![p] = count_[shm_data_[p]]]
    /\ Goto(p, "arrive_store")
    /\ UNCHANGED <<shared, shm_sem_, shm_data_, sense_, rounds>>

\* Not the last user: be counted, and spin.
ArriveStore(p) ==
    /\ pc[p] = "arrive_store"
    /\ reg[p] + 1 # N
    /\ count_' = [count_ EXCEPT ![shm_data_[p]] = reg[p] + 1]
    /\ SemPost(p)
    /\ Goto(p, "spin_wait")
    /\ UNCHANGED <<names, created, shared_sense_, n_users_, own>>

\* Mutant: the last user forgets to reset the count.
ArriveLast_NoReset(p) ==
    /\ pc[p] = "arrive_store"
    /\ reg[p] + 1 = N
    /\ shared_sense_' = [shared_sense_ EXCEPT ![shm_data_[p]] = ~@]
    /\ count_' = [count_ EXCEPT ![shm_data_[p]] = N]
    /\ SemPost(p)
    /\ Goto(p, "return")
    /\ UNCHANGED <<names, created, n_users_, own>>

\* The last user: reverse the shared sense, reset the count, do not spin.
ArriveLast(p) ==
    /\ pc[p] = "arrive_store"
    /\ reg[p] + 1 = N
    /\ shared_sense_' = [shared_sense_ EXCEPT ![shm_data_[p]] = ~@]
    /\ count_' = [count_ EXCEPT ![shm_data_[p]] = 0]
    /\ SemPost(p)
    /\ Goto(p, "return")
    /\ UNCHANGED <<names, created, n_users_, own>>

SpinAcquire(p) ==
    /\ pc[p] = "spin_wait"
    /\ SemWait(p)
    /\ Goto(p, "spin")
    /\ UNCHANGED <<names, created, memory, own>>

\* Mutant: the spinner looks at the shared sense once and goes on.
Spin_Once(p) ==
    /\ pc[p] = "spin"
    /\ SemPost(p)
    /\ Goto(p, "return")
    /\ UNCHANGED <<names, created, memory, own>>

\* Mutant: the spinner waits for the sense it started from.
Spin_Inverted(p) ==
    /\ pc[p] = "spin"
    /\ SemPost(p)
    /\ Goto(p, IF shared_sense_[shm_data_[p]] = sense_[p] THEN "spin_wait" ELSE "return")
    /\ UNCHANGED <<names, created, memory, own>>

Spin(p) ==
    /\ pc[p] = "spin"
    /\ SemPost(p)
    /\ Goto(p, IF shared_sense_[shm_data_[p]] # sense_[p] THEN "spin_wait" ELSE "return")
    /\ UNCHANGED <<names, created, memory, own>>

\* Mutant: the local sense is not reversed.
Return_KeepSense(p) ==
    /\ pc[p] = "return"
    /\ rounds' = [rounds EXCEPT ![p] = @ + 1]
    /\ Goto(p, "ready")
    /\ UNCHANGED <<shared, shm_sem_, shm_data_, sense_, reg>>

Return(p) ==
    /\ pc[p] = "return"
    /\ sense_' = [sense_ EXCEPT ![p] = ~@]
    /\ rounds' = [rounds EXCEPT ![p] = @ + 1]
    /\ Goto(p, "ready")
    /\ UNCHANGED <<shared, shm_sem_, shm_data_, reg>>
-----------------------------------------------------------------------------
\* The destructor, once the Wait loop is done.

LeaveAcquire(p) ==
    /\ pc[p] = "ready"
    /\ rounds[p] = Waits
    /\ SemWait(p)
    /\ Goto(p, "leave_load")
    /\ UNCHANGED <<names, created, memory, own>>

LeaveLoad(p) ==
    /\ pc[p] = "leave_load"
    /\ reg' = [reg EXCEPT ![p] = n_users_[shm_data_[p]]]
    /\ Goto(p, "leave_store")
    /\ UNCHANGED <<shared, shm_sem_, shm_data_, sense_, rounds>>

\* Users remain: this process has only its own handles to close, and the lock
\* is free while it does, so the last user may unlink both names meanwhile.
LeaveStore(p) ==
    /\ pc[p] = "leave_store"
    /\ reg[p] # 1
    /\ n_users_' = [n_users_ EXCEPT ![shm_data_[p]] = reg[p] - 1]
    /\ SemPost(p)
    /\ Goto(p, "sem_close")
    /\ UNCHANGED <<names, created, count_, shared_sense_, own>>

SemClose(p) ==
    /\ pc[p] = "sem_close"
    /\ shm_sem_' = [shm_sem_ EXCEPT ![p] = None]
    /\ Goto(p, "munmap")
    /\ UNCHANGED <<shared, shm_data_, sense_, reg, rounds>>

Unmap(p) ==
    /\ pc[p] = "munmap"
    /\ shm_data_' = [shm_data_ EXCEPT ![p] = None]
    /\ Goto(p, "gone")
    /\ UNCHANGED <<shared, shm_sem_, sense_, reg, rounds>>

\* Mutant: the last but one user takes itself for the last.
LeaveLast_Early(p) ==
    /\ pc[p] = "leave_store"
    /\ reg[p] <= 2
    /\ n_users_' = [n_users_ EXCEPT ![shm_data_[p]] = reg[p] - 1]
    /\ SemPost(p)
    /\ Goto(p, "sem_unlink")
    /\ UNCHANGED <<names, created, count_, shared_sense_, own>>

\* remaining_users == 1: this process will also unlink both names.
LeaveLast(p) ==
    /\ pc[p] = "leave_store"
    /\ reg[p] = 1
    /\ n_users_' = [n_users_ EXCEPT ![shm_data_[p]] = 0]
    /\ SemPost(p)
    /\ Goto(p, "sem_unlink")
    /\ UNCHANGED <<names, created, count_, shared_sense_, own>>

\* The unlinks remove whatever the names are bound to now, outside the lock.
SemUnlink(p) ==
    /\ pc[p] = "sem_unlink"
    /\ shm_sem_' = [shm_sem_ EXCEPT ![p] = None]
    /\ sem_name' = None
    /\ Goto(p, "shm_unlink")
    /\ UNCHANGED <<shm_name, created, value, memory, shm_data_, sense_, reg, rounds>>

ShmUnlink(p) ==
    /\ pc[p] = "shm_unlink"
    /\ shm_data_' = [shm_data_ EXCEPT ![p] = None]
    /\ shm_name' = None
    /\ Goto(p, "gone")
    /\ UNCHANGED <<sem_name, created, value, memory, shm_sem_, sense_, reg, rounds>>
-----------------------------------------------------------------------------
Construct(p) == \/ SemOpen(p) \/ InitAcquire(p) \/ ShmCreate(p) \/ ShmInit(p)
                \/ ShmOpen(p) \/ JoinAcquire(p) \/ JoinLoad(p) \/ JoinStore(p)
                \/ PollAcquire(p) \/ Poll(p)

Wait(p) == \/ ArriveAcquire(p) \/ ArriveLoad(p) \/ ArriveStore(p)
           \/ ArriveLast(p) \/ SpinAcquire(p) \/ Spin(p) \/ Return(p)

Destroy(p) == \/ LeaveAcquire(p) \/ LeaveLoad(p) \/ LeaveStore(p)
              \/ SemClose(p) \/ Unmap(p)
              \/ LeaveLast(p) \/ SemUnlink(p) \/ ShmUnlink(p)

Step(p) == Construct(p) \/ Wait(p) \/ Destroy(p)

Done == /\ \A p \in Procs : pc[p] = "gone"
        /\ UNCHANGED vars

Next == (\E p \in Procs : Step(p)) \/ Done

Spec == Init /\ [][Next]_vars

(***************************************************************************)
(* Every process keeps being scheduled, and a process that finds the       *)
(* semaphore free again and again takes it in the end.  The second half is *)
(* strong fairness: the spinners free the semaphore between two turns, but *)
(* sem_wait keeps no queue, so weak fairness would let a spinner barge in  *)
(* for ever ahead of the user it waits for.                                *)
(***************************************************************************)
FairSpec == Spec /\ \A p \in Procs : SF_vars(Step(p))
-----------------------------------------------------------------------------
TypeOK == /\ sem_name \in Objects \cup {None}
          /\ shm_name \in Objects \cup {None}
          /\ created \subseteq Objects
          /\ value \in [Objects -> Nat]
          /\ count_ \in [Objects -> Int]
          /\ shared_sense_ \in [Objects -> BOOLEAN]
          /\ n_users_ \in [Objects -> Int]
          /\ shm_sem_ \in [Procs -> Objects \cup {None}]
          /\ shm_data_ \in [Procs -> Objects \cup {None}]
          /\ sense_ \in [Procs -> BOOLEAN]
          /\ reg \in [Procs -> Int]
          /\ rounds \in [Procs -> Nat]
          /\ pc \in [Procs -> Lines]

\* The processes n_users_ should count.
Users == {p \in Procs : pc[p] \in Polling \cup {"ready"} \cup InWait
                                    \cup {"leave_load", "leave_store"}}

\* The calls of Wait in which p has been counted.
Arrived(p) == IF pc[p] \in {"spin_wait", "spin", "return"} THEN rounds[p] + 1
                                                           ELSE rounds[p]

(***************************************************************************)
(* barrier.cc:29, "Critical section to ensure all processes hold           *)
(* initialized shared memory": all processes with a mapping map the same   *)
(* object, and while one still has to zero it no other is mapped.          *)
(***************************************************************************)
SameInitializedMemory ==
    \A p, q \in Procs :
        shm_data_[p] # None /\ shm_data_[q] # None =>
            /\ shm_data_[p] = shm_data_[q]
            /\ pc[p] = "shm_init" => p = q

(***************************************************************************)
(* Wait (barrier.cc:99-133): no call returns to p before every process has *)
(* made as many calls, also when fast processes are already in a later one *)
(***************************************************************************)
BarrierSafety == \A p, q \in Procs : rounds[p] <= Arrived(q)

(***************************************************************************)
(* The 64-bit counters never pass their ends once they are initialized:    *)
(* count_ is back at 0 before it could stay at n_, n_users_ is never       *)
(* decremented below 0 (barrier.cc:138), so uint64_t never wraps.          *)
(***************************************************************************)
CountersInRange ==
    \A p \in Procs :
        shm_data_[p] # None /\ pc[p] # "shm_init" =>
            /\ count_[shm_data_[p]] \in 0 .. N - 1
            /\ n_users_[shm_data_[p]] \in 0 .. N

(***************************************************************************)
(* No process gets into its destructor while another is still polling for  *)
(* all users to join (barrier.cc:84-92), so the poller never sees the count*)
(* drop again before it has seen it complete.                              *)
(***************************************************************************)
NoEarlyLeave == \A p, q \in Procs : pc[p] \in Leaving => pc[q] \notin Polling

(***************************************************************************)
(* Only the last user unlinks (barrier.cc:140), and outside the lock: by   *)
(* then every other process has been counted out at :138, and what is left *)
(* of its destructor, closing the handles it may still have open (159-164),*)
(* needs neither the names nor what is behind them.                        *)
(***************************************************************************)
LastUserUnlinks ==
    \A p, q \in Procs :
        pc[p] \in {"sem_unlink", "shm_unlink"} /\ q # p
            => pc[q] \in Closing \cup {"gone"}

\* p is in one of the two busy-wait loops and would find again what it has found.
LooksAgain(p) ==
    \/ pc[p] \in Polling /\ n_users_[shm_data_[p]] < N
    \/ pc[p] \in {"spin_wait", "spin"} /\ shared_sense_[shm_data_[p]] # sense_[p]

(***************************************************************************)
(* Nobody waits in vain: unless all are through, the semaphore is taken    *)
(* only by a process that will post it, and somebody has more to do than   *)
(* to take it and look again at what does not change, be it n_users_ at    *)
(* barrier.cc:86 or shared_sense_ at :122.                                 *)
(***************************************************************************)
NoDeadlock ==
    /\ \A p \in Procs : shm_sem_[p] # None /\ value[shm_sem_[p]] = 0 =>
          \E q \in Procs : pc[q] \in Locked /\ shm_sem_[q] = shm_sem_[p]
    /\ (\E p \in Procs : pc[p] # "gone") =>
          \E p \in Procs : pc[p] \notin {"gone", "aborted"} /\ ~LooksAgain(p)

(***************************************************************************)
(* When all destructors are through, neither name is left in the system    *)
(* (barrier.cc:140-153), and no construction failed.                       *)
(***************************************************************************)
CleanedUp == /\ \A p \in Procs : pc[p] # "aborted"
             /\ (\A p \in Procs : pc[p] = "gone")
                    => sem_name = None /\ shm_name = None

(***************************************************************************)
(* The barrier implements the abstract one: being counted is the arrival,  *)
(* the return from Wait is the pass, everything else is a stutter.         *)
(***************************************************************************)
Abs == INSTANCE AbstractBarrier
         WITH arrived <- [p \in Procs |-> Arrived(p)], passed <- rounds
ImplementsBarrier == Abs!Spec

(***************************************************************************)
(* The same with the promise that a released process does return.          *)
(***************************************************************************)
ImplementsFairBarrier == Abs!FairSpec

(***************************************************************************)
(* barrier.cc:82 and :95, "Waiting for all users to join" and "All users   *)
(* have joined the barrier [...]. Proceeding": once all have joined, every *)
(* one of them gets past the poll loop.                                    *)
(***************************************************************************)
AllJoinedProceed == (\A p \in Procs : pc[p] \notin Entering \cup Joining)
                        ~> (\A p \in Procs : pc[p] \notin Polling)

(***************************************************************************)
(* Every process gets through its constructor, its calls of Wait and its   *)
(* destructor.                                                             *)
(***************************************************************************)
Termination == <>(\A p \in Procs : pc[p] = "gone")
-----------------------------------------------------------------------------
(***************************************************************************)
(* The inductive invariant behind the safety properties, for one barrier   *)
(* that every process of Procs uses once (N = Cardinality(Procs)) and waits*)
(* at (Waits > 0).                                                         *)
(***************************************************************************)
Closed   == {"start", "munmap", "shm_unlink", "gone"}          \* semaphore
Unmapped == {"start", "init_wait", "shm_create", "shm_open", "gone"}
Past     == {"ready"} \cup InWait \cup Leaving

\* Every open handle is to the object its name is bound to, if it is still bound.
HandleInv ==
    \A p \in Procs :
        /\ pc[p] # "aborted"
        /\ pc[p] \in Closed => shm_sem_[p] = None
        /\ pc[p] \in Unmapped => shm_data_[p] = None
        /\ pc[p] \notin Closed => shm_sem_[p] # None /\ sem_name \in {None, shm_sem_[p]}
        /\ pc[p] \notin Unmapped => shm_data_[p] # None /\ shm_name \in {None, shm_data_[p]}
        /\ pc[p] \notin Closed \cup Closing => sem_name # None
        /\ pc[p] \notin (Unmapped \ {"shm_open"}) \cup Closing => shm_name # None
        /\ pc[p] = "shm_init" => \A q \in Procs \ {p} : pc[q] \in {"start", "init_wait"}

\* What the processes still closing their handles have open once the last user has
\* unlinked it: one free semaphore, and one memory that counts nobody.
ClosingInv ==
    /\ \A p, q \in Procs : pc[p] = "sem_close" /\ pc[q] = "sem_close"
                                 => shm_sem_[p] = shm_sem_[q]
    /\ \A p, q \in Procs : pc[p] \in Closing /\ pc[q] \in Closing
                                 => shm_data_[p] = shm_data_[q]
    /\ \A p \in Procs : pc[p] = "sem_close" /\ sem_name = None => value[shm_sem_[p]] = 1
    /\ \A p \in Procs : pc[p] \in Closing /\ shm_name = None =>
                            count_[shm_data_[p]] = 0 /\ n_users_[shm_data_[p]] = 0

\* The semaphore is the lock: 0 while one process is between wait and post.
LockInv ==
    /\ \A p, q \in Procs : pc[p] \in Locked /\ pc[q] \in Locked => p = q
    /\ sem_name # None =>
          value[sem_name] = IF \E p \in Procs : pc[p] \in Locked THEN 0 ELSE 1

Initialized == shm_name # None /\ \A p \in Procs : pc[p] # "shm_init"

\* What a process loaded is still in memory when it stores.
LoadInv ==
    \A p \in Procs :
        /\ pc[p] \in {"join_store", "leave_store"} => reg[p] = n_users_[shm_data_[p]]
        /\ pc[p] = "arrive_store" => reg[p] = count_[shm_data_[p]]

\* n_users_ counts the users, and nobody is past the poll before all are.
UserInv ==
    /\ Initialized => n_users_[shm_name] = Cardinality(Users)
    /\ \A p, q \in Procs : pc[p] \in Past => pc[q] \notin Entering \cup Joining
    /\ \A p \in Procs : pc[p] \in Entering \cup Joining \cup Polling =>
                            rounds[p] = 0 /\ sense_[p] = TRUE

\* Who leaves has done all its rounds; the last one finds everybody counted out.
LeaveInv ==
    /\ \A p \in Procs : pc[p] \in InWait => rounds[p] < Waits
    /\ \A p \in Procs : pc[p] \in Leaving => rounds[p] = Waits
    /\ NoEarlyLeave
    /\ LastUserUnlinks
    /\ \A p \in Procs : pc[p] = "shm_unlink" => sem_name = None
    /\ (\A p \in Procs : pc[p] \in Closing \cup {"gone"})
            => sem_name = None /\ shm_name = None

\* All processes are in round R: counted in it, or on their way to it.
Spinners(R) == {p \in Procs : rounds[p] = R /\ pc[p] \in {"spin_wait", "spin"}}
RoundsOK(R) == \A p \in Procs :
                  /\ rounds[p] \in {R - 1, R}
                  /\ rounds[p] = R - 1 => pc[p] \in {"spin_wait", "spin", "return"}
                  /\ pc[p] = "return" => rounds[p] = R - 1
CountOK(R)  == /\ count_[shm_name] = Cardinality(Spinners(R))
               /\ count_[shm_name] < N
SenseOK(R)  == \A p \in Procs : /\ rounds[p] = R => shared_sense_[shm_name] # sense_[p]
                                /\ rounds[p] # R => shared_sense_[shm_name] = sense_[p]
InRound(R)  == RoundsOK(R) /\ (Initialized => CountOK(R) /\ SenseOK(R))

RoundInv == \E R \in 0 .. Waits : InRound(R)

IInv == TypeOK /\ HandleInv /\ ClosingInv /\ LockInv /\ LoadInv /\ UserInv /\ LeaveInv
            /\ RoundInv
=============================================================================
