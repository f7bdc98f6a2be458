---------------------------- MODULE BarrierReuse ----------------------------
(***************************************************************************)
(* Successive programs, or successive measurements of one program, that use*)
(* a SenseReversingBarrier on the same id.  In each run a parent forks one *)
(* child, both construct the barrier, call Wait and destroy it; what tells *)
(* the harnesses apart is when the parent waits for the child:             *)
(*   "latency"      barrier_latency.cc:41-98, waitpid before the parent's  *)
(*                  own destructor, ClearResource after every run;         *)
(*   "wait"         barrier_test.cc:76-109 (and the bandwidth benchmarks), *)
(*                  waitpid after the parent's destructor;                 *)
(*   "constructor"  barrier_test.cc:24-39, no waitpid is reached.          *)
(* Before the first run the names may be left over from a killed program.  *)
(***************************************************************************)
EXTENDS Integers, FiniteSets

CONSTANTS Runs,        \* number of successive runs, per harness
          Waits,       \* calls of Wait per process and run
          Objects, None,
          Harnesses    \* of the three above, those to consider

ASSUME ReuseAssumption ==
    /\ Harnesses \subseteq {"latency", "wait", "constructor"}
    /\ Runs \in [Harnesses -> Nat \ {0}]
    /\ Waits \in Nat \ {0}
    /\ Cardinality(Objects) > 1
    /\ None \notin Objects

MaxRuns == CHOOSE m \in {Runs[h] : h \in Harnesses} : \A h \in Harnesses : Runs[h] <= m

Procs == (1 .. MaxRuns) \X {"parent", "child"}

VARIABLES sem_name, shm_name, created, value, count_, shared_sense_, n_users_,
          shm_sem_, shm_data_, sense_, reg, rounds, pc,
          run,         \* the run the main program is in
          main,        \* what it does in this run
          harness      \* the harness whose runs these are

B == INSTANCE SenseReversingBarrier WITH N <- 2

barrier == <<sem_name, shm_name, created, value, count_, shared_sense_, n_users_,
             shm_sem_, shm_data_, sense_, reg, rounds, pc>>
vars == <<barrier, run, main, harness>>

\* Objects a SIGKILL left behind, inside the critical section of Wait.
InitStale == LET s == CHOOSE o \in Objects : TRUE
                 m == CHOOSE o \in Objects : o # s
             IN
    /\ sem_name = s
    /\ shm_name = m
    /\ created = {s, m}
    /\ value = [o \in Objects |-> 0]
    /\ count_ = [o \in Objects |-> IF o = m THEN 1 ELSE 0]
    /\ shared_sense_ = [o \in Objects |-> o = m]
    /\ n_users_ = [o \in Objects |-> IF o = m THEN 1 ELSE 0]
    /\ shm_sem_ = [p \in Procs |-> None]
    /\ shm_data_ = [p \in Procs |-> None]
    /\ sense_ = [p \in Procs |-> TRUE]
    /\ reg = [p \in Procs |-> 0]
    /\ rounds = [p \in Procs |-> 0]
    /\ pc = [p \in Procs |-> "start"]

Init == /\ B!Init \/ InitStale
        /\ run = 1
        /\ main = "clear_sem"
        /\ harness \in Harnesses

\* Mutant: a left-over semaphore keeps its name.
ClearSem_Kept == main = "clear_sem" /\ main' = "clear_shm" /\ UNCHANGED <<barrier, run, harness>>

\* Mutant: the semaphore is destroyed and not only unlinked.
ClearSem_Destroys ==
    /\ main = "clear_sem"
    /\ sem_name' = None
    /\ value' = [o \in Objects |-> 0]
    /\ main' = "clear_shm"
    /\ UNCHANGED <<shm_name, created, count_, shared_sense_, n_users_,
                   shm_sem_, shm_data_, sense_, reg, rounds, pc, run, harness>>

\* ClearResource: sem_unlink and shm_unlink; no object has the name init_sem_id.
ClearSem ==
    /\ main = "clear_sem"
    /\ sem_name' = None
    /\ main' = "clear_shm"
    /\ UNCHANGED <<shm_name, created, value, count_, shared_sense_,
                   n_users_, shm_sem_, shm_data_, sense_, reg, rounds, pc, run, harness>>

\* Mutant: a left-over memory keeps its name.
ClearShm_Kept == main = "clear_shm" /\ main' = "fork" /\ UNCHANGED <<barrier, run, harness>>

ClearShm ==
    /\ main = "clear_shm"
    /\ shm_name' = None
    /\ main' = "fork"
    /\ UNCHANGED <<sem_name, created, value, count_, shared_sense_,
                   n_users_, shm_sem_, shm_data_, sense_, reg, rounds, pc, run, harness>>

Fork == /\ main = "fork"
        /\ main' = "running"
        /\ UNCHANGED <<barrier, run, harness>>

\* waitpid(child) has returned: the child's barrier is destroyed and it exited.
Reaped(r) == pc[<<r, "child">>] \in {"gone", "aborted"}

\* Mutant: the parent destroys its barrier without waiting for the child.
MayLeave_Any(p) == TRUE

MayLeave(p) == harness = "latency" /\ p[2] = "parent" => Reaped(p[1])

Process(p) ==
    /\ p[1] < run \/ (p[1] = run /\ main \in {"running", "done"})
    /\ \/ B!Construct(p)
       \/ B!Wait(p)
       \/ MayLeave(p) /\ B!Destroy(p)
    /\ UNCHANGED <<run, main, harness>>

\* Mutant: no waitpid before the next run.
NextRun_NoWait ==
    /\ main = "running"
    /\ pc[<<run, "parent">>] = "gone"
    /\ IF run < Runs[harness] THEN run' = run + 1 /\ main' = "clear_sem"
                     ELSE run' = run /\ main' = "done"
    /\ UNCHANGED <<barrier, harness>>

\* The parent's part of this run is over, and the next run begins.
NextRun ==
    /\ main = "running"
    /\ pc[<<run, "parent">>] = "gone"
    /\ harness = "wait" => Reaped(run)
    /\ IF run < Runs[harness] THEN run' = run + 1 /\ main' = "clear_sem"
                     ELSE run' = run /\ main' = "done"
    /\ UNCHANGED <<barrier, harness>>

\* All is over; or a process aborted in a critical section, and the semaphore
\* it holds keeps the others where they are.
Done == /\ \/ /\ main = "done"
              /\ \A p \in Procs : p[1] <= run => pc[p] \in {"gone", "aborted"}
           \/ \E p \in Procs : pc[p] = "aborted"
        /\ UNCHANGED vars

Next == \/ ClearSem \/ ClearShm \/ Fork \/ NextRun \/ Done
        \/ \E p \in Procs : Process(p)

Spec == Init /\ [][Next]_vars

\* As in SenseReversingBarrier; the main program is scheduled like the others.
FairSpec == /\ Spec
            /\ WF_vars(ClearSem \/ ClearShm \/ Fork \/ NextRun)
            /\ \A p \in Procs : SF_vars(Process(p))
-----------------------------------------------------------------------------
(***************************************************************************)
(* barrier.cc:29, "Critical section to ensure all processes hold           *)
(* initialized shared memory": the two processes of a run wait on the same *)
(* semaphore and map the same, initialised memory, whatever earlier runs   *)
(* left behind or still do.                                                *)
(***************************************************************************)
SameObjects ==
    \A r \in 1 .. run :
        LET parent == <<r, "parent">>  child == <<r, "child">> IN
        /\ shm_sem_[parent] # None /\ shm_sem_[child] # None =>
              shm_sem_[parent] = shm_sem_[child]
        /\ shm_data_[parent] # None /\ shm_data_[child] # None =>
              shm_data_[parent] = shm_data_[child]

\* The same for the harnesses that do reach their waitpid: barrier_latency.cc:70,
\* barrier_test.cc:98 and the bandwidth benchmarks.
WaitpidKeepsObjects == harness # "constructor" => SameObjects

(***************************************************************************)
(* The barrier separates the rounds of every run, though it is reused on   *)
(* the same names, and even if a straggler of an earlier run unlinks them. *)
(***************************************************************************)
RunsAreSafe == \A r \in 1 .. run, a, b \in {"parent", "child"} :
                   rounds[<<r, a>>] <= B!Arrived(<<r, b>>)

(***************************************************************************)
(* When waitpid is reached, a run never meets the processes of an earlier  *)
(* one: what a destructor does to the names never hits a later run.        *)
(***************************************************************************)
NoStraggler == harness # "constructor" => \A p, q \in Procs :
    p[1] < q[1] /\ pc[q] # "start" => pc[p] \in {"start", "gone", "aborted"}

(***************************************************************************)
(* A process whose peer has left the run still finishes it: neither the    *)
(* ClearResource nor the constructors of a later run disturb a straggler.  *)
(***************************************************************************)
StragglersFinish ==
    []<>(\A r \in 1 .. MaxRuns :
             pc[<<r, "parent">>] = "gone" => pc[<<r, "child">>] = "gone")

(***************************************************************************)
(* With waitpid every run comes to its end, also the first one after a     *)
(* killed program (without it a run can abort: SameObjects is violated).   *)
(***************************************************************************)
AllRunsEnd == <>(harness = "constructor" \/ main = "done")
=============================================================================
