---------------------------- MODULE SchedulerRun ----------------------------
(***************************************************************************)
(* One run of the program under test, as the scheduler drives it           *)
(* (next_state in next_state.cc, with State and ProgramState).             *)
(*                                                                         *)
(* The program under test is any multi-threaded program: after each of its *)
(* events a thread announces some next event that a correct pthread program *)
(* may announce (Legal, with the event sequences of the wrappers in        *)
(* inspect_pthread.cc).  The scheduler executes any enabled event that does *)
(* not sleep: which one it picks depends on the exploration strategy       *)
(* (modules SourceDPOR and later ones), what executing it does to the      *)
(* scheduler's picture of the program does not.  The exploration also      *)
(* decides which other enabled events were already explored from the same  *)
(* state: they fall asleep before the chosen one is executed.              *)
(***************************************************************************)
EXTENDS ProgramState, FiniteSets

CONSTANTS
  MaxThreads,         \* bound on the threads the program creates, main included
  Mutexes,            \* mutex ids of the program
  Conds,              \* condition variable ids
  Rwlocks,            \* read-write lock ids
  Objects,            \* ids of the shared objects that are read and written
  ChildJoinsCreator   \* whether a new thread may start by joining its creator

ASSUME ConstantsAssumption ==
  /\ MaxThreads \in Nat \ {0}
  /\ Mutexes \subseteq Nat \ {0}
  /\ Conds   \subseteq Nat \ {0}
  /\ Rwlocks \subseteq Nat \ {0}
  /\ Objects \subseteq Nat \ {0}
  /\ ChildJoinsCreator \in BOOLEAN

VARIABLES
  enabled,    \* ProgramState::enabled, the pending events that may be executed
  disabled,   \* ProgramState::disabled, the pending events that are blocked
  mutexes,    \* ProgramState::mutexes
  rwlocks,    \* ProgramState::rwlocks
  locksets,   \* State::locksets
  sleepset,   \* State::sleepset
  nthreads,   \* threads the program has created: ids 0 .. nthreads - 1
  aborted     \* an assertion of the scheduler failed

vars == <<enabled, disabled, mutexes, rwlocks, locksets, sleepset, nthreads,
          aborted>>

Threads == 0 .. MaxThreads - 1

RwStatus == {"ABSENT", "RWLS_IDLE", "RWLS_READING", "RWLS_WRITING"}

\* An operation on a mutex names a mutex, and so on.
Event ==
  {x \in [type : EventTypes, tid : Threads,
          obj : Mutexes \cup Rwlocks \cup Objects \cup {NoId},
          aux : Conds \cup Threads \cup {NoId}] :
     /\ x.type \in MutexTypes \cup {"COND_WAIT"} => x.obj \in Mutexes
     /\ x.type \in RwlockTypes => x.obj \in Rwlocks
     /\ x.type \in ObjectTypes => x.obj \in Objects}

\* SchedulerMutexIndex, SchedulerRwlockIndex and Locksets.
MutexIndex  == [Mutexes -> Threads \cup {Free, Absent}]
RwlockIndex == [Rwlocks -> [status : RwStatus, readers : SUBSET Threads,
                            writer : Threads \cup {NoId}]]
Locksets    == [Threads -> (SUBSET Mutexes) \cup {NoLockset}]

TypeOK ==
  /\ enabled  \subseteq Event
  /\ disabled \subseteq Event
  /\ mutexes  \in MutexIndex
  /\ rwlocks  \in RwlockIndex
  /\ locksets \in Locksets
  /\ sleepset \subseteq Event
  /\ nthreads \in 1 .. MaxThreads
  /\ aborted  \in BOOLEAN

----------------------------------------------------------------------------
(* The program under test.  "pending" are the events of the other threads, *)
(* "mu", "rw" and "n" the mutexes, read-write locks and number of threads  *)
(* at the moment the thread announces its next event.                      *)

UsesMutex(x, m)  == x.obj = m /\ x.type \in MutexTypes \cup {"COND_WAIT"}
UsesRwlock(x, l) == x.obj = l /\ x.type \in RwlockTypes

MutexEvents(t, pending, mu) ==
  {Ev("MUTEX_INIT", t, m, NoId) : m \in {k \in Mutexes :
      mu[k] = Absent /\ \A x \in pending : ~UsesMutex(x, k)}}
  \cup {Ev("MUTEX_DESTROY", t, m, NoId) : m \in {k \in Mutexes :
      mu[k] = Free /\ \A x \in pending : ~UsesMutex(x, k)}}
  \cup {Ev("MUTEX_LOCK", t, m, NoId) : m \in {k \in Mutexes :
      mu[k] # Absent /\ \A x \in pending : x.obj = k => x.type # "MUTEX_DESTROY"}}
  \cup {Ev("MUTEX_UNLOCK", t, m, NoId) : m \in {k \in Mutexes : mu[k] = t}}

RwlockEvents(t, pending, rw) ==
  LET usable == {k \in Rwlocks : /\ rw[k] # RwAbsent
                                 /\ rw[k].writer # t /\ t \notin rw[k].readers
                                 /\ \A x \in pending : x.obj = k
                                       => x.type # "RWLOCK_DESTROY"}
  IN  {Ev("RWLOCK_INIT", t, l, NoId) : l \in {k \in Rwlocks :
          rw[k] = RwAbsent /\ \A x \in pending : ~UsesRwlock(x, k)}}
      \cup {Ev("RWLOCK_DESTROY", t, l, NoId) : l \in {k \in Rwlocks :
          rw[k] = RwIdle /\ \A x \in pending : ~UsesRwlock(x, k)}}
      \cup {Ev(op, t, l, NoId) : op \in {"RWLOCK_RDLOCK", "RWLOCK_WRLOCK"},
                                 l \in usable}
      \cup {Ev("RWLOCK_UNLOCK", t, l, NoId) : l \in {k \in Rwlocks :
          rw[k].writer = t \/ t \in rw[k].readers}}

CondEvents(t) ==
  {Ev(op, t, NoId, c) : op \in {"COND_SIGNAL", "COND_BROADCAST"}, c \in Conds}

ObjectEvents(t) == {Ev(op, t, o, NoId) : op \in ObjectTypes, o \in Objects}

ThreadEvents(t, n) ==
  {Ev("THREAD_JOIN", t, NoId, c) : c \in (0 .. n - 1) \ {t}}
    \cup {Ev("THREAD_END", t, NoId, NoId)}
    \cup {Ev(op, t, NoId, NoId) :
            op \in IF n < MaxThreads THEN {"THREAD_PRE_CREATE"} ELSE {}}

\* What thread t may announce next, outside a pthread_cond_wait.
Legal(t, pending, mu, rw, n) ==
  MutexEvents(t, pending, mu) \cup RwlockEvents(t, pending, rw)
    \cup CondEvents(t) \cup ObjectEvents(t) \cup ThreadEvents(t, n)

\* inspect_cond_wait announces MUTEX_UNLOCK, COND_WAIT and MUTEX_LOCK in turn.
NextEvents(e, pending, mu, rw, n) ==
  IF e.type = "COND_WAIT" THEN {Ev("MUTEX_LOCK", e.tid, e.obj, NoId)}
  ELSE Legal(e.tid, pending, mu, rw, n)
         \cup {Ev("COND_WAIT", e.tid, e.obj, c) :
                 c \in IF e.type = "MUTEX_UNLOCK" THEN Conds ELSE {}}

\* The first event of the thread "child" created by "creator".
FirstEvents(child, creator, pending, mu, rw, n) ==
  {x \in Legal(child, pending, mu, rw, n) :
     x.type = "THREAD_JOIN" /\ x.aux = creator => ChildJoinsCreator}

----------------------------------------------------------------------------
(* next_state (next_state.cc).                                             *)

\* The pending events left once e has been executed.

After(e) == AfterExecuting([enabled |-> enabled, disabled |-> disabled], e)

\* The effects of executing e that do not depend on what its thread does
\* next; "explored" are the events already explored from the present state.
Execute(e, explored) ==
  /\ mutexes'  = ExecuteMutexes(mutexes, e)
  /\ rwlocks'  = ExecuteRwlocks(rwlocks, e)
  /\ sleepset' = UpdateSleepset(sleepset \cup explored, e)
  /\ UNCHANGED aborted

BecomePending(p) == enabled' = p.enabled /\ disabled' = p.disabled

CanExecute(e, explored) ==
  /\ ~aborted
  /\ e \in enabled \ sleepset
  /\ explored \subseteq (enabled \ sleepset) \ {e}
  /\ ExecuteAsserts(mutexes, rwlocks, locksets, e)

\* An ordinary event: its thread announces its next event.
ExecuteEvent(e, explored) ==
  /\ CanExecute(e, explored)
  /\ e.type \notin {"THREAD_END", "THREAD_PRE_CREATE"}
  /\ Execute(e, explored)
  /\ locksets' = ExecuteLocksets(locksets, e)
  /\ \E next \in NextEvents(e, PendingIn(After(e)), mutexes', rwlocks', nthreads) :
        /\ AddAsserts(mutexes', rwlocks', next)
        /\ BecomePending(AddTransition(After(e), mutexes', rwlocks', next))
  /\ UNCHANGED nthreads

\* THREAD_END: nothing follows.
ExecuteEnd(e, explored) ==
  /\ CanExecute(e, explored)
  /\ e.type = "THREAD_END"
  /\ Execute(e, explored)
  /\ locksets' = ExecuteLocksets(locksets, e)
  /\ BecomePending(After(e))
  /\ UNCHANGED nthreads

\* The start of a new thread, which next_state executes with the creation.
Start(child) == Ev("THREAD_START", child, NoId, NoId)

\* THREAD_PRE_CREATE: the program creates the thread, announces
\* THREAD_POST_CREATE and, in the new thread, THREAD_START, both approved at
\* once; then the new thread's first event is added, and after it the
\* creator's next one.
ExecuteCreate(e, explored) ==
  LET child == nthreads IN
  /\ CanExecute(e, explored)
  /\ e.type = "THREAD_PRE_CREATE"
  /\ nthreads < MaxThreads
  /\ ExecuteAsserts(mutexes, rwlocks, locksets, Start(child))
  /\ Execute(e, explored)
  /\ locksets' = ExecuteLocksets(locksets, Start(child))
  /\ nthreads' = nthreads + 1
  /\ \E first \in FirstEvents(child, e.tid, PendingIn(After(e)), mutexes', rwlocks',
                              nthreads') :
       LET p == AddTransition(After(e), mutexes', rwlocks', first)
       IN  /\ AddAsserts(mutexes', rwlocks', first)
           /\ \E next \in NextEvents(e, PendingIn(p), mutexes', rwlocks', nthreads') :
                /\ AddAsserts(mutexes', rwlocks', next)
                /\ BecomePending(AddTransition(p, mutexes', rwlocks', next))

\* The events of P that may be added when e, which creates no thread, has been
\* executed, or with the start of the thread it creates.
MayBeAdded(e) ==
  LET P  == PendingIn(After(e))
      mu == ExecuteMutexes(mutexes, e)
      rw == ExecuteRwlocks(rwlocks, e)
      firsts == FirstEvents(nthreads, e.tid, P, mu, rw, nthreads + 1)
  IN  CASE e.type = "THREAD_END" -> {}
        [] e.type = "THREAD_PRE_CREATE" ->
             firsts \cup UNION {NextEvents(e, P \cup {first}, mu, rw, nthreads + 1) :
                                  first \in firsts}
        [] OTHER -> NextEvents(e, P, mu, rw, nthreads)

\* An assertion may fail when e is executed: in execute_transition or the lock
\* sets, for e or the start of a thread it creates, or in add_transition.
MayFail(e) ==
  \/ ~ExecuteAsserts(mutexes, rwlocks, locksets, e)
  \/ /\ e.type = "THREAD_PRE_CREATE" => nthreads < MaxThreads
     /\ \/ e.type = "THREAD_PRE_CREATE"
             /\ ~ExecuteAsserts(mutexes, rwlocks, locksets, Start(nthreads))
        \/ \E x \in MayBeAdded(e) :
             ~AddAsserts(ExecuteMutexes(mutexes, e), ExecuteRwlocks(rwlocks, e), x)

\* An assertion fails.
Abort(e) ==
  /\ ~aborted
  /\ e \in enabled \ sleepset
  /\ MayFail(e)
  /\ aborted' = TRUE
  /\ UNCHANGED <<enabled, disabled, mutexes, rwlocks, locksets, sleepset, nthreads>>

Init ==
  /\ enabled  = {Start(0)}
  /\ disabled = {}
  /\ mutexes  = [m \in Mutexes |-> Absent]
  /\ rwlocks  = [l \in Rwlocks |-> RwAbsent]
  /\ locksets = [t \in Threads |-> NoLockset]
  /\ sleepset = {}
  /\ nthreads = 1
  /\ aborted  = FALSE

Next ==
  \E e \in enabled :
     \/ \E explored \in SUBSET (enabled \ {e}) :
           \/ ExecuteEvent(e, explored)
           \/ ExecuteEnd(e, explored)
           \/ ExecuteCreate(e, explored)
     \/ Abort(e)

Spec == Init /\ [][Next]_vars

----------------------------------------------------------------------------
(* Properties.                                                             *)

Pending == enabled \cup disabled

\* No two pending events belong to one thread, and no pending event is at
\* once enabled and disabled: the asserts of update_enabled_set,
\* update_disabled_set (program_state.cc:123,146,147) rest on it, and a
\* second event of a thread would silently overwrite the first in a
\* TransitionSet.
OnePending ==
  /\ enabled \cap disabled = {}
  /\ \A x, y \in Pending : x.tid = y.tid => x = y

\* A pending mutex acquisition is enabled exactly when the mutex is free,
\* although the sets are only maintained incrementally, by can_disable,
\* can_enable and the test in add_transition.
LockEnabledExactly ==
  \A x \in Pending :
    x.type = "MUTEX_LOCK" => (x \in enabled <=> mutexes[x.obj] = Free)

\* A pending join is enabled exactly when the joined thread has no event
\* left to execute, whatever the order in which the creator's and the new
\* thread's events are added after a creation (next_state.cc:149,170).
JoinEnabledExactly ==
  \A x \in Pending :
    x.type = "THREAD_JOIN" => (x \in enabled <=> ~Alive(Pending, x.aux))

\* The lock set of a running thread holds exactly the mutexes it owns: the
\* race filter is_mutex_exclusive_locksets (scheduler.cc:725) reads lock
\* sets, execute_transition maintains owners, in two different places.
LocksetsAgree ==
  \A t \in Threads :
    locksets[t] # NoLockset => locksets[t] = {m \in Mutexes : mutexes[m] = t}

\* What the scheduler knows: s.p is the pair of enabled and disabled events.
Picture == [p        |-> [enabled |-> enabled, disabled |-> disabled],
            mutexes  |-> mutexes,
            locksets |-> locksets]

\* The picture s once e has been executed and next has been announced.
Executed(s, e, next) ==
  LET mu == ExecuteMutexes(s.mutexes, e)
      p  == AfterExecuting(s.p, e)
  IN  [p        |-> IF e.type = "THREAD_END" THEN p ELSE AddTransition(p, mu, rwlocks, next),
       mutexes  |-> mu,
       locksets |-> ExecuteLocksets(s.locksets, e)]

\* Whatever may follow e; of the end of a thread, nothing.
Followers(e) == IF e.type = "THREAD_END" THEN {e} ELSE MayBeAdded(e)

\* The events the next property is about: read-write locks are woken without
\* a look at the lock, so that their order matters although dependent says it
\* does not (WriterFindsLockIdle), and new threads are numbered in order.
Reorderable == {e \in enabled : e.type \notin RwlockTypes \cup {"THREAD_PRE_CREATE"}}

\* e signals the condition that the thread of another event waits for next.
Signals(e, next) ==
  /\ e.type \in {"COND_SIGNAL", "COND_BROADCAST"}
  /\ next.type = "COND_WAIT" /\ next.aux = e.aux

\* Two enabled events that dependent (inspect_event.cc:480) calls independent
\* may be executed in either order: neither blocks the other, and whatever
\* their threads announce next, the same events are enabled and blocked
\* afterwards, the same mutexes owned and the same lock sets kept.  This is
\* what an exploration that tries only one of the two orders relies on.  It
\* fails for a signal and the event before a wait for it, which dependent
\* calls independent although the signal comes too early in one order.
IndependentCommute ==
  \A x, y \in Reorderable :
    x.tid < y.tid /\ ~Dependent(x, y) =>
      /\ y \in After(x).enabled /\ x \in After(y).enabled
      /\ \A f \in Followers(x), g \in Followers(y) :
           \/ Signals(x, g) \/ Signals(y, f)
           \/ Executed(Executed(Picture, x, f), y, g)
                = Executed(Executed(Picture, y, g), x, f)

\* A sleeping event is pending and enabled: nothing that blocks a sleeping
\* event leaves it asleep.
SleepsetEnabled == sleepset \subseteq enabled

\* When nothing executable is left, the scheduler's deadlock test
\* "disabled is not empty and sleepset is empty" (scheduler.cc:928) answers
\* yes exactly when every remaining thread is blocked.
DeadlockTestExact ==
  enabled \subseteq sleepset /\ disabled # {}
     => (sleepset = {} <=> enabled = {})

\* No assertion of the mutex, read-write lock and lock set tables fails.
NoAbort == ~aborted

\* No wake-up is lost: while a writer is blocked on a lock, the lock is held
\* or another acquisition of it is enabled.
WriterNotForgotten ==
  \A x \in disabled :
    x.type = "RWLOCK_WRLOCK" /\ rwlocks[x.obj].status = "RWLS_IDLE"
      => \E y \in enabled : /\ y.obj = x.obj
                            /\ y.type \in {"RWLOCK_RDLOCK", "RWLOCK_WRLOCK"}

\* The assertion of SchedulerRwlock::writer_acquire
\* (scheduler_object_table.cc:333): a write acquisition that may be executed
\* finds the lock idle.
WriterFindsLockIdle ==
  \A x \in enabled :
    x.type = "RWLOCK_WRLOCK" => rwlocks[x.obj].status = "RWLS_IDLE"
=============================================================================
