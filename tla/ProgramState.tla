---------------------------- MODULE ProgramState ----------------------------
(***************************************************************************)
(* The operations of ProgramState, Locksets, SchedulerMutexIndex and       *)
(* SchedulerRwlockIndex (program_state.cc, lockset.cc,                     *)
(* scheduler_object_table.cc) as operators on the values those objects     *)
(* hold:                                                                   *)
(*                                                                         *)
(*   enabled, disabled  sets of pending events, at most one per thread     *)
(*   mutexes            mutex id  -> owner, or Free, or Absent             *)
(*   rwlocks            rwlock id -> [status, readers, writer]             *)
(*   locksets           thread    -> mutexes it holds, or NoLockset        *)
(*                                                                         *)
(* A C++ assert is a conjunct of ExecuteAsserts or of AddAsserts.          *)
(***************************************************************************)
EXTENDS InspectEvent

Free   == -1      \* SchedulerMutex::owner of an unlocked mutex
Absent == -2      \* no entry in the index: not initialised, or destroyed

NoLockset == {NoId}     \* get_lockset returns NULL

RwAbsent == [status |-> "ABSENT",    readers |-> {}, writer |-> NoId]
RwIdle   == [status |-> "RWLS_IDLE", readers |-> {}, writer |-> NoId]

----------------------------------------------------------------------------
(* Sets of transitions (transition_set.cc): a map from thread to event.    *)

EventsOf(S, tid) == {x \in S : x.tid = tid}

Insert(S, e) == (S \ EventsOf(S, e.tid)) \cup {e}

\* get_transition(): the first entry of the hash map, the lowest thread id.
First(S) == CHOOSE x \in S : \A y \in S : x.tid <= y.tid

----------------------------------------------------------------------------
(* Executing an event: ProgramState::execute_transition, State::execute.   *)

ExecuteMutexes(mutexes, e) ==
  CASE e.type = "MUTEX_INIT" /\ mutexes[e.obj] = Absent
                                -> [mutexes EXCEPT ![e.obj] = Free]
    [] e.type = "MUTEX_DESTROY" -> [mutexes EXCEPT ![e.obj] = Absent]
    [] e.type = "MUTEX_LOCK"    -> [mutexes EXCEPT ![e.obj] = e.tid]
    [] e.type = "MUTEX_UNLOCK"  -> [mutexes EXCEPT ![e.obj] = Free]
    [] OTHER                    -> mutexes

ReaderAcquire(rw, tid) ==
  [rw EXCEPT !.status = "RWLS_READING", !.readers = rw.readers \cup {tid}]

WriterAcquire(rw, tid) ==
  [rw EXCEPT !.status = "RWLS_WRITING", !.writer = tid]

ReleaseRwlock(rw, tid) ==
  IF rw.writer = tid THEN RwIdle
  ELSE [rw EXCEPT !.readers = rw.readers \ {tid},
                  !.status  = IF rw.readers \ {tid} = {} THEN "RWLS_IDLE"
                                                         ELSE rw.status]

ExecuteRwlocks(rwlocks, e) ==
  CASE e.type = "RWLOCK_INIT" /\ rwlocks[e.obj] = RwAbsent
         -> [rwlocks EXCEPT ![e.obj] = RwIdle]
    [] e.type = "RWLOCK_DESTROY" -> [rwlocks EXCEPT ![e.obj] = RwAbsent]
    [] e.type = "RWLOCK_RDLOCK"
         -> [rwlocks EXCEPT ![e.obj] = ReaderAcquire(@, e.tid)]
    [] e.type = "RWLOCK_WRLOCK"
         -> [rwlocks EXCEPT ![e.obj] = WriterAcquire(@, e.tid)]
    [] e.type = "RWLOCK_UNLOCK"
         -> [rwlocks EXCEPT ![e.obj] = ReleaseRwlock(@, e.tid)]
    [] OTHER -> rwlocks

\* Mutant: the arguments of Locksets::acquire are swapped.
ExecuteLocksetsSwapped(locksets, e) ==
  CASE e.type = "THREAD_START" -> [locksets EXCEPT ![e.tid] = {}]
    [] e.type = "THREAD_END"   -> [locksets EXCEPT ![e.tid] = NoLockset]
    [] e.type = "MUTEX_LOCK"   -> [locksets EXCEPT ![e.tid] = @ \cup {e.tid}]
    [] e.type = "MUTEX_UNLOCK" -> [locksets EXCEPT ![e.tid] = @ \ {e.obj}]
    [] OTHER                   -> locksets

\* Mutant: an unlock leaves the mutex in the lock set.
ExecuteLocksetsNoRelease(locksets, e) ==
  CASE e.type = "THREAD_START" -> [locksets EXCEPT ![e.tid] = {}]
    [] e.type = "THREAD_END"   -> [locksets EXCEPT ![e.tid] = NoLockset]
    [] e.type = "MUTEX_LOCK"   -> [locksets EXCEPT ![e.tid] = @ \cup {e.obj}]
    [] OTHER                   -> locksets

ExecuteLocksets(locksets, e) ==
  CASE e.type = "THREAD_START" -> [locksets EXCEPT ![e.tid] = {}]
    [] e.type = "THREAD_END"   -> [locksets EXCEPT ![e.tid] = NoLockset]
    [] e.type = "MUTEX_LOCK"   -> [locksets EXCEPT ![e.tid] = @ \cup {e.obj}]
    [] e.type = "MUTEX_UNLOCK" -> [locksets EXCEPT ![e.tid] = @ \ {e.obj}]
    [] OTHER                   -> locksets

\* Mutant: the assertions are compiled out.
RwlockAssertsOff(rwlocks, e) == TRUE

RwlockAsserts(rwlocks, e) ==
  CASE e.type = "RWLOCK_RDLOCK"
         -> rwlocks[e.obj].status \in {"RWLS_IDLE", "RWLS_READING"}
    [] e.type = "RWLOCK_WRLOCK" -> rwlocks[e.obj] = RwIdle
    [] e.type = "RWLOCK_UNLOCK"
         -> IF rwlocks[e.obj].writer = e.tid
            THEN /\ rwlocks[e.obj].status  = "RWLS_WRITING"
                 /\ rwlocks[e.obj].readers = {}
            ELSE /\ rwlocks[e.obj].status  = "RWLS_READING"
                 /\ e.tid \in rwlocks[e.obj].readers
    [] e.type = "RWLOCK_DESTROY" -> rwlocks[e.obj] # RwAbsent
    [] OTHER -> TRUE

MutexAsserts(mutexes, locksets, e) ==
  CASE e.type = "MUTEX_DESTROY" -> mutexes[e.obj] # Absent
    [] e.type = "MUTEX_LOCK"    -> /\ mutexes[e.obj] = Free
                                   /\ locksets[e.tid] # NoLockset
                                   /\ e.obj \notin locksets[e.tid]
    [] e.type = "MUTEX_UNLOCK"  -> /\ mutexes[e.obj] # Absent
                                   /\ e.obj \in locksets[e.tid]
    [] e.type = "THREAD_START"  -> locksets[e.tid] = NoLockset
    [] OTHER                    -> TRUE

ExecuteAsserts(mutexes, rwlocks, locksets, e) ==
  RwlockAsserts(rwlocks, e) /\ MutexAsserts(mutexes, locksets, e)

----------------------------------------------------------------------------
(* The incremental maintenance of the enabled and disabled sets.           *)

\* Mutant: update_enabled_set is not called.
ToBeDisabledNever(enabled, e) == {}

\* update_enabled_set: the enabled events that executing e blocks.
ToBeDisabled(enabled, e) == {x \in enabled : CanDisable(e, x)}

\* Mutant: a signal wakes all waiters.
WokenWaitersAll(disabled, e) ==
  {x \in disabled : /\ x.type = "COND_WAIT" /\ x.aux = e.aux
                    /\ e.type \in {"COND_SIGNAL", "COND_BROADCAST"}}

\* update_disabled_set, COND_SIGNAL and COND_BROADCAST: a signal wakes the
\* waiter with the lowest thread id, a broadcast wakes all of them.
WokenWaiters(disabled, e) ==
  LET waiters == {x \in disabled : x.type = "COND_WAIT" /\ x.aux = e.aux}
  IN  {x \in waiters : \/ e.type = "COND_BROADCAST"
                       \/ /\ e.type = "COND_SIGNAL"
                          /\ \A y \in waiters : x.tid <= y.tid}

\* Mutant: an unlock wakes readers only.
WokenLockersNoWriter(disabled, e) ==
  {x \in disabled : /\ e.type = "RWLOCK_UNLOCK"
                    /\ x.type = "RWLOCK_RDLOCK" /\ x.obj = e.obj}

\* update_disabled_set, RWLOCK_UNLOCK: all blocked readers, and when there is
\* none the blocked writer with the lowest thread id.  The state of the lock
\* is not consulted.
WokenLockers(disabled, e) ==
  LET blocked(type) == {x \in disabled : x.type = type /\ x.obj = e.obj}
      readers == blocked("RWLOCK_RDLOCK")
      writers == blocked("RWLOCK_WRLOCK")
  IN  IF e.type # "RWLOCK_UNLOCK" THEN {}
      ELSE IF readers # {} THEN readers
      ELSE {x \in writers : \A y \in writers : x.tid <= y.tid}

ToBeEnabled(disabled, e) ==
  {x \in disabled : CanEnable(e, x)}
     \cup WokenWaiters(disabled, e) \cup WokenLockers(disabled, e)

\* ProgramState::alive: the thread has a pending event.
Alive(pending, tid) == \E x \in pending : x.tid = tid

\* Mutant: a new join is enabled without a look at the joined thread.
StartsEnabledJoins(pending, mutexes, rwlocks, e) ==
  CASE e.type = "MUTEX_LOCK"    -> mutexes[e.obj] = Free
    [] e.type = "COND_WAIT"     -> FALSE
    [] e.type = "RWLOCK_RDLOCK" -> rwlocks[e.obj].status
                                     \in {"RWLS_IDLE", "RWLS_READING"}
    [] e.type = "RWLOCK_WRLOCK" -> rwlocks[e.obj].status = "RWLS_IDLE"
    [] OTHER                    -> TRUE

\* The test of ProgramState::add_transition: a new pending event goes to the
\* enabled set when it holds and to the disabled set otherwise.
StartsEnabled(pending, mutexes, rwlocks, e) ==
  CASE e.type = "THREAD_JOIN"   -> ~Alive(pending, e.aux)
    [] e.type = "MUTEX_LOCK"    -> mutexes[e.obj] = Free
    [] e.type = "COND_WAIT"     -> FALSE
    [] e.type = "RWLOCK_RDLOCK" -> rwlocks[e.obj].status
                                     \in {"RWLS_IDLE", "RWLS_READING"}
    [] e.type = "RWLOCK_WRLOCK" -> rwlocks[e.obj].status = "RWLS_IDLE"
    [] OTHER                    -> TRUE

\* Mutant: remove_from_enabled is not called.
AfterExecutingKeeps(p, e) ==
  LET blocked  == ToBeDisabled(p.enabled, e)
      disabled == p.disabled \cup blocked
      woken    == ToBeEnabled(disabled, e)
  IN  [enabled |-> (p.enabled \ blocked) \cup woken, disabled |-> disabled \ woken]

\* next_state up to the approval of e: e leaves the enabled set, then
\* update_enabled_set and update_disabled_set.  p is [enabled, disabled].
AfterExecuting(p, e) ==
  LET blocked  == ToBeDisabled(p.enabled \ {e}, e)
      disabled == p.disabled \cup blocked
      woken    == ToBeEnabled(disabled, e)
  IN  [enabled  |-> ((p.enabled \ {e}) \ blocked) \cup woken,
       disabled |-> disabled \ woken]

PendingIn(p) == p.enabled \cup p.disabled

\* Mutant: the objects are not compared.
RaceEventsAnyObject(enabled, e) ==
  {x \in enabled : /\ x.tid # e.tid
                   /\ "OBJ_WRITE" \in {x.type, e.type}
                   /\ {x.type, e.type} \subseteq ObjectTypes}

\* Mutant: a read and a write do not race.
RaceEventsWritesOnly(enabled, e) ==
  {x \in enabled : x.tid # e.tid /\ x.type = "OBJ_WRITE" /\ e.type = "OBJ_WRITE"
                                 /\ x.obj = e.obj}

\* TransitionSet::get_race_event: the enabled accesses that race with e.  The
\* code compares the ids of all events; mutexes, locks and objects get theirs
\* from one table, so that an equal id means an access to the same object.
RaceEvents(enabled, e) ==
  {x \in enabled : /\ x.tid # e.tid
                   /\ "OBJ_WRITE" \in {x.type, e.type}
                   /\ {x.type, e.type} \subseteq ObjectTypes
                   /\ x.obj = e.obj}

AddTransition(p, mutexes, rwlocks, e) ==
  IF StartsEnabled(PendingIn(p), mutexes, rwlocks, e)
  THEN [p EXCEPT !.enabled  = Insert(@, e)]
  ELSE [p EXCEPT !.disabled = Insert(@, e)]

\* The assertions of add_transition: what is acquired is in its table.
AddAsserts(mutexes, rwlocks, e) ==
  /\ e.type = "MUTEX_LOCK" => mutexes[e.obj] # Absent
  /\ e.type \in {"RWLOCK_RDLOCK", "RWLOCK_WRLOCK"} => rwlocks[e.obj] # RwAbsent

\* Mutant: nothing is woken.
UpdateSleepsetNever(sleepset, e) == sleepset

\* Mutant: everything is woken.
UpdateSleepsetAlways(sleepset, e) == {}

\* State::update_sleepset: executing e wakes the sleeping events it races with.
UpdateSleepset(sleepset, e) == {x \in sleepset : ~Dependent(e, x)}
=============================================================================
