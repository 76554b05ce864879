------------------------- MODULE SchedulerRunProofs -------------------------
(***************************************************************************)
(* Theorems about SchedulerRun for any number of threads and objects.      *)
(*                                                                         *)
(* The argument follows next_state: executing an event only moves events   *)
(* between the enabled and the disabled set and removes the executed one   *)
(* (AfterExecutingSets), and add_transition adds one event of a thread that *)
(* has none (AddTransitionSets).                                           *)
(***************************************************************************)
EXTENDS SchedulerRun, ProgramStateLemmas

----------------------------------------------------------------------------
(* The program under test.                                                 *)

\* Whatever a thread may announce is a well-formed event of that thread.
LEMMA LegalEvents ==
  ASSUME NEW t \in Threads, NEW n \in 1 .. MaxThreads, NEW P, NEW mu, NEW rw
  PROVE  Legal(t, P, mu, rw, n) \subseteq {x \in Event : x.tid = t}
<1> USE DEF Event, Ev, EventTypes, MutexTypes, CondTypes, RwlockTypes, ObjectTypes,
            ThreadTypes
<1>1. MutexEvents(t, P, mu) \subseteq {x \in Event : x.tid = t}
  BY DEF MutexEvents
<1>2. RwlockEvents(t, P, rw) \subseteq {x \in Event : x.tid = t}
  BY DEF RwlockEvents
<1>3. CondEvents(t) \subseteq {x \in Event : x.tid = t}
  BY DEF CondEvents
<1>4. ObjectEvents(t) \subseteq {x \in Event : x.tid = t}
  BY DEF ObjectEvents
<1>5. ThreadEvents(t, n) \subseteq {x \in Event : x.tid = t}
  <2>1. 0 .. n - 1 \subseteq Threads
    BY ConstantsAssumption DEF Threads
  <2> QED
    BY <2>1 DEF ThreadEvents
<1> QED
  BY <1>1, <1>2, <1>3, <1>4, <1>5 DEF Legal

\* The event that follows e in its thread is a well-formed event of it.
LEMMA NextEventsEvents ==
  ASSUME NEW e \in Event, NEW n \in 1 .. MaxThreads, NEW P, NEW mu, NEW rw
  PROVE  NextEvents(e, P, mu, rw, n) \subseteq {x \in Event : x.tid = e.tid}
<1>1. e.tid \in Threads
  BY DEF Event
<1>2. CASE e.type = "COND_WAIT"
  BY <1>2 DEF NextEvents, Event, Ev, EventTypes, MutexTypes, RwlockTypes, ObjectTypes
<1>3. CASE e.type # "COND_WAIT"
  <2>1. Legal(e.tid, P, mu, rw, n) \subseteq {x \in Event : x.tid = e.tid}
    BY <1>1, LegalEvents
  <2>2. ASSUME e.type = "MUTEX_UNLOCK", NEW c \in Conds
        PROVE  Ev("COND_WAIT", e.tid, e.obj, c) \in Event
    BY <2>2 DEF Event, Ev, EventTypes, CondTypes, MutexTypes, RwlockTypes, ObjectTypes
  <2> QED
    BY <1>3, <2>1, <2>2 DEF NextEvents, Ev
<1> QED
  BY <1>2, <1>3

\* The first event of a new thread is a well-formed event of it.
LEMMA FirstEventsEvents ==
  ASSUME NEW child \in Threads, NEW n \in 1 .. MaxThreads,
         NEW creator, NEW P, NEW mu, NEW rw
  PROVE  FirstEvents(child, creator, P, mu, rw, n) \subseteq {x \in Event : x.tid = child}
BY LegalEvents DEF FirstEvents

----------------------------------------------------------------------------
(* The tables.                                                             *)

\* execute_transition leaves a mutex with an owner, or free, or absent.
LEMMA ExecuteMutexesType ==
  ASSUME NEW e \in Event, NEW mu \in [Mutexes -> Threads \cup {Free, Absent}]
  PROVE  ExecuteMutexes(mu, e) \in [Mutexes -> Threads \cup {Free, Absent}]
BY DEF ExecuteMutexes, Event

\* execute_transition leaves a read-write lock with one of its statuses, a writer
\* and a set of readers.
LEMMA ExecuteRwlocksType ==
  ASSUME NEW e \in Event,
         NEW rw \in [Rwlocks -> [status : RwStatus, readers : SUBSET Threads,
                                 writer : Threads \cup {NoId}]]
  PROVE  ExecuteRwlocks(rw, e)
           \in [Rwlocks -> [status : RwStatus, readers : SUBSET Threads,
                            writer : Threads \cup {NoId}]]
<1> DEFINE Rw == [status : RwStatus, readers : SUBSET Threads,
                  writer : Threads \cup {NoId}]
<1>1. e.tid \in Threads
  BY DEF Event
<1>2. RwIdle \in Rw /\ RwAbsent \in Rw
  BY DEF RwIdle, RwAbsent, RwStatus
<1>3. ASSUME NEW r \in Rw
      PROVE  /\ ReleaseRwlock(r, e.tid) \in Rw
             /\ ReaderAcquire(r, e.tid) \in Rw
             /\ WriterAcquire(r, e.tid) \in Rw
  BY <1>1, <1>2 DEF ReleaseRwlock, ReaderAcquire, WriterAcquire, RwStatus
<1>4. e.type \in RwlockTypes => rw[e.obj] \in Rw
  BY DEF Event
<1> HIDE DEF Rw
<1> QED
  BY <1>1, <1>2, <1>3, <1>4 DEF ExecuteRwlocks, RwlockTypes, Rw

\* The assertions of the lock set table keep it well-formed.
LEMMA ExecuteLocksetsType ==
  ASSUME NEW e \in Event, NEW mu,
         NEW ls \in [Threads -> (SUBSET Mutexes) \cup {NoLockset}],
         MutexAsserts(mu, ls, e)
  PROVE  ExecuteLocksets(ls, e) \in [Threads -> (SUBSET Mutexes) \cup {NoLockset}]
<1>1. e.tid \in Threads /\ (e.type \in MutexTypes => e.obj \in Mutexes)
  BY DEF Event
<1>2. NoId \notin Mutexes
  BY ConstantsAssumption DEF NoId
<1>3. CASE e.type = "MUTEX_LOCK"
  BY <1>1, <1>3 DEF ExecuteLocksets, MutexAsserts, MutexTypes
<1>4. CASE e.type = "MUTEX_UNLOCK"
  <2>1. ls[e.tid] \subseteq Mutexes
    BY <1>1, <1>2, <1>4 DEF MutexAsserts, NoLockset, MutexTypes
  <2> QED
    BY <1>1, <1>4, <2>1 DEF ExecuteLocksets
<1>5. CASE e.type \notin {"MUTEX_LOCK", "MUTEX_UNLOCK"}
  BY <1>1, <1>5 DEF ExecuteLocksets
<1> QED
  BY <1>3, <1>4, <1>5

----------------------------------------------------------------------------
(* The inductive invariant.                                                *)

\* The pair of sets that is the current state.
Current == [enabled |-> enabled, disabled |-> disabled]

\* Every pending event belongs to a thread that has been created.
ThreadsKnown == \A x \in Pending : x.tid < nthreads

\* The inductive invariant: the type, one pending event per thread and none of a
\* thread to come, and sleeping events that are enabled.
Inv == TypeOK /\ OnePending /\ ThreadsKnown /\ SleepsetEnabled

\* Blocking is one way of racing: an event that disables another is dependent
\* with it (inspect_event.cc:486 and 534), so it wakes it before it can leave
\* it asleep and disabled.
LEMMA DisablingRaces ==
  ASSUME NEW e, NEW f, CanDisable(e, f)
  PROVE  Dependent(e, f)
BY DEF CanDisable, Dependent, RwlockTypes

\* It holds of the first state.
LEMMA InvInit == Init => Inv
<1> SUFFICES ASSUME Init PROVE Inv
  OBVIOUS
<1> USE ConstantsAssumption DEF Init
<1>1. 0 \in Threads /\ 1 \in 1 .. MaxThreads
  BY DEF Threads
<1>2. Start(0) \in Event
  BY <1>1 DEF Start, Ev, Event, EventTypes, ThreadTypes, MutexTypes, RwlockTypes, ObjectTypes
<1>3. RwAbsent \in [status : RwStatus, readers : SUBSET Threads,
                    writer : Threads \cup {NoId}]
  BY DEF RwAbsent, RwStatus
<1>4. TypeOK
  BY <1>1, <1>2, <1>3 DEF TypeOK, MutexIndex, RwlockIndex, Locksets
<1>5. OnePending /\ ThreadsKnown /\ SleepsetEnabled
  BY DEF OnePending, ThreadsKnown, SleepsetEnabled, Pending, Start, Ev
<1> QED
  BY <1>4, <1>5 DEF Inv

\* What the part common to all events does.
LEMMA Executing ==
  ASSUME Inv, NEW e \in enabled, NEW explored,
         CanExecute(e, explored), Execute(e, explored)
  PROVE  /\ e \in Event /\ e.tid < nthreads
         /\ After(e) \in PairsOver(Event)
         /\ PendingIn(After(e)) = Pending \ {e}
         /\ OnePer(After(e))
         /\ \A x \in PendingIn(After(e)) : x.tid # e.tid
         /\ sleepset' \subseteq After(e).enabled
         /\ mutexes' \in [Mutexes -> Threads \cup {Free, Absent}]
         /\ rwlocks' \in [Rwlocks -> [status : RwStatus, readers : SUBSET Threads,
                                      writer : Threads \cup {NoId}]]
         /\ aborted' \in BOOLEAN
<1>1. /\ Current \in PairsOver(Event)
      /\ OnePer(Current)
      /\ Current.enabled = enabled
      /\ PendingIn(Current) = Pending
  BY DEF Current, PairsOver, OnePer, PendingIn, Inv, TypeOK, MutexIndex, RwlockIndex, Locksets, OnePending, Pending
<1>2. After(e) = AfterExecuting(Current, e)
  BY DEF After, Current
<1>3. /\ After(e) \in PairsOver(Event)
      /\ PendingIn(After(e)) = Pending \ {e}
      /\ OnePer(After(e))
      /\ \A x \in PendingIn(After(e)) : x.tid # e.tid
      /\ \A x \in enabled \ {e} : ~CanDisable(e, x) => x \in After(e).enabled
  BY <1>1, <1>2, AfterExecutingSets
<1>4. sleepset' \subseteq After(e).enabled
  <2> SUFFICES ASSUME NEW x \in sleepset'
               PROVE  x \in After(e).enabled
    OBVIOUS
  <2>1. x \in sleepset \cup explored /\ ~Dependent(e, x)
    BY DEF Execute, UpdateSleepset
  <2>2. x \in enabled \ {e}
    BY <2>1 DEF CanExecute, Inv, SleepsetEnabled
  <2> QED
    BY <2>1, <2>2, <1>3, DisablingRaces
<1>5. e \in Event /\ e.tid < nthreads
  BY DEF Inv, TypeOK, MutexIndex, RwlockIndex, Locksets, ThreadsKnown, Pending
<1>6. mutexes' \in [Mutexes -> Threads \cup {Free, Absent}]
  BY <1>5, ExecuteMutexesType DEF Execute, Inv, TypeOK, MutexIndex, RwlockIndex, Locksets
<1>7. rwlocks' \in [Rwlocks -> [status : RwStatus, readers : SUBSET Threads,
                               writer : Threads \cup {NoId}]]
  BY <1>5, ExecuteRwlocksType DEF Execute, Inv, TypeOK, MutexIndex, RwlockIndex, Locksets
<1>8. aborted' \in BOOLEAN
  BY DEF Execute, Inv, TypeOK, MutexIndex, RwlockIndex, Locksets
<1> QED
  BY <1>3, <1>4, <1>5, <1>6, <1>7, <1>8

\* The lock sets after a step that executes e.
LEMMA LocksetsStep ==
  ASSUME Inv, NEW e \in enabled, NEW explored, CanExecute(e, explored)
  PROVE  ExecuteLocksets(locksets, e) \in [Threads -> (SUBSET Mutexes) \cup {NoLockset}]
BY ExecuteLocksetsType DEF CanExecute, ExecuteAsserts, Inv, TypeOK, MutexIndex, RwlockIndex, Locksets

----------------------------------------------------------------------------
(* The shape of the steps, on which every invariant rests.                *)

\* The event f added to p, with the tables the step leaves.
Added(p, f) == AddTransition(p, mutexes', rwlocks', f)

\* The invariant, said of the pair of sets.
LEMMA CurrentSets ==
  ASSUME Inv
  PROVE  /\ Current \in PairsOver(Event) /\ OnePer(Current)
         /\ Current.enabled = enabled /\ Current.disabled = disabled
         /\ PendingIn(Current) = Pending
         /\ Pending \subseteq Event
         /\ \A e : After(e) = AfterExecuting(Current, e)
BY DEF Current, PairsOver, OnePer, PendingIn, Inv, TypeOK, OnePending, Pending, After

\* An ordinary event is replaced by the next event of its thread.
LEMMA EventStep ==
  ASSUME Inv, NEW e \in enabled, NEW explored, ExecuteEvent(e, explored)
  PROVE  \E next \in NextEvents(e, Pending \ {e}, mutexes', rwlocks', nthreads) :
           /\ next \in Event /\ next.tid = e.tid
           /\ \A x \in PendingIn(After(e)) : x.tid # next.tid
           /\ Current' = Added(After(e), next)
           /\ Pending' = (Pending \ {e}) \cup {next}
<1>1. CanExecute(e, explored) /\ Execute(e, explored)
  BY DEF ExecuteEvent
<1>2. /\ After(e) \in PairsOver(Event) /\ OnePer(After(e)) /\ e \in Event
      /\ PendingIn(After(e)) = Pending \ {e}
      /\ \A x \in PendingIn(After(e)) : x.tid # e.tid
  BY <1>1, Executing
<1>3. PICK next \in NextEvents(e, Pending \ {e}, mutexes', rwlocks', nthreads) :
        BecomePending(Added(After(e), next))
  BY <1>2 DEF ExecuteEvent, Added
<1>4. next \in Event /\ next.tid = e.tid
  BY <1>2, <1>3, NextEventsEvents DEF Inv, TypeOK
<1> DEFINE q == Added(After(e), next)
<1>5. q \in PairsOver(Event) /\ PendingIn(q) = (Pending \ {e}) \cup {next}
  BY <1>2, <1>4, AddTransitionSets DEF Added
<1>6. enabled' = q.enabled /\ disabled' = q.disabled
  BY <1>3 DEF BecomePending
<1> HIDE DEF q
<1>7. Current' = q
  BY <1>5, <1>6 DEF Current, PairsOver
<1>8. Pending' = (Pending \ {e}) \cup {next}
  BY <1>5, <1>6 DEF Pending, PendingIn
<1> QED
  BY <1>2, <1>3, <1>4, <1>7, <1>8 DEF q

\* The end of a thread leaves the events of the others.
LEMMA EndStep ==
  ASSUME Inv, NEW e \in enabled, NEW explored, ExecuteEnd(e, explored)
  PROVE  Current' = After(e) /\ Pending' = Pending \ {e}
<1>1. CanExecute(e, explored) /\ Execute(e, explored)
  BY DEF ExecuteEnd
<1>2. After(e) \in PairsOver(Event) /\ PendingIn(After(e)) = Pending \ {e}
  BY <1>1, Executing
<1>3. enabled' = After(e).enabled /\ disabled' = After(e).disabled
  BY DEF ExecuteEnd, BecomePending
<1> QED
  BY <1>2, <1>3 DEF Current, PairsOver, Pending, PendingIn

\* A creation by e adds the first event of the new thread, and after it the
\* next event of the creator.
Creation(e, first, next) ==
  /\ first \in FirstEvents(nthreads, e.tid, Pending \ {e}, mutexes', rwlocks', nthreads')
  /\ next \in NextEvents(e, (Pending \ {e}) \cup {first}, mutexes', rwlocks', nthreads')
  /\ first.tid = nthreads /\ next.tid = e.tid
  /\ Added(After(e), first) \in PairsOver(Event)
  /\ OnePer(Added(After(e), first))
  /\ PendingIn(Added(After(e), first)) = (Pending \ {e}) \cup {first}
  /\ \A x \in (Pending \ {e}) \cup {first} : x.tid # next.tid
  /\ Current' = Added(Added(After(e), first), next)
  /\ Pending' = (Pending \ {e}) \cup {first, next}

\* Every creation has this shape.
LEMMA CreateStep ==
  ASSUME Inv, NEW e \in enabled, NEW explored, ExecuteCreate(e, explored)
  PROVE  /\ nthreads \in Threads /\ nthreads' = nthreads + 1
         /\ nthreads' \in 1 .. MaxThreads
         /\ \A x \in Pending : x.tid # nthreads
         /\ \E first, next \in Event : Creation(e, first, next)
<1>1. /\ CanExecute(e, explored) /\ Execute(e, explored)
      /\ nthreads < MaxThreads /\ nthreads' = nthreads + 1
  BY DEF ExecuteCreate
<1>2. nthreads \in Threads /\ nthreads' \in 1 .. MaxThreads
  BY <1>1, ConstantsAssumption DEF Inv, TypeOK, Threads
<1>3. /\ After(e) \in PairsOver(Event) /\ OnePer(After(e)) /\ e \in Event
      /\ PendingIn(After(e)) = Pending \ {e}
      /\ \A x \in PendingIn(After(e)) : x.tid # e.tid
  BY <1>1, Executing
<1>4. \A x \in Pending : x.tid # nthreads
  BY DEF Inv, ThreadsKnown, TypeOK, Pending, Event, Threads
<1>5. PICK first \in FirstEvents(nthreads, e.tid, Pending \ {e}, mutexes', rwlocks',
                                 nthreads') :
        LET p == Added(After(e), first)
        IN  \E next \in NextEvents(e, PendingIn(p), mutexes', rwlocks', nthreads') :
              BecomePending(Added(p, next))
  BY <1>3 DEF ExecuteCreate, Added
<1> DEFINE p == Added(After(e), first)
<1>6. first \in Event /\ first.tid = nthreads
  BY <1>2, <1>5, FirstEventsEvents
<1>7. p \in PairsOver(Event) /\ OnePer(p) /\ PendingIn(p) = (Pending \ {e}) \cup {first}
  BY <1>3, <1>4, <1>6, AddTransitionSets DEF Added
<1>8. PICK next \in NextEvents(e, (Pending \ {e}) \cup {first}, mutexes', rwlocks',
                                nthreads') :
        BecomePending(Added(p, next))
  BY <1>5, <1>7
<1>9. next \in Event /\ next.tid = e.tid
  BY <1>2, <1>3, <1>8, NextEventsEvents
<1> HIDE DEF p
<1>10. \A x \in PendingIn(p) : x.tid # next.tid
  BY <1>3, <1>4, <1>6, <1>7, <1>9 DEF Pending
<1> DEFINE q == Added(p, next)
<1>11. q \in PairsOver(Event) /\ PendingIn(q) = PendingIn(p) \cup {next}
  BY <1>7, <1>9, <1>10, AddTransitionSets DEF Added
<1>12. enabled' = q.enabled /\ disabled' = q.disabled
  BY <1>8 DEF BecomePending
<1> HIDE DEF q
<1>13. Current' = q
  BY <1>11, <1>12 DEF Current, PairsOver
<1>14. Pending' = (Pending \ {e}) \cup {first, next}
  BY <1>7, <1>11, <1>12 DEF Pending, PendingIn
<1> QED
  BY <1>1, <1>2, <1>4, <1>5, <1>6, <1>7, <1>8, <1>9, <1>10, <1>13, <1>14
     DEF p, q, Creation

----------------------------------------------------------------------------
(* The actions.                                                            *)

\* An event after which its thread goes on keeps it.
LEMMA ExecuteEventInv ==
  ASSUME Inv, NEW e \in enabled, NEW explored, ExecuteEvent(e, explored)
  PROVE  Inv'
<1>1. CanExecute(e, explored) /\ Execute(e, explored) /\ nthreads' = nthreads
  BY DEF ExecuteEvent
<1>2. PICK next \in Event : /\ next.tid = e.tid
                            /\ \A x \in PendingIn(After(e)) : x.tid # next.tid
                            /\ Current' = Added(After(e), next)
                            /\ Pending' = (Pending \ {e}) \cup {next}
  BY EventStep
<1>3. Current' \in PairsOver(Event) /\ OnePer(Current') /\ sleepset' \subseteq Current'.enabled
  BY <1>1, <1>2, Executing, AddTransitionSets DEF Added
<1>4. locksets' \in Locksets
  BY <1>1, LocksetsStep DEF ExecuteEvent, Locksets
<1>5. TypeOK'
  BY <1>1, <1>3, <1>4, Executing
     DEF TypeOK, MutexIndex, RwlockIndex, Inv, PairsOver, Current
<1>6. OnePending' /\ SleepsetEnabled'
  BY <1>3 DEF OnePending, OnePer, Pending, PendingIn, SleepsetEnabled, Current
<1>7. ThreadsKnown'
  BY <1>1, <1>2, Executing DEF ThreadsKnown, Inv
<1> QED
  BY <1>5, <1>6, <1>7 DEF Inv

\* The end of a thread keeps it.
LEMMA ExecuteEndInv ==
  ASSUME Inv, NEW e \in enabled, NEW explored, ExecuteEnd(e, explored)
  PROVE  Inv'
<1>1. CanExecute(e, explored) /\ Execute(e, explored) /\ nthreads' = nthreads
  BY DEF ExecuteEnd
<1>2. Current' = After(e) /\ Pending' = Pending \ {e}
  BY EndStep
<1>3. locksets' \in Locksets
  BY <1>1, LocksetsStep DEF ExecuteEnd, Locksets
<1>4. TypeOK'
  BY <1>1, <1>2, <1>3, Executing
     DEF TypeOK, MutexIndex, RwlockIndex, Inv, PairsOver, Current
<1>5. OnePending' /\ SleepsetEnabled'
  BY <1>1, <1>2, Executing
     DEF OnePending, OnePer, Pending, PendingIn, SleepsetEnabled, Current
<1>6. ThreadsKnown'
  BY <1>1, <1>2 DEF ThreadsKnown, Inv
<1> QED
  BY <1>4, <1>5, <1>6 DEF Inv

\* The creation of a thread keeps it: the new id is in nobody's events yet.
LEMMA ExecuteCreateInv ==
  ASSUME Inv, NEW e \in enabled, NEW explored, ExecuteCreate(e, explored)
  PROVE  Inv'
<1>1. CanExecute(e, explored) /\ Execute(e, explored)
  BY DEF ExecuteCreate
<1>2. nthreads \in Threads /\ nthreads' = nthreads + 1 /\ nthreads' \in 1 .. MaxThreads
  BY CreateStep
<1>3. \A x \in Pending : x.tid # nthreads
  BY CreateStep
<1>4. PICK first \in Event, next \in Event : Creation(e, first, next)
  BY CreateStep
<1> DEFINE p == Added(After(e), first)
<1>5. sleepset' \subseteq p.enabled
  <2>1. first.tid = nthreads
    BY <1>4 DEF Creation
  <2> QED
    BY <1>1, <1>3, <2>1, Executing, AddTransitionSets DEF Added
<1> HIDE DEF p
<1>6. Current' \in PairsOver(Event) /\ OnePer(Current') /\ sleepset' \subseteq Current'.enabled
  <2>1. Current' = Added(p, next) /\ p \in PairsOver(Event) /\ OnePer(p)
        /\ \A x \in PendingIn(p) : x.tid # next.tid
    BY <1>4 DEF p, Creation
  <2> QED
    BY <1>5, <2>1, AddTransitionSets DEF Added
<1>7. locksets' \in Locksets
  BY <1>2 DEF ExecuteCreate, ExecuteLocksets, Start, Ev, Inv, TypeOK, Locksets
<1>8. TypeOK'
  BY <1>1, <1>2, <1>6, <1>7, Executing
     DEF TypeOK, MutexIndex, RwlockIndex, Inv, PairsOver, Current
<1>9. OnePending' /\ SleepsetEnabled'
  BY <1>6 DEF OnePending, OnePer, Pending, PendingIn, SleepsetEnabled, Current
<1>10. ThreadsKnown'
  <2> SUFFICES ASSUME NEW x \in Pending'
               PROVE  x.tid < nthreads'
    BY DEF ThreadsKnown
  <2>1. /\ x \in Pending \/ x = first \/ x = next
        /\ first.tid = nthreads /\ next.tid = e.tid
    BY <1>4 DEF Creation
  <2>2. \A y \in Pending : y.tid \in Int /\ y.tid < nthreads
    BY DEF Inv, ThreadsKnown, TypeOK, Pending, Event, Threads
  <2> QED
    BY <2>1, <2>2, <1>2 DEF Threads, Pending
<1> QED
  BY <1>8, <1>9, <1>10 DEF Inv

\* Every step keeps it.
LEMMA InvNext == Inv /\ [Next]_vars => Inv'
<1> SUFFICES ASSUME Inv, [Next]_vars PROVE Inv'
  OBVIOUS
<1>1. ASSUME NEW e \in enabled, NEW explored, ExecuteEvent(e, explored) PROVE Inv'
  BY <1>1, ExecuteEventInv
<1>2. ASSUME NEW e \in enabled, NEW explored, ExecuteEnd(e, explored) PROVE Inv'
  BY <1>2, ExecuteEndInv
<1>3. ASSUME NEW e \in enabled, NEW explored, ExecuteCreate(e, explored) PROVE Inv'
  BY <1>3, ExecuteCreateInv
<1>4. ASSUME NEW e \in enabled, Abort(e) PROVE Inv'
  BY <1>4 DEF Abort, Inv, TypeOK, MutexIndex, RwlockIndex, Locksets, OnePending, ThreadsKnown, SleepsetEnabled, Pending
<1>5. CASE UNCHANGED vars
  BY <1>5 DEF vars, Inv, TypeOK, MutexIndex, RwlockIndex, Locksets, OnePending, ThreadsKnown, SleepsetEnabled, Pending
<1> QED
  BY <1>1, <1>2, <1>3, <1>4, <1>5 DEF Next

\* It always holds.
LEMMA InvAlways == Spec => []Inv
BY InvInit, InvNext, PTL DEF Spec

----------------------------------------------------------------------------
(* Theorems.                                                               *)

\* The variables have their types, whatever the program does.
THEOREM TypeCorrect == Spec => []TypeOK
BY InvAlways, PTL DEF Inv

\* No thread ever has two pending events, and none is both enabled and
\* disabled: no insertion into a transition set overwrites an event.
THEOREM OnePendingHolds == Spec => []OnePending
BY InvAlways, PTL DEF Inv

\* Sleeping events stay enabled: next_state blocks an event only by executing
\* one that races with it, and update_sleepset has then woken it.
THEOREM SleepsetEnabledHolds == Spec => []SleepsetEnabled
BY InvAlways, PTL DEF Inv

\* The deadlock test of SourceDPOR (scheduler.cc:928) is exact.
THEOREM DeadlockTestExactHolds == Spec => []DeadlockTestExact
<1>1. Inv => DeadlockTestExact
  BY DEF Inv, SleepsetEnabled, DeadlockTestExact
<1> QED
  BY <1>1, InvAlways, PTL
=============================================================================
