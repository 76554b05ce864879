----------------------- MODULE SchedulerRunRefinement -----------------------
(***************************************************************************)
(* SchedulerRun implements Pthreads, for any number of threads and         *)
(* objects: every step of next_state is one that POSIX allows, or leaves   *)
(* the program where it is.                                                *)
(*                                                                         *)
(* An enabled event may be performed because the enabled set is right      *)
(* about mutexes (MutexInv) and joins (JoinInv), and because the assertions *)
(* of the lock table refuse an acquisition that is not.  The waits follow  *)
(* update_disabled_set, which wakes the waiter with the lowest thread id   *)
(* where POSIX leaves the choice open.                                     *)
(***************************************************************************)
EXTENDS MC_SchedulerRun, SchedulerRunSync

\* The waits for a condition variable that have not been signalled.
Waits(p) == {x \in p.disabled : x.type = "COND_WAIT"}

\* Only a signal or a broadcast ends a wait.
LEMMA ExecutingWaits ==
  ASSUME NEW p \in PairsOver(Event), NEW e \in p.enabled, OnePer(p)
  PROVE  Waits(AfterExecuting(p, e)) = Waits(p) \ WokenWaiters(p.disabled, e)
<1> DEFINE blocked == ToBeDisabled(p.enabled \ {e}, e)
           woken   == ToBeEnabled(p.disabled \cup blocked, e)
<1>1. AfterExecuting(p, e).disabled = (p.disabled \cup blocked) \ woken
  BY DEF AfterExecuting
<1>2. \A x \in blocked : x.type # "COND_WAIT"
  BY DEF ToBeDisabled, CanDisable
<1> HIDE DEF blocked
<1>3. \A x : x.type = "COND_WAIT"
        => (x \in woken <=> x \in WokenWaiters(p.disabled, e))
  BY <1>2 DEF ToBeEnabled, CanEnable, WokenLockers, WokenWaiters
<1> QED
  BY <1>1, <1>2, <1>3 DEF Waits

\* A wait starts disabled.
LEMMA AddingWaits ==
  ASSUME NEW p \in PairsOver(Event), OnePer(p), NEW f \in Event, NEW mu, NEW rw,
         \A x \in PendingIn(p) : x.tid # f.tid
  PROVE  Waits(AddTransition(p, mu, rw, f))
           = Waits(p) \cup {x \in {f} : x.type = "COND_WAIT"}
<1> DEFINE q == AddTransition(p, mu, rw, f)
<1>1. /\ PendingIn(q) = PendingIn(p) \cup {f} /\ OnePer(q)
      /\ p.enabled \subseteq q.enabled /\ p.disabled \subseteq q.disabled
  BY AddTransitionSets
<1>2. q.enabled = p.enabled \cup {x \in {f} : StartsEnabled(PendingIn(p), mu, rw, x)}
  BY AddTransitionEnabled
<1>3. f.type = "COND_WAIT" => ~StartsEnabled(PendingIn(p), mu, rw, f)
  BY DEF StartsEnabled
<1>4. f \notin PendingIn(p)
  OBVIOUS
<1> HIDE DEF q
<1>5. /\ q.disabled \subseteq p.disabled \cup {f}
      /\ f.type = "COND_WAIT" => f \in q.disabled
  BY <1>1, <1>2, <1>3, <1>4 DEF PendingIn, OnePer
<1>6. Waits(q) = Waits(p) \cup {x \in {f} : x.type = "COND_WAIT"}
  BY <1>1, <1>5 DEF Waits
<1> QED
  BY <1>6 DEF q

\* What update_disabled_set wakes is one of the choices POSIX leaves.
LEMMA WokenReleased ==
  ASSUME Inv, NEW e
  PROVE  WokenWaiters(disabled, e) \in P!Released(e)
<1> DEFINE waiters == {x \in disabled : x.type = "COND_WAIT" /\ x.aux = e.aux}
<1>1. waiters = {x \in {y \in disabled : y.type = "COND_WAIT"} : x.aux = e.aux}
  OBVIOUS
<1>2. WokenWaiters(disabled, e)
        = {x \in waiters : \/ e.type = "COND_BROADCAST"
                           \/ /\ e.type = "COND_SIGNAL"
                              /\ \A y \in waiters : x.tid <= y.tid}
  BY DEF WokenWaiters
<1> HIDE DEF waiters
<1>3. P!Released(e) = CASE e.type = "COND_BROADCAST" -> {waiters}
                        [] e.type = "COND_SIGNAL" /\ waiters # {} -> {{x} : x \in waiters}
                        [] OTHER -> {{}}
  BY <1>1 DEF P!Released
<1>4. CASE e.type = "COND_BROADCAST"
  BY <1>2, <1>3, <1>4
<1>5. CASE e.type = "COND_SIGNAL" /\ waiters # {}
  <2>1. waiters \subseteq Pending /\ \A x \in waiters : x.tid \in Nat
    BY DEF waiters, Inv, TypeOK, Event, Threads, Pending
  <2>2. PICK x \in waiters : \A y \in waiters : x.tid <= y.tid
    BY <1>5, <2>1, LowestThread
  <2>3. \A y \in waiters : y.tid = x.tid => y = x
    BY <2>1 DEF Inv, OnePending
  <2>4. WokenWaiters(disabled, e) = {x}
    BY <1>2, <1>5, <2>1, <2>2, <2>3
  <2> QED
    BY <1>3, <1>5, <2>4
<1>6. CASE ~(e.type = "COND_BROADCAST" \/ (e.type = "COND_SIGNAL" /\ waiters # {}))
  BY <1>2, <1>3, <1>6
<1> QED
  BY <1>4, <1>5, <1>6

\* An event the scheduler executes may be performed.
LEMMA EnabledMayPerform ==
  ASSUME MutexInv, JoinInv, NEW e \in enabled, NEW explored, CanExecute(e, explored)
  PROVE  P!MayPerform(e)
<1>1. e \in Pending /\ e \notin disabled
  BY DEF MutexInv, Inv, OnePending, Pending
<1>2. RwlockAsserts(rwlocks, e) /\ MutexAsserts(mutexes, locksets, e)
  BY DEF CanExecute, ExecuteAsserts
<1>3. e.type = "MUTEX_UNLOCK" => mutexes[e.obj] = e.tid
  BY <1>1, CurrentSets DEF MutexInv, MutexesRight, MutexUse
<1>4. e.type = "THREAD_JOIN" => ~P!Alive(Pending, e.aux)
  BY <1>1, CurrentSets DEF JoinInv, JoinExact, P!Alive, Tids
<1> QED
  BY <1>1, <1>2, <1>3, <1>4
     DEF P!MayPerform, MutexAsserts, RwlockAsserts, Free, P!Free, RwIdle

\* Pthreads changes its objects as the scheduler changes its tables.
LEMMA SameTables ==
  ASSUME NEW e, NEW mu, NEW rw
  PROVE  /\ P!ExecuteMutexes(mu, e) = ExecuteMutexes(mu, e)
         /\ P!ExecuteRwlocks(rw, e) = ExecuteRwlocks(rw, e)
BY DEF P!ExecuteMutexes, ExecuteMutexes, P!ExecuteRwlocks, ExecuteRwlocks, P!Free, Free,
       P!Absent, Absent, P!RwIdle, RwIdle, P!RwAbsent, RwAbsent, P!NoId, NoId,
       P!ReaderAcquire, ReaderAcquire, P!WriterAcquire, WriterAcquire,
       P!ReleaseRwlock, ReleaseRwlock

\* A step that executes e and adds the events F is a step of Pthreads, if the
\* waits among F are added and nothing else happens to the waits.
LEMMA StepRefines ==
  ASSUME MutexInv, JoinInv, Inv', NEW e \in enabled, NEW explored,
         CanExecute(e, explored), Execute(e, explored),
         NEW F, Pending' = (Pending \ {e}) \cup F,
         e.type # "THREAD_END" => \E x \in F : x.tid = e.tid,
         \A x \in F : x.tid # e.tid => e.type = "THREAD_PRE_CREATE",
         Waits(Current') = Waits(After(e)) \cup {x \in F : x.type = "COND_WAIT"},
         \A x \in F : x \notin Pending \ {e}
  PROVE  P!Next
<1> DEFINE announced == Pending' \ (Pending \ {e})
           W == {x \in disabled : x.type = "COND_WAIT"}
<1>1. announced = F
  OBVIOUS
<1>2. e \in Pending
  BY DEF Pending
<1>3. \A x \in F : \A y \in Pending' : x.tid = y.tid => x = y
  BY DEF Inv, OnePending
<1>4. \E released \in P!Released(e) :
         W' = (W \ released) \cup {x \in F : x.type = "COND_WAIT"}
  <2>1. /\ Current \in PairsOver(Event) /\ OnePer(Current) /\ e \in Current.enabled
        /\ After(e) = AfterExecuting(Current, e)
    BY CurrentSets DEF MutexInv
  <2>2. Waits(After(e)) = W \ WokenWaiters(disabled, e)
    BY <2>1, ExecutingWaits DEF Waits, Current
  <2>3. W' = Waits(Current')
    BY DEF Waits, Current
  <2>4. WokenWaiters(disabled, e) \in P!Released(e)
    BY WokenReleased DEF MutexInv
  <2> QED
    BY <2>2, <2>3, <2>4
<1>5. mutexes' = P!ExecuteMutexes(mutexes, e) /\ rwlocks' = P!ExecuteRwlocks(rwlocks, e)
  BY SameTables DEF Execute
<1>6. P!MayPerform(e)
  BY EnabledMayPerform
<1>7. P!Perform(e, announced)
  <2> HIDE DEF announced
  <2> QED
    BY <1>1, <1>2, <1>3, <1>4, <1>5, <1>6 DEF P!Perform
<1> QED
  BY <1>2, <1>7 DEF P!Next

\* An event after which its thread goes on is an operation of Pthreads.
LEMMA ExecuteEventRefines ==
  ASSUME MutexInv, JoinInv, Inv', NEW e \in enabled, NEW explored, ExecuteEvent(e, explored)
  PROVE  P!Next
<1>1. /\ CanExecute(e, explored) /\ Execute(e, explored) /\ Inv
      /\ e.type # "THREAD_END"
  BY DEF ExecuteEvent, MutexInv
<1>2. PICK next \in NextEvents(e, Pending \ {e}, mutexes', rwlocks', nthreads) :
        /\ next \in Event /\ next.tid = e.tid
        /\ \A x \in PendingIn(After(e)) : x.tid # next.tid
        /\ Current' = Added(After(e), next)
        /\ Pending' = (Pending \ {e}) \cup {next}
  BY <1>1, EventStep
<1>3. After(e) \in PairsOver(Event) /\ OnePer(After(e)) /\ PendingIn(After(e)) = Pending \ {e}
  BY <1>1, Executing
<1>4. Waits(Current') = Waits(After(e)) \cup {x \in {next} : x.type = "COND_WAIT"}
  BY <1>2, <1>3, AddingWaits DEF Added
<1>5. next \notin Pending \ {e}
  BY <1>2, <1>3
<1> DEFINE F == {next}
<1>6. /\ Pending' = (Pending \ {e}) \cup F
      /\ \E x \in F : x.tid = e.tid
      /\ \A x \in F : x.tid = e.tid /\ x \notin Pending \ {e}
      /\ Waits(Current') = Waits(After(e)) \cup {x \in F : x.type = "COND_WAIT"}
  BY <1>2, <1>4, <1>5
<1> HIDE DEF F
<1> QED
  BY <1>1, <1>6, StepRefines

\* The end of a thread is.
LEMMA ExecuteEndRefines ==
  ASSUME MutexInv, JoinInv, Inv', NEW e \in enabled, NEW explored, ExecuteEnd(e, explored)
  PROVE  P!Next
<1>1. /\ CanExecute(e, explored) /\ Execute(e, explored) /\ Inv
      /\ e.type = "THREAD_END"
  BY DEF ExecuteEnd, MutexInv
<1>2. Current' = After(e) /\ Pending' = Pending \ {e}
  BY <1>1, EndStep
<1> DEFINE F == {}
<1>3. /\ Pending' = (Pending \ {e}) \cup F
      /\ \A x \in F : x.tid = e.tid /\ x \notin Pending \ {e}
      /\ Waits(Current') = Waits(After(e)) \cup {x \in F : x.type = "COND_WAIT"}
  BY <1>2
<1> HIDE DEF F
<1> QED
  BY <1>1, <1>3, StepRefines

\* The creation of a thread is.
LEMMA ExecuteCreateRefines ==
  ASSUME MutexInv, JoinInv, Inv', NEW e \in enabled, NEW explored,
         ExecuteCreate(e, explored)
  PROVE  P!Next
<1>1. /\ CanExecute(e, explored) /\ Execute(e, explored) /\ Inv
      /\ e.type = "THREAD_PRE_CREATE"
  BY DEF ExecuteCreate, MutexInv
<1>2. \A x \in Pending : x.tid # nthreads
  BY <1>1, CreateStep
<1>3. PICK first \in Event, next \in Event : Creation(e, first, next)
  BY <1>1, CreateStep
<1> DEFINE p == Added(After(e), first)
<1>4. After(e) \in PairsOver(Event) /\ OnePer(After(e)) /\ PendingIn(After(e)) = Pending \ {e}
  BY <1>1, Executing
<1>5. Waits(p) = Waits(After(e)) \cup {x \in {first} : x.type = "COND_WAIT"}
  <2>1. \A x \in PendingIn(After(e)) : x.tid # first.tid
    BY <1>2, <1>3, <1>4 DEF Creation
  <2> QED
    BY <1>4, <2>1, AddingWaits DEF Added
<1>6. /\ p \in PairsOver(Event) /\ OnePer(p)
      /\ \A x \in PendingIn(p) : x.tid # next.tid
      /\ Current' = Added(p, next)
      /\ Pending' = (Pending \ {e}) \cup {first, next}
      /\ first.tid = nthreads /\ next.tid = e.tid
  BY <1>3 DEF Creation
<1> HIDE DEF p
<1>7. Waits(Current') = Waits(p) \cup {x \in {next} : x.type = "COND_WAIT"}
  BY <1>6, AddingWaits DEF Added
<1>8. Waits(Current') = Waits(After(e)) \cup {x \in {first, next} : x.type = "COND_WAIT"}
  BY <1>5, <1>7
<1>9. \A x \in {first, next} : x \notin Pending \ {e}
  BY <1>1, <1>2, <1>6 DEF Inv, OnePending, Pending
<1> DEFINE F == {first, next}
<1>10. /\ Pending' = (Pending \ {e}) \cup F
       /\ \E x \in F : x.tid = e.tid
       /\ \A x \in F : x \notin Pending \ {e}
       /\ Waits(Current') = Waits(After(e)) \cup {x \in F : x.type = "COND_WAIT"}
  BY <1>6, <1>8, <1>9
<1> HIDE DEF F
<1> QED
  BY <1>1, <1>10, StepRefines

\* Every step the scheduler lets the program take is one that POSIX allows:
\* the enabled set never offers an acquisition of a lock that is taken, a
\* return from a wait without a signal or a join of a running thread, and the
\* separate events of a pthread_cond_wait (inspect_pthread.cc:595-634) lose no
\* signal.
THEOREM RefinesPthreadsHolds == ~ChildJoinsCreator => (Spec => RefinesPthreads)
<1> SUFFICES ASSUME ~ChildJoinsCreator PROVE Spec => RefinesPthreads
  OBVIOUS
<1>1. Init => P!Init
  BY DEF Init, P!Init, Pending, Ev, P!Ev, NoId, P!NoId, Absent, P!Absent,
         RwAbsent, P!RwAbsent, Start
<1>2. MutexInv /\ JoinInv /\ Inv' /\ [Next]_vars => [P!Next]_(P!vars)
  <2> SUFFICES ASSUME MutexInv, JoinInv, Inv', [Next]_vars
               PROVE  P!Next \/ UNCHANGED P!vars
    OBVIOUS
  <2>1. ASSUME NEW e \in enabled, NEW explored, ExecuteEvent(e, explored) PROVE P!Next
    BY <2>1, ExecuteEventRefines
  <2>2. ASSUME NEW e \in enabled, NEW explored, ExecuteEnd(e, explored) PROVE P!Next
    BY <2>2, ExecuteEndRefines
  <2>3. ASSUME NEW e \in enabled, NEW explored, ExecuteCreate(e, explored) PROVE P!Next
    BY <2>3, ExecuteCreateRefines
  <2>4. ASSUME NEW e \in enabled, Abort(e) PROVE UNCHANGED P!vars
    BY <2>4 DEF Abort, P!vars, Pending
  <2>5. CASE UNCHANGED vars
    BY <2>5 DEF vars, P!vars, Pending
  <2> QED
    BY <2>1, <2>2, <2>3, <2>4, <2>5 DEF Next
<1>3. Spec => []JoinInv
  BY JoinInvInit, JoinInvNext, PTL DEF Spec
<1>4. MutexInv => Inv
  BY DEF MutexInv
<1> QED
  BY <1>1, <1>2, <1>3, <1>4, MutexInvAlways, PTL DEF Spec, RefinesPthreads, P!Spec
=============================================================================
