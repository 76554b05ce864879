-------------------------- MODULE SchedulerRunSync --------------------------
(***************************************************************************)
(* Theorems about the synchronisation of SchedulerRun.                     *)
(*                                                                         *)
(* Mutexes: pending acquisitions are enabled exactly while their mutex is  *)
(* free, the lock sets are the sets of owned mutexes, and no assertion of  *)
(* the mutex and lock set tables or of add_transition fails.               *)
(* Independent events: the order of two of them does not matter.           *)
(* Joins: they are enabled exactly when the joined thread has ended.       *)
(* Read-write locks: no writer stays blocked on a lock that is idle and    *)
(* that nobody is about to acquire.                                        *)
(*                                                                         *)
(* A step of next_state is taken apart the way the code takes it: first    *)
(* the event is executed, which changes the tables and moves the other     *)
(* pending events (lemmas Executing...), then the events of the threads    *)
(* that go on are added (lemmas Adding...).  The predicates below are      *)
(* therefore about values: a pair p of enabled and disabled events, and    *)
(* the owners mu.                                                          *)
(***************************************************************************)
EXTENDS SchedulerRunProofs

\* No event of P uses the mutex m.
Unused(P, m) == \A y \in P : ~UsesMutex(y, m)

\* The mutex m is initialised, and nobody is about to destroy it.
Usable(P, mu, m) ==
  /\ mu[m] # Absent
  /\ \A y \in P : UsesMutex(y, m) => y.type \notin {"MUTEX_INIT", "MUTEX_DESTROY"}

\* How a correct program uses mutexes, as far as its pending events P tell:
\* an initialisation or a destruction is the only use of its mutex, only an
\* owner releases, and what is acquired or waited with is initialised.
MutexUse(P, mu) ==
  \A x \in P :
    /\ x.type = "MUTEX_INIT"
         => mu[x.obj] = Absent /\ \A y \in P : UsesMutex(y, x.obj) => y = x
    /\ x.type = "MUTEX_DESTROY"
         => mu[x.obj] = Free /\ \A y \in P : UsesMutex(y, x.obj) => y = x
    /\ x.type = "MUTEX_UNLOCK" => mu[x.obj] = x.tid
    /\ x.type \in {"MUTEX_LOCK", "COND_WAIT"} => mu[x.obj] # Absent

\* The event f keeps to MutexUse when it becomes pending beside P.
Announceable(f, P, mu) ==
  /\ f.type = "MUTEX_INIT"    => mu[f.obj] = Absent /\ Unused(P, f.obj)
  /\ f.type = "MUTEX_DESTROY" => mu[f.obj] = Free   /\ Unused(P, f.obj)
  /\ f.type = "MUTEX_UNLOCK"  => mu[f.obj] = f.tid
  /\ f.type \in {"MUTEX_LOCK", "COND_WAIT"} => Usable(P, mu, f.obj)

\* A pending acquisition is enabled exactly while its mutex is free.
LockExact(p, mu) ==
  \A x \in PendingIn(p) :
    x.type = "MUTEX_LOCK" => (x \in p.enabled <=> mu[x.obj] = Free)

\* What the two sets and the owners promise one another.
MutexesRight(p, mu) == MutexUse(PendingIn(p), mu) /\ LockExact(p, mu)

----------------------------------------------------------------------------
(* Executing an event.                                                     *)

\* execute_transition changes the mutex of the event and no other.
LEMMA ExecuteMutexesAt ==
  ASSUME NEW e \in Event, NEW mu \in MutexIndex, NEW m \in Mutexes
  PROVE  LET new == ExecuteMutexes(mu, e)
         IN  /\ m # e.obj \/ e.type \notin MutexTypes => new[m] = mu[m]
             /\ m = e.obj /\ e.type = "MUTEX_INIT" /\ mu[m] = Absent => new[m] = Free
             /\ m = e.obj /\ e.type = "MUTEX_DESTROY" => new[m] = Absent
             /\ m = e.obj /\ e.type = "MUTEX_LOCK"    => new[m] = e.tid
             /\ m = e.obj /\ e.type = "MUTEX_UNLOCK"  => new[m] = Free
BY DEF ExecuteMutexes, MutexTypes, MutexIndex

\* Which acquisitions an event wakes.
LEMMA WokenLocks ==
  ASSUME NEW D, NEW e, NEW x \in D, x.type = "MUTEX_LOCK"
  PROVE  x \in ToBeEnabled(D, e)
           <=> e.type = "MUTEX_UNLOCK" /\ x.obj = e.obj /\ x.tid # e.tid
BY DEF ToBeEnabled, CanEnable, WokenWaiters, WokenLockers

\* Executing e leaves every mutex used correctly and every acquisition enabled
\* exactly while its mutex is free; and after a release or a wait, the mutex
\* may be acquired or waited with again.
LEMMA ExecutingMutexes ==
  ASSUME NEW p \in PairsOver(Event), NEW e \in p.enabled, OnePer(p),
         NEW mu \in MutexIndex, MutexesRight(p, mu)
  PROVE  LET q   == AfterExecuting(p, e)
             new == ExecuteMutexes(mu, e)
         IN  /\ MutexesRight(q, new)
             /\ e.type \in {"MUTEX_UNLOCK", "COND_WAIT"}
                  => Usable(PendingIn(q), new, e.obj)
<1> DEFINE q   == AfterExecuting(p, e)
           new == ExecuteMutexes(mu, e)
           P   == PendingIn(p)
<1>1. /\ PendingIn(q) = P \ {e}
      /\ \A x \in P \ {e} : x.tid # e.tid
  BY AfterExecutingSets
<1>2. q.enabled = {x \in p.enabled \ {e} : ~CanDisable(e, x)} \cup ToBeEnabled(p.disabled, e)
  BY AfterExecutingEnabled
<1>3. /\ P \subseteq Event /\ e \in P /\ e \in Event
      /\ P = p.enabled \cup p.disabled
  BY DEF PairsOver, PendingIn
<1>4. /\ e.tid \in Threads /\ e.tid # Free /\ e.tid # Absent /\ Free # Absent
      /\ \A x \in P : UsesMutex(x, x.obj) => x.obj \in Mutexes
      /\ \A x \in P : x.tid # Free /\ x.tid # Absent
  BY <1>3 DEF Event, Threads, Free, Absent, UsesMutex
<1>5. \A m \in Mutexes :
         /\ m # e.obj \/ e.type \notin MutexTypes => new[m] = mu[m]
         /\ m = e.obj /\ e.type = "MUTEX_INIT" /\ mu[m] = Absent => new[m] = Free
         /\ m = e.obj /\ e.type = "MUTEX_DESTROY" => new[m] = Absent
         /\ m = e.obj /\ e.type = "MUTEX_LOCK"    => new[m] = e.tid
         /\ m = e.obj /\ e.type = "MUTEX_UNLOCK"  => new[m] = Free
  BY <1>3, ExecuteMutexesAt
<1> HIDE DEF q, new, P
<1>6. MutexUse(P, mu) /\ LockExact(p, mu)
  BY DEF MutexesRight, P
<1>7. MutexUse(PendingIn(q), new)
  BY <1>1, <1>3, <1>4, <1>5, <1>6 DEF MutexUse, LockExact, UsesMutex, MutexTypes, P
<1>8. LockExact(q, new)
  <2> SUFFICES ASSUME NEW x \in P \ {e}, x.type = "MUTEX_LOCK"
               PROVE  x \in q.enabled <=> new[x.obj] = Free
    BY <1>1 DEF LockExact
  <2>1. /\ x.obj \in Mutexes /\ UsesMutex(x, x.obj)
        /\ x \in p.enabled <=> mu[x.obj] = Free
        /\ mu[x.obj] # Absent
    BY <1>4, <1>6 DEF UsesMutex, MutexTypes, LockExact, MutexUse, P
  <2>2. x.tid # e.tid
    BY <1>1
  <2>3. x \in p.disabled => (x \in ToBeEnabled(p.disabled, e)
                               <=> e.type = "MUTEX_UNLOCK" /\ x.obj = e.obj)
    BY <2>2, WokenLocks
  <2>4. ~(x \in p.enabled /\ x \in p.disabled)
    BY DEF OnePer
  <2>5. x \in p.disabled <=> x \notin p.enabled
    BY <2>4, <1>3
  <2>6. ToBeEnabled(p.disabled, e) \subseteq p.disabled
    BY DEF ToBeEnabled, WokenWaiters, WokenLockers
  <2>7. CanDisable(e, x) <=> e.type = "MUTEX_LOCK" /\ x.obj = e.obj
    BY <2>2 DEF CanDisable
  <2>8. x \in q.enabled <=> \/ x \in p.enabled /\ ~(e.type = "MUTEX_LOCK" /\ x.obj = e.obj)
                            \/ x \notin p.enabled /\ e.type = "MUTEX_UNLOCK" /\ x.obj = e.obj
    BY <1>2, <2>3, <2>5, <2>6, <2>7
  <2>9. e.type = "MUTEX_INIT" /\ e.obj = x.obj => FALSE
    BY <1>3, <1>6, <2>1 DEF MutexUse
  <2>10. e.type = "MUTEX_DESTROY" /\ e.obj = x.obj => FALSE
    BY <1>3, <1>6, <2>1 DEF MutexUse
  <2>11. e.type = "MUTEX_UNLOCK" /\ e.obj = x.obj => x \notin p.enabled
    BY <1>3, <1>4, <1>6, <2>1 DEF MutexUse
  <2> QED
    BY <1>4, <1>5, <2>1, <2>8, <2>9, <2>10, <2>11 DEF MutexTypes
<1>9. e.type \in {"MUTEX_UNLOCK", "COND_WAIT"} => Usable(PendingIn(q), new, e.obj)
  <2> SUFFICES ASSUME e.type \in {"MUTEX_UNLOCK", "COND_WAIT"}
               PROVE  Usable(PendingIn(q), new, e.obj)
    OBVIOUS
  <2>1. UsesMutex(e, e.obj) /\ e.obj \in Mutexes
    BY <1>3, <1>4 DEF UsesMutex, MutexTypes
  <2>2. \A y \in P : UsesMutex(y, e.obj) => y.type \notin {"MUTEX_INIT", "MUTEX_DESTROY"}
    BY <1>3, <1>6, <2>1 DEF MutexUse, UsesMutex
  <2>3. new[e.obj] # Absent
    BY <1>3, <1>4, <1>5, <1>6, <2>1 DEF MutexUse, MutexTypes
  <2> QED
    BY <1>1, <2>2, <2>3 DEF Usable
<1> QED
  BY <1>7, <1>8, <1>9 DEF MutexesRight, q, new

----------------------------------------------------------------------------
(* Adding an event.                                                        *)

\* What a thread may announce beside P keeps to MutexUse.
LEMMA LegalAnnounceable ==
  ASSUME NEW t \in Threads, NEW n \in 1 .. MaxThreads, NEW P, NEW mu, NEW rw,
         MutexUse(P, mu), NEW f \in Legal(t, P, mu, rw, n)
  PROVE  Announceable(f, P, mu) /\ f.tid = t /\ f.type # "THREAD_START"
<1>1. CASE f \in MutexEvents(t, P, mu)
  BY <1>1 DEF MutexEvents, Ev, Announceable, Unused, Usable, UsesMutex, MutexUse,
              MutexTypes
<1>2. CASE f \in RwlockEvents(t, P, rw)
  BY <1>2 DEF RwlockEvents, Ev, Announceable
<1>3. CASE f \in CondEvents(t)
  BY <1>3 DEF CondEvents, Ev, Announceable
<1>4. CASE f \in ObjectEvents(t)
  BY <1>4 DEF ObjectEvents, ObjectTypes, Ev, Announceable
<1>5. CASE f \in ThreadEvents(t, n)
  BY <1>5 DEF ThreadEvents, Ev, Announceable
<1> QED
  BY <1>1, <1>2, <1>3, <1>4, <1>5 DEF Legal

\* Only a read-write lock that is initialised is acquired.
LEMMA LegalRwlocks ==
  ASSUME NEW t, NEW P, NEW mu, NEW rw, NEW n, NEW f \in Legal(t, P, mu, rw, n),
         f.type \in {"RWLOCK_RDLOCK", "RWLOCK_WRLOCK"}
  PROVE  rw[f.obj] # RwAbsent
BY DEF Legal, MutexEvents, RwlockEvents, CondEvents, ObjectEvents, ObjectTypes, ThreadEvents, Ev

\* So it is after another event of the thread.
LEMMA NextRwlocks ==
  ASSUME NEW e, NEW P, NEW mu, NEW rw, NEW n, NEW f \in NextEvents(e, P, mu, rw, n),
         f.type \in {"RWLOCK_RDLOCK", "RWLOCK_WRLOCK"}
  PROVE  rw[f.obj] # RwAbsent
<1>1. f \in Legal(e.tid, P, mu, rw, n)
  BY DEF NextEvents, Ev
<1> QED
  BY <1>1, LegalRwlocks

\* So does the event that follows e, beside the events P that executing e has
\* left.
LEMMA NextAnnounceable ==
  ASSUME NEW e \in Event, NEW n \in 1 .. MaxThreads, NEW P, NEW mu, NEW rw,
         MutexUse(P, mu), e.type \in {"MUTEX_UNLOCK", "COND_WAIT"} => Usable(P, mu, e.obj),
         NEW f \in NextEvents(e, P, mu, rw, n)
  PROVE  Announceable(f, P, mu) /\ f.tid = e.tid /\ f.type # "THREAD_START"
<1>1. CASE f \in Legal(e.tid, P, mu, rw, n)
  <2>1. e.tid \in Threads
    BY DEF Event
  <2> QED
    BY <1>1, <2>1, LegalAnnounceable
<1>2. CASE f \notin Legal(e.tid, P, mu, rw, n)
  BY <1>2 DEF NextEvents, Ev, Announceable
<1> QED
  BY <1>1, <1>2

\* add_transition enables a new acquisition exactly if its mutex is free.
LEMMA AddingMutexes ==
  ASSUME NEW p \in PairsOver(Event), OnePer(p), NEW f \in Event, NEW mu \in MutexIndex, NEW rw,
         \A x \in PendingIn(p) : x.tid # f.tid,
         MutexesRight(p, mu), Announceable(f, PendingIn(p), mu)
  PROVE  MutexesRight(AddTransition(p, mu, rw, f), mu)
<1> DEFINE q == AddTransition(p, mu, rw, f)
           P == PendingIn(p)
<1>1. PendingIn(q) = P \cup {f}
  BY AddTransitionSets
<1>2. q.enabled = p.enabled \cup {x \in {f} : StartsEnabled(P, mu, rw, x)}
  BY AddTransitionEnabled
<1>3. f \notin p.enabled
  BY DEF PendingIn
<1>4. f.type = "MUTEX_LOCK" => (StartsEnabled(P, mu, rw, f) <=> mu[f.obj] = Free)
  BY DEF StartsEnabled
<1>5. f.tid # Free /\ f.tid # Absent /\ Free # Absent
  BY DEF Event, Threads, Free, Absent
<1>6. MutexUse(P, mu) /\ LockExact(p, mu) /\ Announceable(f, P, mu)
  BY DEF MutexesRight
<1> HIDE DEF q, P
<1>7. LockExact(q, mu)
  BY <1>1, <1>2, <1>3, <1>4, <1>6 DEF LockExact, P
<1>8. MutexUse(PendingIn(q), mu)
  <2>1. ASSUME NEW x \in P PROVE
          /\ x.type = "MUTEX_INIT" => ~UsesMutex(f, x.obj)
          /\ x.type = "MUTEX_DESTROY" => ~UsesMutex(f, x.obj)
    BY <2>1, <1>5, <1>6 DEF MutexUse, Announceable, Usable, Unused, UsesMutex, MutexTypes
  <2> QED
    BY <1>1, <1>6, <2>1 DEF MutexUse, Announceable, Usable, Unused
<1> QED
  BY <1>7, <1>8 DEF MutexesRight, q

----------------------------------------------------------------------------
(* Owners and lock sets.                                                   *)

\* Owners are threads that exist.
OwnersKnown == \A m \in Mutexes : mutexes[m] < nthreads

\* A thread has a lock set from its start on, and starts without a mutex.
StartsUnlocked ==
  \A x \in Pending :
    /\ x.type = "THREAD_START" <=> locksets[x.tid] = NoLockset
    /\ x.type = "THREAD_START" => \A m \in Mutexes : mutexes[m] # x.tid

\* A thread to come has no lock set.
ComingUnlocked == \A t \in Threads : t >= nthreads => locksets[t] = NoLockset

\* The inductive invariant.
MutexInv ==
  /\ Inv
  /\ MutexesRight(Current, mutexes)
  /\ OwnersKnown
  /\ LocksetsAgree
  /\ StartsUnlocked
  /\ ComingUnlocked

\* The invariant holds of the first state.
LEMMA MutexInvInit == Init => MutexInv
<1> SUFFICES ASSUME Init PROVE MutexInv
  OBVIOUS
<1>1. Inv
  BY InvInit
<1>2. MutexesRight(Current, mutexes)
  BY DEF Init, MutexesRight, MutexUse, LockExact, Current, PendingIn, Start, Ev
<1>3. OwnersKnown
  BY DEF Init, OwnersKnown, Absent
<1>4. LocksetsAgree /\ StartsUnlocked /\ ComingUnlocked
  BY ConstantsAssumption DEF Init, LocksetsAgree, StartsUnlocked, ComingUnlocked, Pending, Start,
                             Ev, Threads, Absent
<1> QED
  BY <1>1, <1>2, <1>3, <1>4 DEF MutexInv

\* No assertion of the mutex and lock set tables fails for an enabled event.
LEMMA MutexAssertsHold ==
  ASSUME MutexInv, NEW e \in enabled
  PROVE  MutexAsserts(mutexes, locksets, e)
<1>1. e \in Pending /\ e \in Event /\ e.tid \in Threads
  BY DEF MutexInv, Inv, TypeOK, Pending, Event
<1>2. MutexUse(Pending, mutexes) /\ LockExact(Current, mutexes)
  BY CurrentSets DEF MutexInv, MutexesRight
<1>3. e.type \in MutexTypes => e.obj \in Mutexes
  BY <1>1 DEF Event
<1>4. e.type = "MUTEX_LOCK" => mutexes[e.obj] = Free
  BY <1>1, <1>2, CurrentSets DEF LockExact, MutexInv
<1>5. /\ e.type = "MUTEX_DESTROY" => mutexes[e.obj] = Free
      /\ e.type = "MUTEX_UNLOCK"  => mutexes[e.obj] = e.tid
  BY <1>1, <1>2 DEF MutexUse
<1>6. e.type # "THREAD_START" => locksets[e.tid] = {m \in Mutexes : mutexes[m] = e.tid}
  BY <1>1 DEF MutexInv, StartsUnlocked, LocksetsAgree
<1>7. e.type = "THREAD_START" <=> locksets[e.tid] = NoLockset
  BY <1>1 DEF MutexInv, StartsUnlocked
<1>8. e.tid # Free /\ e.tid # Absent /\ Free # Absent
  BY <1>1 DEF Threads, Free, Absent
<1> QED
  BY <1>3, <1>4, <1>5, <1>6, <1>7, <1>8 DEF MutexAsserts, MutexTypes

\* Executing e keeps owners and lock sets in agreement: execute_transition
\* changes both for the thread of e, and nothing for another thread.
LEMMA ExecutingLocksets ==
  ASSUME MutexInv, NEW e \in enabled
  PROVE  LET mu == ExecuteMutexes(mutexes, e)
             ls == ExecuteLocksets(locksets, e)
         IN  /\ \A m \in Mutexes : mu[m] < nthreads
             /\ \A t \in Threads : ls[t] # NoLockset => ls[t] = {m \in Mutexes : mu[m] = t}
             /\ e.type # "THREAD_END" => ls[e.tid] # NoLockset
             /\ \A t \in Threads \ {e.tid} :
                  /\ ls[t] = locksets[t]
                  /\ \A m \in Mutexes : mutexes[m] # t => mu[m] # t
<1> DEFINE mu == ExecuteMutexes(mutexes, e)
           ls == ExecuteLocksets(locksets, e)
<1>1. /\ e \in Pending /\ e \in Event /\ e.tid \in Threads /\ e.tid < nthreads
      /\ e.type \in MutexTypes => e.obj \in Mutexes
      /\ mutexes \in MutexIndex /\ locksets \in Locksets /\ nthreads \in Nat
  BY ConstantsAssumption DEF MutexInv, Inv, TypeOK, Pending, Event, ThreadsKnown
<1>2. MutexUse(Pending, mutexes) /\ LocksetsAgree /\ StartsUnlocked /\ OwnersKnown
  BY CurrentSets DEF MutexInv, MutexesRight
<1>3. MutexAsserts(mutexes, locksets, e)
  BY MutexAssertsHold
<1>4. e.tid # Free /\ e.tid # Absent /\ Free # Absent /\ Free < nthreads /\ Absent < nthreads
      /\ Free \notin Threads /\ Absent \notin Threads /\ NoId \notin Mutexes
  BY <1>1, ConstantsAssumption DEF Threads, Free, Absent, NoId
<1>5. \A m \in Mutexes :
         /\ m # e.obj \/ e.type \notin MutexTypes => mu[m] = mutexes[m]
         /\ m = e.obj /\ e.type = "MUTEX_INIT" /\ mutexes[m] = Absent => mu[m] = Free
         /\ m = e.obj /\ e.type = "MUTEX_DESTROY" => mu[m] = Absent
         /\ m = e.obj /\ e.type = "MUTEX_LOCK"    => mu[m] = e.tid
         /\ m = e.obj /\ e.type = "MUTEX_UNLOCK"  => mu[m] = Free
  BY <1>1, ExecuteMutexesAt
<1>6. /\ e.type = "MUTEX_INIT"    => mutexes[e.obj] = Absent
      /\ e.type = "MUTEX_DESTROY" => mutexes[e.obj] = Free
      /\ e.type = "MUTEX_UNLOCK"  => mutexes[e.obj] = e.tid
  BY <1>1, <1>2 DEF MutexUse
<1>7. e.type = "MUTEX_LOCK" => mutexes[e.obj] = Free
  BY <1>3 DEF MutexAsserts
<1>8. e.type = "THREAD_START" => \A m \in Mutexes : mutexes[m] # e.tid
  BY <1>1, <1>2 DEF StartsUnlocked
<1>9. e.type # "THREAD_START" => locksets[e.tid] = {m \in Mutexes : mutexes[m] = e.tid}
  BY <1>1, <1>2 DEF LocksetsAgree, StartsUnlocked
<1> HIDE DEF mu
<1>10. /\ \A t \in Threads \ {e.tid} : ls[t] = locksets[t]
       /\ ls[e.tid] = CASE e.type = "THREAD_START" -> {}
                        [] e.type = "THREAD_END"   -> NoLockset
                        [] e.type = "MUTEX_LOCK"   -> locksets[e.tid] \cup {e.obj}
                        [] e.type = "MUTEX_UNLOCK" -> locksets[e.tid] \ {e.obj}
                        [] OTHER                   -> locksets[e.tid]
  BY <1>1 DEF ExecuteLocksets, Locksets
<1> HIDE DEF ls
<1>11. \A m \in Mutexes : mu[m] < nthreads
  BY <1>1, <1>2, <1>4, <1>5, <1>6 DEF OwnersKnown, MutexTypes
<1>12. \A t \in Threads \ {e.tid} : \A m \in Mutexes : mutexes[m] = t <=> mu[m] = t
  BY <1>1, <1>4, <1>5, <1>6, <1>7 DEF MutexTypes
<1>13. \A t \in Threads \ {e.tid} :
          ls[t] # NoLockset => ls[t] = {m \in Mutexes : mu[m] = t}
  BY <1>2, <1>10, <1>12 DEF LocksetsAgree
<1>14. e.type # "THREAD_END" => ls[e.tid] = {m \in Mutexes : mu[m] = e.tid}
  <2>1. CASE e.type = "MUTEX_LOCK"
    BY <2>1, <1>1, <1>4, <1>5, <1>9, <1>10 DEF MutexTypes
  <2>2. CASE e.type = "MUTEX_UNLOCK"
    BY <2>2, <1>1, <1>4, <1>5, <1>9, <1>10 DEF MutexTypes
  <2>3. CASE e.type \in {"MUTEX_INIT", "MUTEX_DESTROY"}
    BY <2>3, <1>1, <1>4, <1>5, <1>6, <1>9, <1>10 DEF MutexTypes
  <2>4. CASE e.type \notin MutexTypes
    BY <2>4, <1>1, <1>4, <1>5, <1>8, <1>9, <1>10 DEF MutexTypes
  <2> QED
    BY <2>1, <2>2, <2>3, <2>4 DEF MutexTypes
<1>15. e.type # "THREAD_END" => ls[e.tid] # NoLockset
  BY <1>4, <1>14 DEF NoLockset
<1>16. e.type = "THREAD_END" => ls[e.tid] = NoLockset
  BY <1>10
<1> QED
  BY <1>10, <1>11, <1>12, <1>13, <1>14, <1>15, <1>16 DEF mu, ls

----------------------------------------------------------------------------
(* The actions.                                                            *)

\* What executing e does to the mutexes, before any event is added.
LEMMA ExecutedMutexes ==
  ASSUME MutexInv, NEW e \in enabled, NEW explored,
         CanExecute(e, explored), Execute(e, explored)
  PROVE  /\ MutexesRight(After(e), mutexes') /\ mutexes' \in MutexIndex
         /\ e.type \in {"MUTEX_UNLOCK", "COND_WAIT"}
              => Usable(Pending \ {e}, mutexes', e.obj)
         /\ After(e) \in PairsOver(Event) /\ OnePer(After(e))
         /\ PendingIn(After(e)) = Pending \ {e}
         /\ MutexUse(Pending \ {e}, mutexes')
<1>1. Inv /\ MutexesRight(Current, mutexes) /\ mutexes \in MutexIndex
  BY DEF MutexInv, Inv, TypeOK
<1>2. mutexes' = ExecuteMutexes(mutexes, e)
  BY DEF Execute
<1>3. mutexes' \in MutexIndex
  BY <1>1, Executing DEF MutexIndex
<1>4. After(e) = AfterExecuting(Current, e)
  BY <1>1, CurrentSets
<1>5. /\ After(e) \in PairsOver(Event) /\ OnePer(After(e))
      /\ PendingIn(After(e)) = Pending \ {e}
  BY <1>1, Executing
<1>6. /\ MutexesRight(After(e), mutexes')
      /\ e.type \in {"MUTEX_UNLOCK", "COND_WAIT"}
           => Usable(PendingIn(After(e)), mutexes', e.obj)
  BY <1>1, <1>2, <1>4, CurrentSets, ExecutingMutexes
<1> QED
  BY <1>3, <1>5, <1>6 DEF MutexesRight

\* Events of other threads than e's keep to StartsUnlocked.
LEMMA OthersStartUnlocked ==
  ASSUME MutexInv, NEW e \in enabled, NEW x \in Pending, x.tid # e.tid,
         mutexes' = ExecuteMutexes(mutexes, e), locksets' = ExecuteLocksets(locksets, e)
  PROVE  /\ x.type = "THREAD_START" <=> locksets'[x.tid] = NoLockset
         /\ x.type = "THREAD_START" => \A m \in Mutexes : mutexes'[m] # x.tid
<1>1. x.tid \in Threads \ {e.tid}
  BY CurrentSets DEF MutexInv, Event
<1>2. /\ x.type = "THREAD_START" <=> locksets[x.tid] = NoLockset
      /\ x.type = "THREAD_START" => \A m \in Mutexes : mutexes[m] # x.tid
  BY DEF MutexInv, StartsUnlocked
<1> QED
  BY <1>1, <1>2, ExecutingLocksets

\* Executing e gives no lock set to a thread to come.
LEMMA ComingStayUnlocked ==
  ASSUME MutexInv, NEW e \in enabled, locksets' = ExecuteLocksets(locksets, e),
         NEW t \in Threads, t >= nthreads
  PROVE  locksets'[t] = NoLockset
<1>1. e.tid \in Threads /\ e.tid < nthreads /\ nthreads \in Nat
  BY ConstantsAssumption DEF MutexInv, Inv, TypeOK, ThreadsKnown, Pending, Event
<1>2. t # e.tid
  BY <1>1 DEF Threads
<1> QED
  BY <1>2, ExecutingLocksets DEF MutexInv, ComingUnlocked

\* An event after which its thread goes on keeps it.
LEMMA ExecuteEventMutexInv ==
  ASSUME MutexInv, NEW e \in enabled, NEW explored, ExecuteEvent(e, explored)
  PROVE  MutexInv'
<1>1. /\ CanExecute(e, explored) /\ Execute(e, explored) /\ nthreads' = nthreads
      /\ e.type # "THREAD_END"
  BY DEF ExecuteEvent
<1>2. Inv /\ Inv' /\ nthreads \in 1 .. MaxThreads /\ e \in Event
  BY ExecuteEventInv DEF MutexInv, Inv, TypeOK
<1>3. PICK next \in NextEvents(e, Pending \ {e}, mutexes', rwlocks', nthreads) :
        /\ next \in Event /\ next.tid = e.tid
        /\ \A x \in PendingIn(After(e)) : x.tid # next.tid
        /\ Current' = Added(After(e), next)
        /\ Pending' = (Pending \ {e}) \cup {next}
  BY <1>2, EventStep
<1>4. Announceable(next, Pending \ {e}, mutexes') /\ next.type # "THREAD_START"
  <2>1. /\ MutexUse(Pending \ {e}, mutexes')
        /\ e.type \in {"MUTEX_UNLOCK", "COND_WAIT"}
             => Usable(Pending \ {e}, mutexes', e.obj)
    BY <1>1, ExecutedMutexes
  <2> QED
    BY <1>2, <1>3, <2>1, NextAnnounceable
<1>5. MutexesRight(Current', mutexes')
  BY <1>1, <1>3, <1>4, ExecutedMutexes, AddingMutexes DEF Added
<1>6. mutexes' = ExecuteMutexes(mutexes, e) /\ locksets' = ExecuteLocksets(locksets, e)
  BY DEF ExecuteEvent, Execute
<1>7. OwnersKnown' /\ LocksetsAgree'
  BY <1>1, <1>6, ExecutingLocksets DEF OwnersKnown, LocksetsAgree
<1>8. StartsUnlocked'
  <2>1. locksets'[next.tid] # NoLockset
    BY <1>1, <1>3, <1>6, ExecutingLocksets
  <2>2. \A x \in Pending \ {e} : x.tid # e.tid
    BY <1>2 DEF Inv, OnePending, Pending
  <2> QED
    BY <1>3, <1>4, <1>6, <2>1, <2>2, OthersStartUnlocked DEF StartsUnlocked
<1>9. ComingUnlocked'
  BY <1>1, <1>6, ComingStayUnlocked DEF ComingUnlocked
<1> QED
  BY <1>2, <1>5, <1>7, <1>8, <1>9 DEF MutexInv

\* The end of a thread keeps it.
LEMMA ExecuteEndMutexInv ==
  ASSUME MutexInv, NEW e \in enabled, NEW explored, ExecuteEnd(e, explored)
  PROVE  MutexInv'
<1>1. CanExecute(e, explored) /\ Execute(e, explored) /\ nthreads' = nthreads
  BY DEF ExecuteEnd
<1>2. Inv /\ Inv'
  BY ExecuteEndInv DEF MutexInv
<1>3. Current' = After(e) /\ Pending' = Pending \ {e}
  BY <1>2, EndStep
<1>4. MutexesRight(Current', mutexes')
  BY <1>1, <1>3, ExecutedMutexes
<1>5. mutexes' = ExecuteMutexes(mutexes, e) /\ locksets' = ExecuteLocksets(locksets, e)
  BY DEF ExecuteEnd, Execute
<1>6. OwnersKnown' /\ LocksetsAgree'
  BY <1>1, <1>5, ExecutingLocksets DEF OwnersKnown, LocksetsAgree
<1>7. StartsUnlocked'
  <2>1. \A x \in Pending \ {e} : x.tid # e.tid
    BY <1>2 DEF Inv, OnePending, Pending
  <2> QED
    BY <1>3, <1>5, <2>1, OthersStartUnlocked DEF StartsUnlocked
<1>8. ComingUnlocked'
  BY <1>1, <1>5, ComingStayUnlocked DEF ComingUnlocked
<1> QED
  BY <1>2, <1>4, <1>6, <1>7, <1>8 DEF MutexInv

\* The creation of a thread keeps it: two events are announced, one after the
\* other.
LEMMA ExecuteCreateMutexInv ==
  ASSUME MutexInv, NEW e \in enabled, NEW explored, ExecuteCreate(e, explored)
  PROVE  MutexInv'
<1>1. /\ CanExecute(e, explored) /\ Execute(e, explored)
      /\ e.type = "THREAD_PRE_CREATE"
  BY DEF ExecuteCreate
<1>2. Inv /\ Inv' /\ e \in Event
  BY ExecuteCreateInv DEF MutexInv, Inv, TypeOK
<1>3. /\ nthreads \in Threads /\ nthreads' = nthreads + 1
      /\ nthreads' \in 1 .. MaxThreads
      /\ \A x \in Pending : x.tid # nthreads
  BY <1>2, CreateStep
<1>4. PICK first \in Event, next \in Event : Creation(e, first, next)
  BY <1>2, CreateStep
<1> DEFINE p == Added(After(e), first)
<1>5. Announceable(first, Pending \ {e}, mutexes') /\ first.type # "THREAD_START"
  BY <1>1, <1>3, <1>4, ExecutedMutexes, LegalAnnounceable DEF Creation, FirstEvents
<1>6. /\ MutexesRight(p, mutexes')
      /\ MutexUse((Pending \ {e}) \cup {first}, mutexes')
  <2>1. \A x \in Pending \ {e} : x.tid # first.tid
    BY <1>3, <1>4 DEF Creation
  <2>2. MutexesRight(p, mutexes')
    BY <1>1, <1>5, <2>1, ExecutedMutexes, AddingMutexes DEF Added
  <2> QED
    BY <1>4, <2>2 DEF MutexesRight, Creation
<1>7. Announceable(next, (Pending \ {e}) \cup {first}, mutexes')
      /\ next.type # "THREAD_START"
  BY <1>1, <1>2, <1>3, <1>4, <1>6, NextAnnounceable DEF Creation
<1>8. MutexesRight(Current', mutexes')
  <2>1. /\ p \in PairsOver(Event) /\ OnePer(p)
        /\ PendingIn(p) = (Pending \ {e}) \cup {first}
        /\ \A x \in PendingIn(p) : x.tid # next.tid
        /\ Current' = Added(p, next)
    BY <1>4 DEF Creation
  <2>2. mutexes' \in MutexIndex
    BY <1>1, ExecutedMutexes
  <2> HIDE DEF p
  <2> QED
    BY <1>6, <1>7, <2>1, <2>2, AddingMutexes DEF Added
<1>9. mutexes' = mutexes /\ locksets' = [locksets EXCEPT ![nthreads] = {}]
  BY <1>1 DEF ExecuteCreate, Execute, ExecuteMutexes, ExecuteLocksets, Start, Ev
<1>10. \A m \in Mutexes : mutexes[m] # nthreads /\ mutexes[m] < nthreads + 1
  BY <1>2, <1>3 DEF MutexInv, OwnersKnown, Inv, TypeOK, MutexIndex, Threads, Free, Absent
<1>11. OwnersKnown'
  BY <1>3, <1>9, <1>10 DEF OwnersKnown
<1>12. /\ locksets'[nthreads] = {}
       /\ \A t \in Threads \ {nthreads} : locksets'[t] = locksets[t]
  BY <1>2, <1>3, <1>9 DEF Inv, TypeOK, Locksets
<1>13. LocksetsAgree'
  BY <1>9, <1>10, <1>12 DEF LocksetsAgree, MutexInv
<1>14. StartsUnlocked'
  <2>1. \A x \in Pending : x.tid \in Threads \ {nthreads}
    BY <1>2, <1>3, CurrentSets DEF Event
  <2>2. \A x \in Pending : /\ x.type = "THREAD_START" <=> locksets'[x.tid] = NoLockset
                           /\ x.type = "THREAD_START" => \A m \in Mutexes : mutexes'[m] # x.tid
    BY <1>9, <1>12, <2>1 DEF MutexInv, StartsUnlocked
  <2>3. locksets'[e.tid] # NoLockset
    BY <1>1, <2>2 DEF Pending
  <2>4. locksets'[nthreads] # NoLockset
    BY <1>12 DEF NoLockset
  <2> QED
    BY <1>4, <1>5, <1>7, <2>2, <2>3, <2>4 DEF StartsUnlocked, Creation
<1>15. ComingUnlocked'
  <2>1. ASSUME NEW t \in Threads, t >= nthreads + 1
        PROVE  t # nthreads /\ t >= nthreads
    BY <1>3, <2>1 DEF Threads
  <2> QED
    BY <1>3, <1>12, <2>1 DEF MutexInv, ComingUnlocked
<1> QED
  BY <1>2, <1>8, <1>11, <1>13, <1>14, <1>15 DEF MutexInv

\* Every step keeps it.
LEMMA MutexInvNext == MutexInv /\ [Next]_vars => MutexInv'
<1> SUFFICES ASSUME MutexInv, [Next]_vars PROVE MutexInv'
  OBVIOUS
<1>1. ASSUME NEW e \in enabled, NEW explored, ExecuteEvent(e, explored) PROVE MutexInv'
  BY <1>1, ExecuteEventMutexInv
<1>2. ASSUME NEW e \in enabled, NEW explored, ExecuteEnd(e, explored) PROVE MutexInv'
  BY <1>2, ExecuteEndMutexInv
<1>3. ASSUME NEW e \in enabled, NEW explored, ExecuteCreate(e, explored) PROVE MutexInv'
  BY <1>3, ExecuteCreateMutexInv
<1>4. CASE UNCHANGED <<enabled, disabled, mutexes, locksets, nthreads>>
  <2>1. Inv'
    BY InvNext DEF MutexInv
  <2>2. Current' = Current /\ Pending' = Pending
    BY <1>4 DEF Current, Pending
  <2> QED
    BY <1>4, <2>1, <2>2
       DEF MutexInv, OwnersKnown, LocksetsAgree, StartsUnlocked, ComingUnlocked
<1>5. ASSUME NEW e \in enabled, Abort(e) PROVE MutexInv'
  BY <1>4, <1>5 DEF Abort
<1>6. CASE UNCHANGED vars
  BY <1>4, <1>6 DEF vars
<1> QED
  BY <1>1, <1>2, <1>3, <1>5, <1>6 DEF Next

\* It always holds.
LEMMA MutexInvAlways == Spec => []MutexInv
BY MutexInvInit, MutexInvNext, PTL DEF Spec

----------------------------------------------------------------------------
(* Theorems.                                                               *)

\* A pending acquisition is enabled exactly while its mutex is free, although
\* can_disable, can_enable and add_transition each look at one event only.
THEOREM LockEnabledExactlyHolds == Spec => []LockEnabledExactly
<1>1. MutexInv => LockEnabledExactly
  BY CurrentSets DEF MutexInv, MutexesRight, LockExact, LockEnabledExactly
<1> QED
  BY <1>1, MutexInvAlways, PTL

\* The lock sets agree with the owners of the mutexes.
THEOREM LocksetsAgreeHolds == Spec => []LocksetsAgree
BY MutexInvAlways, PTL DEF MutexInv

\* What may be announced is in its table when add_transition looks there.
LEMMA AddAssertsHold ==
  ASSUME MutexInv, NEW e \in enabled, e.type = "THREAD_PRE_CREATE" => nthreads < MaxThreads,
         NEW x \in MayBeAdded(e)
  PROVE  AddAsserts(ExecuteMutexes(mutexes, e), ExecuteRwlocks(rwlocks, e), x)
<1> DEFINE P  == PendingIn(After(e))
           mu == ExecuteMutexes(mutexes, e)
           rw == ExecuteRwlocks(rwlocks, e)
           firsts == FirstEvents(nthreads, e.tid, P, mu, rw, nthreads + 1)
<1>1. /\ Inv /\ e \in Event /\ e.tid \in Threads /\ nthreads \in 1 .. MaxThreads
      /\ mutexes \in MutexIndex /\ MutexesRight(Current, mutexes)
  BY DEF MutexInv, Inv, TypeOK, Event
<1>2. /\ Current \in PairsOver(Event) /\ OnePer(Current) /\ e \in Current.enabled
      /\ After(e) = AfterExecuting(Current, e)
  BY <1>1, CurrentSets
<1>3. /\ MutexesRight(After(e), mu)
      /\ e.type \in {"MUTEX_UNLOCK", "COND_WAIT"} => Usable(P, mu, e.obj)
  BY <1>1, <1>2, ExecutingMutexes
<1>4. mu \in MutexIndex
  BY <1>1, ExecuteMutexesType DEF MutexIndex
<1>5. /\ After(e) \in PairsOver(Event) /\ OnePer(After(e))
      /\ P = Pending \ {e}
  BY <1>1, <1>2, CurrentSets, AfterExecutingSets
<1> HIDE DEF P, mu, rw
<1>6. MutexUse(P, mu)
  BY <1>3 DEF MutexesRight, P
<1>7. ASSUME NEW Q, NEW n \in 1 .. MaxThreads, MutexUse(Q, mu),
             e.type \in {"MUTEX_UNLOCK", "COND_WAIT"} => Usable(Q, mu, e.obj),
             x \in NextEvents(e, Q, mu, rw, n)
      PROVE  AddAsserts(mu, rw, x)
  <2>1. Announceable(x, Q, mu)
    BY <1>1, <1>7, NextAnnounceable
  <2>2. x.type = "MUTEX_LOCK" => mu[x.obj] # Absent
    BY <2>1 DEF Announceable, Usable
  <2>3. x.type \in {"RWLOCK_RDLOCK", "RWLOCK_WRLOCK"} => rw[x.obj] # RwAbsent
    BY <1>7, LegalRwlocks, NextRwlocks
  <2> QED
    BY <2>2, <2>3 DEF AddAsserts
<1>8. CASE e.type \notin {"THREAD_END", "THREAD_PRE_CREATE"}
  BY <1>1, <1>3, <1>6, <1>7, <1>8 DEF MayBeAdded, P, mu, rw
<1>9. CASE e.type = "THREAD_PRE_CREATE"
  <2>1. nthreads \in Threads /\ nthreads + 1 \in 1 .. MaxThreads
    BY <1>1, <1>9, ConstantsAssumption DEF Threads
  <2>2. ASSUME NEW f \in firsts
        PROVE  /\ AddAsserts(mu, rw, f)
               /\ MutexUse(P \cup {f}, mu)
    <3>1. f \in Legal(nthreads, P, mu, rw, nthreads + 1)
      BY DEF FirstEvents
    <3>2. Announceable(f, P, mu) /\ f.tid = nthreads
      BY <1>6, <2>1, <3>1, LegalAnnounceable
    <3>3. f \in Event
      BY <2>1, <3>1, LegalEvents
    <3>4. \A y \in PendingIn(After(e)) : y.tid # f.tid
      BY <1>1, <1>5, <3>2, <2>1, CurrentSets DEF P, Inv, ThreadsKnown, Event, Threads
    <3>5. MutexesRight(AddTransition(After(e), mu, rw, f), mu)
      BY <1>3, <1>4, <1>5, <3>2, <3>3, <3>4, AddingMutexes DEF P
    <3>6. PendingIn(AddTransition(After(e), mu, rw, f)) = P \cup {f}
      BY <1>5, <3>3, <3>4, AddTransitionSets DEF P
    <3>7. MutexUse(P \cup {f}, mu)
      BY <3>5, <3>6 DEF MutexesRight
    <3>8. f.type = "MUTEX_LOCK" => mu[f.obj] # Absent
      BY <3>2 DEF Announceable, Usable
    <3>9. f.type \in {"RWLOCK_RDLOCK", "RWLOCK_WRLOCK"} => rw[f.obj] # RwAbsent
      BY <3>1, LegalRwlocks
    <3> QED
      BY <3>7, <3>8, <3>9 DEF AddAsserts
  <2>3. \/ x \in firsts
        \/ \E f \in firsts : x \in NextEvents(e, P \cup {f}, mu, rw, nthreads + 1)
    BY <1>9 DEF MayBeAdded, P, mu, rw
  <2> QED
    BY <1>7, <1>9, <2>1, <2>2, <2>3 DEF mu, rw
<1>10. CASE e.type = "THREAD_END"
  BY <1>10 DEF MayBeAdded
<1> QED
  BY <1>8, <1>9, <1>10

\* Of all assertions a step may run into, only those of execute_transition about
\* read-write locks may fail.
LEMMA OnlyRwlocksFail ==
  ASSUME MutexInv, NEW e \in enabled, MayFail(e)
  PROVE  ~RwlockAsserts(rwlocks, e)
<1>1. MutexAsserts(mutexes, locksets, e)
  BY MutexAssertsHold
<1>2. ASSUME e.type = "THREAD_PRE_CREATE", nthreads < MaxThreads
      PROVE  ExecuteAsserts(mutexes, rwlocks, locksets, Start(nthreads))
  <2>1. nthreads \in Threads
    BY <1>2, ConstantsAssumption DEF MutexInv, Inv, TypeOK, Threads
  <2>2. locksets[nthreads] = NoLockset
    BY <2>1 DEF MutexInv, ComingUnlocked, Threads
  <2> QED
    BY <2>2 DEF ExecuteAsserts, RwlockAsserts, MutexAsserts, Start, Ev
<1>3. ASSUME e.type = "THREAD_PRE_CREATE" => nthreads < MaxThreads, NEW x \in MayBeAdded(e)
      PROVE  AddAsserts(ExecuteMutexes(mutexes, e), ExecuteRwlocks(rwlocks, e), x)
  BY <1>3, AddAssertsHold
<1> QED
  BY <1>1, <1>2, <1>3 DEF MayFail, ExecuteAsserts

\* The only assertions that can fail are those of execute_transition about
\* read-write locks.
OnlyRwlocksAbort ==
  [][~aborted /\ aborted' => \E e \in enabled : /\ e.type \in RwlockTypes
                                                /\ ~RwlockAsserts(rwlocks, e)]_vars

\* No step makes an assertion of the mutex or lock set tables fail.
THEOREM OnlyRwlocksAbortHolds == Spec => OnlyRwlocksAbort
<1> DEFINE A == ~aborted /\ aborted' => \E e \in enabled : /\ e.type \in RwlockTypes
                                                           /\ ~RwlockAsserts(rwlocks, e)
<1>1. MutexInv /\ Next => A
  <2> SUFFICES ASSUME MutexInv, Next, ~aborted, aborted'
               PROVE  \E e \in enabled : /\ e.type \in RwlockTypes
                                         /\ ~RwlockAsserts(rwlocks, e)
    OBVIOUS
  <2>1. PICK e \in enabled : Abort(e)
    BY DEF Next, ExecuteEvent, ExecuteEnd, ExecuteCreate, Execute
  <2>2. ~RwlockAsserts(rwlocks, e)
    BY <2>1, OnlyRwlocksFail DEF Abort
  <2>3. e.type \in RwlockTypes
    BY <2>2 DEF RwlockAsserts, RwlockTypes
  <2> QED
    BY <2>2, <2>3
<1>2. MutexInv /\ [Next]_vars => [A]_vars
  BY <1>1
<1> QED
  BY <1>2, MutexInvAlways, PTL DEF Spec, OnlyRwlocksAbort

\* A program without read-write locks never makes an assertion of the
\* scheduler's tables fail.
THEOREM NoAbortHolds == Rwlocks = {} => (Spec => []NoAbort)
<1> SUFFICES ASSUME Rwlocks = {} PROVE Spec => []NoAbort
  OBVIOUS
<1>1. Init => NoAbort
  BY DEF Init, NoAbort
<1>2. MutexInv /\ NoAbort /\ [Next]_vars => NoAbort'
  <2> SUFFICES ASSUME MutexInv, NoAbort, [Next]_vars PROVE NoAbort'
    OBVIOUS
  <2>1. ASSUME NEW e \in enabled PROVE ~Abort(e)
    <3>1. e.type \notin RwlockTypes
      BY DEF MutexInv, Inv, TypeOK, Event
    <3>2. RwlockAsserts(rwlocks, e)
      BY <3>1 DEF RwlockAsserts, RwlockTypes
    <3> QED
      BY <3>2, OnlyRwlocksFail DEF Abort
  <2> QED
    BY <2>1 DEF Next, NoAbort, vars, ExecuteEvent, ExecuteEnd, ExecuteCreate, Execute
<1> QED
  BY <1>1, <1>2, MutexInvAlways, PTL DEF Spec

----------------------------------------------------------------------------
(* Independent events commute.                                             *)

\* The events that e and next, which may follow it, leave pending for their
\* thread.
Left(e, next) == {z \in {next} : e.type # "THREAD_END"}

\* The pending event z, no acquisition of a mutex, is enabled once e has been
\* executed in p.
StaysOrWakes(p, e, z) ==
  \/ z \in p.enabled
  \/ z.type = "THREAD_JOIN" /\ e.type = "THREAD_END" /\ z.aux = e.tid
  \/ z \in WokenWaiters(p.disabled, e)

\* The pair p once e has been executed and next has been announced.
Stepped(p, mu, rw, e, next) ==
  LET q == AfterExecuting(p, e)
  IN  IF e.type = "THREAD_END" THEN q ELSE AddTransition(q, ExecuteMutexes(mu, e), rw, next)

\* Which events are enabled then, and that mutexes are still used correctly if
\* next keeps to MutexUse.
StepRight(p, mu, rw, e, next) ==
  LET new == ExecuteMutexes(mu, e)
      q   == Stepped(p, mu, rw, e, next)
      P   == PendingIn(p) \ {e}
  IN  /\ q \in PairsOver(Event) /\ OnePer(q) /\ PendingIn(q) = P \cup Left(e, next)
      /\ new \in MutexIndex
      /\ \A z \in P : IF z.type = "MUTEX_LOCK" THEN z \in q.enabled <=> new[z.obj] = Free
                                               ELSE z \in q.enabled <=> StaysOrWakes(p, e, z)
      /\ \A z \in Left(e, next) : z \in q.enabled <=> StartsEnabled(P, new, rw, z)
      /\ (\A z \in Left(e, next) : Announceable(z, P, new)) => MutexesRight(q, new)

\* Every event but those of read-write locks does this.
LEMMA ExecutedOne ==
  ASSUME NEW p \in PairsOver(Event), OnePer(p), NEW e \in p.enabled, e.type \notin RwlockTypes,
         NEW mu \in MutexIndex, MutexesRight(p, mu), NEW rw, NEW next,
         e.type # "THREAD_END" => next \in Event /\ next.tid = e.tid
  PROVE  StepRight(p, mu, rw, e, next)
<1> DEFINE new == ExecuteMutexes(mu, e)
           r   == AfterExecuting(p, e)
           a   == AddTransition(r, new, rw, next)
           q   == Stepped(p, mu, rw, e, next)
           P   == PendingIn(p) \ {e}
<1>0. q = IF e.type = "THREAD_END" THEN r ELSE a
  BY DEF Stepped
<1> HIDE DEF q
<1>1. /\ r \in PairsOver(Event) /\ OnePer(r) /\ PendingIn(r) = P
      /\ \A z \in P : z.tid # e.tid
  BY AfterExecutingSets
<1>2. r.enabled = {z \in p.enabled \ {e} : ~CanDisable(e, z)} \cup ToBeEnabled(p.disabled, e)
  BY AfterExecutingEnabled
<1>3. MutexesRight(r, new)
  BY ExecutingMutexes
<1>4. new \in MutexIndex
  <2>1. e \in Event
    BY DEF PairsOver
  <2> QED
    BY <2>1, ExecuteMutexesType DEF MutexIndex
<1>5. e.type # "THREAD_END" =>
        /\ a \in PairsOver(Event) /\ OnePer(a) /\ PendingIn(a) = P \cup {next}
        /\ a.enabled = r.enabled \cup {x \in {next} : StartsEnabled(P, new, rw, x)}
        /\ Announceable(next, P, new) => MutexesRight(a, new)
  <2> SUFFICES ASSUME e.type # "THREAD_END"
               PROVE  /\ a \in PairsOver(Event) /\ OnePer(a) /\ PendingIn(a) = P \cup {next}
                      /\ a.enabled = r.enabled \cup {x \in {next} : StartsEnabled(P, new, rw, x)}
                      /\ Announceable(next, P, new) => MutexesRight(a, new)
    OBVIOUS
  <2> HIDE DEF r, new, P
  <2>1. next \in Event /\ \A x \in PendingIn(r) : x.tid # next.tid
    BY <1>1
  <2> QED
    BY <1>1, <1>3, <1>4, <2>1, AddTransitionSets, AddTransitionEnabled, AddingMutexes
<1>6. ASSUME NEW z \in P
      PROVE  IF z.type = "MUTEX_LOCK" THEN z \in r.enabled <=> new[z.obj] = Free
                                      ELSE z \in r.enabled <=> StaysOrWakes(p, e, z)
  <2>1. z.type = "MUTEX_LOCK" => (z \in r.enabled <=> new[z.obj] = Free)
    BY <1>1, <1>3 DEF MutexesRight, LockExact
  <2>2. CASE z.type # "MUTEX_LOCK"
    <3>1. ~CanDisable(e, z) /\ z.tid # e.tid /\ z # e
      BY <1>1, <2>2 DEF CanDisable, RwlockTypes
    <3>2. z \in p.disabled => (z \in ToBeEnabled(p.disabled, e)
            <=> \/ z.type = "THREAD_JOIN" /\ e.type = "THREAD_END" /\ z.aux = e.tid
                \/ z \in WokenWaiters(p.disabled, e))
      BY <2>2, <3>1 DEF ToBeEnabled, CanEnable, WokenLockers, RwlockTypes
    <3>3. /\ ToBeEnabled(p.disabled, e) \subseteq p.disabled
          /\ WokenWaiters(p.disabled, e) \subseteq p.disabled
      BY DEF ToBeEnabled, WokenWaiters, WokenLockers
    <3>4. z \in p.enabled \/ z \in p.disabled
      BY DEF PendingIn
    <3> HIDE DEF r
    <3> QED
      BY <1>2, <2>2, <3>1, <3>2, <3>3, <3>4 DEF StaysOrWakes
  <2> QED
    BY <2>1, <2>2
<1>7. ASSUME NEW z \in P PROVE z \in q.enabled <=> z \in r.enabled
  BY <1>0, <1>1, <1>5
<1>8. ASSUME NEW z \in Left(e, next)
      PROVE  z \in q.enabled <=> StartsEnabled(P, new, rw, z)
  <2>1. z = next /\ e.type # "THREAD_END" /\ z \notin r.enabled
    <3>1. z = next /\ e.type # "THREAD_END"
      BY DEF Left
    <3> QED
      BY <1>1, <3>1 DEF PendingIn
  <2> QED
    BY <1>0, <1>5, <2>1
<1>9. q \in PairsOver(Event) /\ OnePer(q) /\ PendingIn(q) = P \cup Left(e, next)
  BY <1>0, <1>1, <1>5 DEF Left
<1>10. (\A z \in Left(e, next) : Announceable(z, P, new)) => MutexesRight(q, new)
  BY <1>0, <1>3, <1>5 DEF Left
<1> HIDE DEF r, new, P, a
<1>11. ASSUME NEW z \in P
       PROVE  IF z.type = "MUTEX_LOCK" THEN z \in q.enabled <=> new[z.obj] = Free
                                       ELSE z \in q.enabled <=> StaysOrWakes(p, e, z)
  BY <1>6, <1>7
<1> QED
  BY <1>4, <1>8, <1>9, <1>10, <1>11 DEF StepRight, q, new, P

\* A table with an entry per thread, of whatever type.
PerThread(ls) == ls = [t \in Threads |-> ls[t]]

\* What the event e makes of the lock set S of its thread.
NewLockset(S, e) ==
  CASE e.type = "THREAD_START" -> {}
    [] e.type = "THREAD_END"   -> NoLockset
    [] e.type = "MUTEX_LOCK"   -> S \cup {e.obj}
    [] e.type = "MUTEX_UNLOCK" -> S \ {e.obj}
    [] OTHER                   -> S

\* An event changes the lock set of its thread only, to one that depends on
\* that lock set alone.
LEMMA ExecuteLocksetsAt ==
  ASSUME NEW ls, PerThread(ls), NEW e, e.tid \in Threads
  PROVE  /\ PerThread(ExecuteLocksets(ls, e))
         /\ \A t \in Threads \ {e.tid} : ExecuteLocksets(ls, e)[t] = ls[t]
         /\ ExecuteLocksets(ls, e)[e.tid] = NewLockset(ls[e.tid], e)
<1> USE DEF PerThread, NewLockset
<1>1. CASE e.type = "THREAD_START"
  BY <1>1 DEF ExecuteLocksets
<1>2. CASE e.type = "THREAD_END"
  BY <1>2 DEF ExecuteLocksets
<1>3. CASE e.type = "MUTEX_LOCK"
  BY <1>3 DEF ExecuteLocksets
<1>4. CASE e.type = "MUTEX_UNLOCK"
  BY <1>4 DEF ExecuteLocksets
<1>5. CASE e.type \notin {"THREAD_START", "THREAD_END", "MUTEX_LOCK", "MUTEX_UNLOCK"}
  BY <1>5 DEF ExecuteLocksets
<1> QED
  BY <1>1, <1>2, <1>3, <1>4, <1>5

\* Two enabled events of different threads use one mutex only if both acquire
\* it, and then they are dependent; each changes the lock set of its thread.
LEMMA TablesCommute ==
  ASSUME MutexInv, NEW x \in enabled, NEW y \in enabled, x.tid # y.tid, ~Dependent(x, y)
  PROVE  /\ ExecuteMutexes(ExecuteMutexes(mutexes, x), y)
              = ExecuteMutexes(ExecuteMutexes(mutexes, y), x)
         /\ ExecuteLocksets(ExecuteLocksets(locksets, x), y)
              = ExecuteLocksets(ExecuteLocksets(locksets, y), x)
<1> DEFINE mx == ExecuteMutexes(mutexes, x)
           my == ExecuteMutexes(mutexes, y)
           mxy == ExecuteMutexes(mx, y)
           myx == ExecuteMutexes(my, x)
           lx == ExecuteLocksets(locksets, x)
           ly == ExecuteLocksets(locksets, y)
           lxy == ExecuteLocksets(lx, y)
           lyx == ExecuteLocksets(ly, x)
<1>1. /\ x \in Event /\ y \in Event /\ x \in Pending /\ y \in Pending
      /\ mutexes \in MutexIndex /\ x.tid \in Threads /\ y.tid \in Threads
  BY DEF MutexInv, Inv, TypeOK, Pending, Event
<1>2. MutexUse(Pending, mutexes) /\ LockExact(Current, mutexes)
  BY CurrentSets DEF MutexInv, MutexesRight
<1>3. x.type \in MutexTypes /\ y.type \in MutexTypes => x.obj # y.obj
  <2>1. /\ x.type = "MUTEX_LOCK" => mutexes[x.obj] = Free
        /\ y.type = "MUTEX_LOCK" => mutexes[y.obj] = Free
    BY <1>1, <1>2, CurrentSets DEF LockExact, MutexInv
  <2>2. x.tid # Free /\ y.tid # Free
    BY <1>1 DEF Threads, Free
  <2> QED
    BY <1>1, <1>2, <2>1, <2>2 DEF MutexUse, UsesMutex, MutexTypes, Dependent
<1>4. mx \in MutexIndex /\ my \in MutexIndex /\ mxy \in MutexIndex /\ myx \in MutexIndex
  BY <1>1, ExecuteMutexesType DEF MutexIndex
<1>5. /\ x.type = "MUTEX_INIT" => mutexes[x.obj] = Absent
      /\ y.type = "MUTEX_INIT" => mutexes[y.obj] = Absent
  BY <1>1, <1>2 DEF MutexUse
<1>6. ASSUME NEW m \in Mutexes PROVE mxy[m] = myx[m]
  <2> HIDE DEF mx, my, mxy, myx
  <2>1. CASE x.type \in MutexTypes /\ m = x.obj
    <3>1. y.type \notin MutexTypes \/ m # y.obj
      BY <1>3, <2>1
    <3>2. my[m] = mutexes[m] /\ mxy[m] = mx[m]
      BY <1>1, <1>4, <3>1, ExecuteMutexesAt DEF my, mxy
    <3>3. myx[m] = mx[m]
      BY <1>1, <1>4, <1>5, <2>1, <3>2, ExecuteMutexesAt DEF mx, myx, MutexTypes
    <3> QED
      BY <3>2, <3>3
  <2>2. CASE x.type \notin MutexTypes \/ m # x.obj
    <3>1. mx[m] = mutexes[m] /\ myx[m] = my[m]
      BY <1>1, <1>4, <2>2, ExecuteMutexesAt DEF mx, myx
    <3>2. mxy[m] = my[m]
      BY <1>1, <1>4, <1>5, <3>1, ExecuteMutexesAt DEF my, mxy, MutexTypes
    <3> QED
      BY <3>1, <3>2
  <2> QED
    BY <2>1, <2>2
<1>7. mxy = myx
  <2> HIDE DEF mxy, myx
  <2> QED
    BY <1>4, <1>6 DEF MutexIndex
<1>8. PerThread(locksets)
  BY DEF MutexInv, Inv, TypeOK, Locksets, PerThread
<1>9. /\ PerThread(lx) /\ PerThread(ly)
      /\ \A t \in Threads \ {x.tid} : lx[t] = locksets[t]
      /\ \A t \in Threads \ {y.tid} : ly[t] = locksets[t]
      /\ lx[x.tid] = NewLockset(locksets[x.tid], x)
      /\ ly[y.tid] = NewLockset(locksets[y.tid], y)
  BY <1>1, <1>8, ExecuteLocksetsAt
<1>10. lxy = lyx
  <2> HIDE DEF lx, ly
  <2>1. /\ PerThread(lxy) /\ PerThread(lyx)
        /\ \A t \in Threads \ {y.tid} : lxy[t] = lx[t]
        /\ \A t \in Threads \ {x.tid} : lyx[t] = ly[t]
        /\ lxy[y.tid] = NewLockset(lx[y.tid], y)
        /\ lyx[x.tid] = NewLockset(ly[x.tid], x)
    BY <1>1, <1>9, ExecuteLocksetsAt
  <2> HIDE DEF lxy, lyx
  <2>2. ASSUME NEW t \in Threads PROVE lxy[t] = lyx[t]
    BY <1>1, <1>9, <2>1
  <2> QED
    BY <2>1, <2>2 DEF PerThread
<1> QED
  BY <1>7, <1>10

\* The waiters that x and then y wake.
WokenByBoth(D, x, y) ==
  WokenWaiters(D, x) \cup WokenWaiters(D \ WokenWaiters(D, x), y)

\* Two signals wake the same waiters in either order.
LEMMA WakingCommutes ==
  ASSUME NEW D, NEW x, NEW y
  PROVE  WokenByBoth(D, x, y) = WokenByBoth(D, y, x)
<1> DEFINE X == WokenWaiters(D, x)
           Y == WokenWaiters(D, y)
<1>1. CASE x.aux = y.aux /\ x.type = y.type
  <2>1. \A S : WokenWaiters(S, x) = WokenWaiters(S, y)
    BY <1>1 DEF WokenWaiters
  <2> QED
    BY <2>1 DEF WokenByBoth
<1>2. CASE x.aux # y.aux \/ {x.type, y.type} # {"COND_SIGNAL", "COND_BROADCAST"}
  <2>1. CASE x.aux # y.aux
    <3>1. WokenWaiters(D \ X, y) = Y /\ WokenWaiters(D \ Y, x) = X
      BY <2>1 DEF WokenWaiters
    <3> QED
      BY <3>1 DEF WokenByBoth
  <2>2. CASE x.type \notin {"COND_SIGNAL", "COND_BROADCAST"}
    <3>1. \A S : WokenWaiters(S, x) = {}
      BY <2>2 DEF WokenWaiters
    <3>2. D \ {} = D
      OBVIOUS
    <3> QED
      BY <3>1, <3>2 DEF WokenByBoth
  <2>3. CASE y.type \notin {"COND_SIGNAL", "COND_BROADCAST"}
    <3>1. \A S : WokenWaiters(S, y) = {}
      BY <2>3 DEF WokenWaiters
    <3>2. D \ {} = D
      OBVIOUS
    <3> QED
      BY <3>1, <3>2 DEF WokenByBoth
  <2> QED
    BY <1>1, <1>2, <2>1, <2>2, <2>3
<1>3. ASSUME NEW u, NEW v, u.type = "COND_SIGNAL", v.type = "COND_BROADCAST", u.aux = v.aux
      PROVE  WokenByBoth(D, u, v) = WokenByBoth(D, v, u)
  <2> DEFINE all == {z \in D : z.type = "COND_WAIT" /\ z.aux = u.aux}
  <2>1. WokenWaiters(D, v) = all /\ WokenWaiters(D, u) \subseteq all
    BY <1>3 DEF WokenWaiters
  <2>2. WokenWaiters(D \ all, u) = {}
    BY DEF WokenWaiters
  <2>3. WokenWaiters(D \ WokenWaiters(D, u), v) = all \ WokenWaiters(D, u)
    BY <1>3 DEF WokenWaiters
  <2> HIDE DEF all
  <2> QED
    BY <2>1, <2>2, <2>3 DEF WokenByBoth
<1> QED
  BY <1>1, <1>2, <1>3

\* x and y are enabled, independent events of two threads, about which the
\* property speaks; f and g may follow them, and neither of x and y signals
\* what the thread of the other one waits for next.
Independent(x, f, y, g) ==
  /\ x \in Reorderable /\ y \in Reorderable
  /\ x.tid # y.tid /\ ~Dependent(x, y)
  /\ f \in Followers(x) /\ g \in Followers(y)
  /\ ~Signals(x, g) /\ ~Signals(y, f)

\* What is pending once both have been executed.
PendingAfter(x, f, y, g) == (Pending \ {x, y}) \cup Left(x, f) \cup Left(y, g)

\* The event z of PendingAfter is enabled then; mu are the owners then.
EnabledAfter(x, f, y, g, mu, z) ==
  IF z.type = "MUTEX_LOCK" THEN mu[z.obj] = Free
  ELSE IF z \in Pending \ {x, y}
       THEN \/ z \in enabled
            \/ /\ z.type = "THREAD_JOIN"
               /\ \E e \in {x, y} : e.type = "THREAD_END" /\ z.aux = e.tid
            \/ z \in WokenByBoth(disabled, x, y)
       ELSE StartsEnabled(PendingAfter(x, f, y, g) \ {z}, mu, rwlocks, z)

\* What follows an event keeps to MutexUse.
LEMMA FollowersAnnounceable ==
  ASSUME MutexInv, NEW e \in Reorderable, NEW f \in Followers(e), e.type # "THREAD_END"
  PROVE  /\ f \in Event /\ f.tid = e.tid
         /\ Announceable(f, Pending \ {e}, ExecuteMutexes(mutexes, e))
<1> DEFINE new == ExecuteMutexes(mutexes, e)
<1>1. /\ e \in enabled /\ e \in Event /\ e.type # "THREAD_PRE_CREATE"
      /\ mutexes \in MutexIndex /\ nthreads \in 1 .. MaxThreads
  BY DEF Reorderable, MutexInv, Inv, TypeOK
<1>2. /\ Current \in PairsOver(Event) /\ OnePer(Current) /\ Current.enabled = enabled
      /\ After(e) = AfterExecuting(Current, e) /\ PendingIn(Current) = Pending
  BY CurrentSets DEF MutexInv
<1>3. PendingIn(After(e)) = Pending \ {e}
  BY <1>1, <1>2, AfterExecutingSets
<1>4. f \in NextEvents(e, Pending \ {e}, new, ExecuteRwlocks(rwlocks, e), nthreads)
  BY <1>1, <1>3 DEF Followers, MayBeAdded
<1>5. /\ MutexesRight(After(e), new)
      /\ e.type \in {"MUTEX_UNLOCK", "COND_WAIT"} => Usable(Pending \ {e}, new, e.obj)
  BY <1>1, <1>2, <1>3, ExecutingMutexes DEF MutexInv
<1> HIDE DEF new
<1>6. f \in Event /\ f.tid = e.tid
  BY <1>1, <1>4, NextEventsEvents
<1>7. MutexUse(Pending \ {e}, new)
  BY <1>3, <1>5 DEF MutexesRight
<1> QED
  BY <1>1, <1>4, <1>5, <1>6, <1>7, NextAnnounceable DEF new

\* What the picture is once x and then y have been executed.
LEMMA ExecutedBoth ==
  ASSUME MutexInv, NEW x, NEW f, NEW y, NEW g, Independent(x, f, y, g)
  PROVE  LET mu == ExecuteMutexes(ExecuteMutexes(mutexes, x), y)
             s  == Executed(Executed(Picture, x, f), y, g)
         IN  /\ s = [p |-> s.p, mutexes |-> mu,
                     locksets |-> ExecuteLocksets(ExecuteLocksets(locksets, x), y)]
             /\ s.p \in PairsOver(Event) /\ OnePer(s.p)
             /\ PendingIn(s.p) = PendingAfter(x, f, y, g)
             /\ \A z \in PendingAfter(x, f, y, g) :
                  z \in s.p.enabled <=> EnabledAfter(x, f, y, g, mu, z)
<1> DEFINE mx == ExecuteMutexes(mutexes, x)
           mu == ExecuteMutexes(mx, y)
           p == Stepped(Current, mutexes, rwlocks, x, f)
           q == Stepped(p, mx, rwlocks, y, g)
           A == PendingAfter(x, f, y, g)
           P == Pending \ {x}
           D == disabled \ WokenWaiters(disabled, x)
<1>1. /\ x \in enabled /\ y \in enabled /\ x \in Event /\ y \in Event /\ x # y
      /\ x \in Pending /\ y \in Pending /\ Pending \subseteq Event
      /\ x.tid # y.tid /\ mutexes \in MutexIndex
      /\ x.type \notin RwlockTypes /\ y.type \notin RwlockTypes
  BY DEF Independent, Reorderable, MutexInv, Inv, TypeOK, Pending
<1>2. /\ Current \in PairsOver(Event) /\ OnePer(Current) /\ PendingIn(Current) = Pending
      /\ Current.enabled = enabled /\ Current.disabled = disabled
      /\ After(x) = AfterExecuting(Current, x) /\ MutexesRight(Current, mutexes)
      /\ Pending = enabled \cup disabled /\ enabled \cap disabled = {}
      /\ \A z, w \in Pending : z.tid = w.tid => z = w
  BY CurrentSets DEF MutexInv, Inv, OnePending, Pending
<1>3. /\ x.type # "THREAD_END" => f \in Event /\ f.tid = x.tid
      /\ y.type # "THREAD_END" => g \in Event /\ g.tid = y.tid
      /\ \A z \in Left(x, f) : Announceable(z, P, mx)
  BY FollowersAnnounceable DEF Independent, Left
<1>4. y \in After(x).enabled
  <2>1. ~CanDisable(x, y)
    BY DisablingRaces DEF Independent
  <2> QED
    BY <1>1, <1>2, <2>1, AfterExecutingSets
<1>5. StepRight(Current, mutexes, rwlocks, x, f)
  BY <1>1, <1>2, <1>3, ExecutedOne
<1> HIDE DEF p, mx
<1>6. /\ p \in PairsOver(Event) /\ OnePer(p) /\ PendingIn(p) = P \cup Left(x, f)
      /\ mx \in MutexIndex /\ MutexesRight(p, mx)
      /\ \A z \in P : IF z.type = "MUTEX_LOCK"
                      THEN z \in p.enabled <=> mx[z.obj] = Free
                      ELSE z \in p.enabled <=> StaysOrWakes(Current, x, z)
      /\ \A z \in Left(x, f) : z \in p.enabled <=> StartsEnabled(P, mx, rwlocks, z)
  BY <1>2, <1>3, <1>5 DEF StepRight, p, mx
<1>7. y \in p.enabled
  <2>1. y \in P
    BY <1>1
  <2>2. y.type = "MUTEX_LOCK" => mx[y.obj] = Free
    <3>1. LockExact(After(x), mx) /\ y \in PendingIn(After(x))
      <4>1. MutexesRight(After(x), mx)
        BY <1>1, <1>2, ExecutingMutexes DEF mx
      <4> QED
        BY <1>4, <4>1 DEF MutexesRight, PendingIn
    <3> QED
      BY <1>4, <3>1 DEF LockExact
  <2>3. StaysOrWakes(Current, x, y)
    BY <1>1, <1>2 DEF StaysOrWakes
  <2> QED
    BY <1>6, <2>1, <2>2, <2>3
<1>8. StepRight(p, mx, rwlocks, y, g)
  BY <1>1, <1>3, <1>6, <1>7, ExecutedOne
<1> HIDE DEF mu, q
<1>9. /\ q \in PairsOver(Event) /\ OnePer(q)
      /\ PendingIn(q) = (PendingIn(p) \ {y}) \cup Left(y, g)
      /\ \A z \in PendingIn(p) \ {y} :
           IF z.type = "MUTEX_LOCK" THEN z \in q.enabled <=> mu[z.obj] = Free
                                    ELSE z \in q.enabled <=> StaysOrWakes(p, y, z)
      /\ \A z \in Left(y, g) : z \in q.enabled
                                 <=> StartsEnabled(PendingIn(p) \ {y}, mu, rwlocks, z)
  BY <1>8 DEF StepRight, q, mu
<1>10. /\ \A z \in Left(x, f) : z = f /\ z.tid = x.tid /\ z \notin Pending \ {x}
       /\ \A z \in Left(y, g) : z = g /\ z.tid = y.tid /\ z \notin Pending \ {y}
  BY <1>1, <1>2, <1>3 DEF Left
<1>11. /\ PendingIn(p) \ {y} = (Pending \ {x, y}) \cup Left(x, f)
       /\ PendingIn(q) = A
  BY <1>1, <1>6, <1>9, <1>10 DEF PendingAfter
<1>12. WokenWaiters(p.disabled, y) = WokenWaiters(D, y)
  <2>1. CASE y.type \notin {"COND_SIGNAL", "COND_BROADCAST"}
    BY <2>1 DEF WokenWaiters
  <2>2. CASE y.type \in {"COND_SIGNAL", "COND_BROADCAST"}
    <3>1. ASSUME NEW w, w.type = "COND_WAIT", w.aux = y.aux
          PROVE  w \in p.disabled <=> w \in D
      <4>1. w \notin Left(x, f)
        BY <1>10, <2>2, <3>1 DEF Independent, Signals
      <4>2. w \in p.disabled <=> w \in P /\ w \notin p.enabled
        BY <1>6, <4>1 DEF OnePer, PendingIn
      <4>3. w \in P => (w \in p.enabled <=> w \in enabled \/ w \in WokenWaiters(disabled, x))
        BY <1>2, <1>6, <3>1 DEF StaysOrWakes
      <4>4. w \in P /\ w \notin enabled <=> w \in disabled
        BY <1>1, <1>2
      <4> QED
        BY <4>2, <4>3, <4>4
    <3> HIDE DEF D
    <3> QED
      BY <3>1 DEF WokenWaiters
  <2> QED
    BY <2>1, <2>2
<1>13. WokenWaiters(disabled, x) \cup WokenWaiters(D, y) = WokenByBoth(disabled, x, y)
  BY DEF WokenByBoth
<1>14. ASSUME NEW z \in Pending \ {x, y}
       PROVE  z \in q.enabled <=> EnabledAfter(x, f, y, g, mu, z)
  <2>1. z \in PendingIn(p) \ {y} /\ z \in P
    BY <1>11
  <2>2. CASE z.type = "MUTEX_LOCK"
    BY <1>9, <2>1, <2>2 DEF EnabledAfter
  <2>3. CASE z.type # "MUTEX_LOCK"
    <3>1. z \in q.enabled <=> StaysOrWakes(p, y, z)
      BY <1>9, <2>1, <2>3
    <3>2. z \in p.enabled <=> StaysOrWakes(Current, x, z)
      BY <1>6, <2>1, <2>3
    <3> HIDE DEF D
    <3> QED
      BY <1>2, <1>12, <1>13, <2>3, <3>1, <3>2 DEF EnabledAfter, StaysOrWakes
  <2> QED
    BY <2>2, <2>3
<1>15. ASSUME NEW z \in Left(x, f)
       PROVE  z \in q.enabled <=> EnabledAfter(x, f, y, g, mu, z)
  <2>1. /\ z \in PendingIn(p) \ {y} /\ z.tid = x.tid /\ z = f /\ x.type # "THREAD_END"
        /\ z \notin Pending \ {x, y} /\ z \notin Left(y, g)
    BY <1>1, <1>10, <1>11 DEF Left
  <2>2. A \ {z} = (Pending \ {x, y}) \cup Left(y, g)
    BY <2>1, <1>10 DEF PendingAfter
  <2>3. CASE z.type = "MUTEX_LOCK"
    BY <1>9, <2>1, <2>3 DEF EnabledAfter
  <2>4. CASE z.type # "MUTEX_LOCK"
    <3>1. z \in q.enabled <=> StaysOrWakes(p, y, z)
      BY <1>9, <2>1, <2>4
    <3>2. z \notin WokenWaiters(p.disabled, y)
      BY <2>1 DEF WokenWaiters, Independent, Signals
    <3>3. z \in p.enabled <=> StartsEnabled(P, mx, rwlocks, z)
      BY <1>6
    <3>4. EnabledAfter(x, f, y, g, mu, z) <=> StartsEnabled(A \ {z}, mu, rwlocks, z)
      BY <2>1, <2>4 DEF EnabledAfter
    <3>5. CASE z.type = "THREAD_JOIN"
      <4>1. Alive(P, z.aux) <=> Alive(Pending \ {x, y}, z.aux) \/ z.aux = y.tid
        BY <1>1 DEF Alive
      <4>2. Alive(A \ {z}, z.aux) <=> \/ Alive(Pending \ {x, y}, z.aux)
                                      \/ z.aux = y.tid /\ y.type # "THREAD_END"
        BY <1>3, <2>2 DEF Alive, Left
      <4>3. z.aux = y.tid => ~Alive(Pending \ {x, y}, z.aux)
        BY <1>1, <1>2 DEF Alive
      <4> HIDE DEF P, A
      <4>4. z \in p.enabled <=> ~Alive(P, z.aux)
        BY <3>3, <3>5 DEF StartsEnabled
      <4>5. StartsEnabled(A \ {z}, mu, rwlocks, z) <=> ~Alive(A \ {z}, z.aux)
        BY <3>5 DEF StartsEnabled
      <4>6. z \in q.enabled <=> z \in p.enabled \/ (y.type = "THREAD_END" /\ z.aux = y.tid)
        BY <3>1, <3>2, <3>5 DEF StaysOrWakes
      <4> QED
        BY <3>4, <4>1, <4>2, <4>3, <4>4, <4>5, <4>6
    <3>6. CASE z.type # "THREAD_JOIN"
      <4>1. StartsEnabled(P, mx, rwlocks, z) <=> StartsEnabled(A \ {z}, mu, rwlocks, z)
        BY <2>4, <3>6 DEF StartsEnabled
      <4> QED
        BY <3>1, <3>2, <3>3, <3>4, <3>6, <4>1 DEF StaysOrWakes
    <3> QED
      BY <3>5, <3>6
  <2> QED
    BY <2>3, <2>4
<1>16. ASSUME NEW z \in Left(y, g)
       PROVE  z \in q.enabled <=> EnabledAfter(x, f, y, g, mu, z)
  <2>1. z.tid = y.tid /\ z \notin Pending \ {x, y} /\ z \notin Left(x, f)
    BY <1>1, <1>10
  <2>2. A \ {z} = PendingIn(p) \ {y}
    BY <2>1, <1>10, <1>11 DEF PendingAfter
  <2>3. z \in q.enabled <=> StartsEnabled(A \ {z}, mu, rwlocks, z)
    BY <1>9, <2>2
  <2>4. z.type = "MUTEX_LOCK" => (StartsEnabled(A \ {z}, mu, rwlocks, z) <=> mu[z.obj] = Free)
    BY DEF StartsEnabled
  <2> QED
    BY <2>1, <2>3, <2>4 DEF EnabledAfter
<1>17. Executed(Executed(Picture, x, f), y, g)
         = [p |-> q, mutexes |-> mu,
            locksets |-> ExecuteLocksets(ExecuteLocksets(locksets, x), y)]
  BY DEF Executed, Picture, Current, Stepped, p, q, mx, mu
<1>18. \A z \in A : z \in q.enabled <=> EnabledAfter(x, f, y, g, mu, z)
  BY <1>14, <1>15, <1>16 DEF PendingAfter
<1> HIDE DEF A
<1> QED
  BY <1>9, <1>11, <1>17, <1>18 DEF mu, mx, A

\* Two independent events lead to one picture in either order.
LEMMA OrderIrrelevant ==
  ASSUME MutexInv, NEW x, NEW f, NEW y, NEW g, Independent(x, f, y, g)
  PROVE  Executed(Executed(Picture, x, f), y, g) = Executed(Executed(Picture, y, g), x, f)
<1> DEFINE s == Executed(Executed(Picture, x, f), y, g)
           r == Executed(Executed(Picture, y, g), x, f)
           mu == ExecuteMutexes(ExecuteMutexes(mutexes, x), y)
           A == PendingAfter(x, f, y, g)
<1>1. Independent(y, g, x, f)
  BY DEF Independent, Dependent
<1>2. x \in enabled /\ y \in enabled /\ x.tid # y.tid /\ ~Dependent(x, y)
  BY DEF Independent, Reorderable
<1>3. /\ ExecuteMutexes(ExecuteMutexes(mutexes, y), x) = mu
      /\ ExecuteLocksets(ExecuteLocksets(locksets, x), y)
           = ExecuteLocksets(ExecuteLocksets(locksets, y), x)
  BY <1>2, TablesCommute
<1>4. PendingAfter(y, g, x, f) = A
  BY DEF PendingAfter
<1>5. \A z : EnabledAfter(x, f, y, g, mu, z) <=> EnabledAfter(y, g, x, f, mu, z)
  <2>1. WokenByBoth(disabled, x, y) = WokenByBoth(disabled, y, x)
    BY WakingCommutes
  <2>2. {x, y} = {y, x}
    OBVIOUS
  <2> HIDE DEF mu
  <2> QED
    BY <1>4, <2>1, <2>2 DEF EnabledAfter
<1>6. /\ s = [p |-> s.p, mutexes |-> mu,
              locksets |-> ExecuteLocksets(ExecuteLocksets(locksets, x), y)]
      /\ s.p \in PairsOver(Event) /\ OnePer(s.p) /\ PendingIn(s.p) = A
      /\ \A z \in A : z \in s.p.enabled <=> EnabledAfter(x, f, y, g, mu, z)
  BY ExecutedBoth
<1>7. /\ r = [p |-> r.p, mutexes |-> mu,
              locksets |-> ExecuteLocksets(ExecuteLocksets(locksets, y), x)]
      /\ r.p \in PairsOver(Event) /\ OnePer(r.p) /\ PendingIn(r.p) = A
      /\ \A z \in A : z \in r.p.enabled <=> EnabledAfter(y, g, x, f, mu, z)
  BY <1>1, <1>3, <1>4, ExecutedBoth
<1> HIDE DEF s, r, mu, A
<1>8. s.p.enabled = r.p.enabled /\ s.p.disabled = r.p.disabled
  <2>1. s.p.enabled \subseteq A /\ r.p.enabled \subseteq A
    BY <1>6, <1>7 DEF PendingIn
  <2>2. s.p.enabled = r.p.enabled
    BY <1>5, <1>6, <1>7, <2>1
  <2>3. s.p.disabled = A \ s.p.enabled /\ r.p.disabled = A \ r.p.enabled
    BY <1>6, <1>7 DEF PendingIn, OnePer
  <2> QED
    BY <2>2, <2>3
<1>9. s.p = r.p
  BY <1>6, <1>7, <1>8 DEF PairsOver
<1>10. s = r
  BY <1>3, <1>6, <1>7, <1>9
<1> QED
  BY <1>10 DEF s, r

\* Events that dependent calls independent may be executed in either order,
\* read-write locks, creations and signals that come too early aside.
THEOREM IndependentCommuteHolds == Spec => []IndependentCommute
<1>1. MutexInv => IndependentCommute
  <2> SUFFICES ASSUME MutexInv, NEW x \in Reorderable, NEW y \in Reorderable,
                      x.tid < y.tid, ~Dependent(x, y)
               PROVE  /\ y \in After(x).enabled /\ x \in After(y).enabled
                      /\ \A f \in Followers(x), g \in Followers(y) :
                           \/ Signals(x, g) \/ Signals(y, f)
                           \/ Executed(Executed(Picture, x, f), y, g)
                                = Executed(Executed(Picture, y, g), x, f)
    BY DEF IndependentCommute
  <2>1. x \in enabled /\ y \in enabled /\ x.tid # y.tid /\ ~Dependent(y, x)
    <3>1. x.tid \in Int /\ y.tid \in Int
      BY DEF Reorderable, MutexInv, Inv, TypeOK, Event, Threads
    <3> QED
      BY <3>1 DEF Reorderable, Dependent
  <2>2. y \in After(x).enabled /\ x \in After(y).enabled
    BY <2>1, CurrentSets, AfterExecutingSets, DisablingRaces DEF MutexInv
  <2>3. ASSUME NEW f \in Followers(x), NEW g \in Followers(y), ~Signals(x, g), ~Signals(y, f)
        PROVE  Executed(Executed(Picture, x, f), y, g) = Executed(Executed(Picture, y, g), x, f)
    <3>1. Independent(x, f, y, g)
      BY <2>1, <2>3 DEF Independent
    <3> QED
      BY <3>1, OrderIrrelevant
  <2> QED
    BY <2>2, <2>3
<1> QED
  BY <1>1, MutexInvAlways, PTL

----------------------------------------------------------------------------
(* Joins.                                                                  *)

\* A thread joins another thread, and one that has been created.
JoinsKnown ==
  \A x \in Pending : x.type = "THREAD_JOIN" => x.aux \in (0 .. nthreads - 1) \ {x.tid}

\* A thread announces joins of other threads that have been created.
LEMMA LegalJoins ==
  ASSUME NEW t, NEW P, NEW mu, NEW rw, NEW n,
         NEW f \in Legal(t, P, mu, rw, n), f.type = "THREAD_JOIN"
  PROVE  f.aux \in (0 .. n - 1) \ {t}
BY DEF Legal, MutexEvents, RwlockEvents, CondEvents, ObjectEvents, ObjectTypes,
       ThreadEvents, Ev

\* A thread goes on to join another thread that has been created.
LEMMA NextJoins ==
  ASSUME NEW e, NEW P, NEW mu, NEW rw, NEW n,
         NEW f \in NextEvents(e, P, mu, rw, n), f.type = "THREAD_JOIN"
  PROVE  f.aux \in (0 .. n - 1) \ {e.tid}
<1>1. f \in Legal(e.tid, P, mu, rw, n)
  BY DEF NextEvents, Ev
<1> QED
  BY <1>1, LegalJoins

\* The inductive invariant.
JoinInv == Inv /\ JoinsKnown /\ JoinExact(Current, Tids(Pending))

\* The invariant holds of the first state.
LEMMA JoinInvInit == Init => JoinInv
<1> SUFFICES ASSUME Init PROVE JoinInv
  OBVIOUS
<1>1. Inv
  BY InvInit
<1>2. JoinsKnown /\ JoinExact(Current, Tids(Pending))
  BY DEF Init, JoinsKnown, JoinExact, Current, Pending, PendingIn, Start, Ev
<1> QED
  BY <1>1, <1>2 DEF JoinInv

\* What executing e does to the joins, before any event is added.
LEMMA ExecutedJoins ==
  ASSUME JoinInv, NEW e \in enabled, NEW explored,
         CanExecute(e, explored), Execute(e, explored)
  PROVE  /\ JoinExact(After(e), IF e.type = "THREAD_END" THEN Tids(Pending) \ {e.tid}
                                                         ELSE Tids(Pending))
         /\ After(e) \in PairsOver(Event) /\ OnePer(After(e))
         /\ PendingIn(After(e)) = Pending \ {e}
         /\ Tids(Pending \ {e}) = Tids(Pending) \ {e.tid}
         /\ e \in Event /\ e.tid \in Tids(Pending)
<1>1. /\ After(e) \in PairsOver(Event) /\ OnePer(After(e)) /\ e \in Event
      /\ PendingIn(After(e)) = Pending \ {e}
      /\ \A x \in Pending \ {e} : x.tid # e.tid
  BY Executing DEF JoinInv
<1>2. /\ Current \in PairsOver(Event) /\ OnePer(Current) /\ e \in Current.enabled
      /\ PendingIn(Current) = Pending /\ After(e) = AfterExecuting(Current, e)
  BY CurrentSets DEF JoinInv
<1>3. JoinExact(AfterExecuting(Current, e),
                IF e.type = "THREAD_END" THEN Tids(Pending) \ {e.tid} ELSE Tids(Pending))
  BY <1>2, ExecutingJoins DEF JoinInv, JoinsKnown
<1> QED
  BY <1>1, <1>2, <1>3 DEF Tids, Pending

\* An event after which its thread goes on keeps it.
LEMMA ExecuteEventJoinInv ==
  ASSUME JoinInv, NEW e \in enabled, NEW explored, ExecuteEvent(e, explored)
  PROVE  JoinInv'
<1>1. /\ CanExecute(e, explored) /\ Execute(e, explored) /\ nthreads' = nthreads
      /\ e.type # "THREAD_END"
  BY DEF ExecuteEvent
<1>2. Inv /\ Inv'
  BY ExecuteEventInv DEF JoinInv
<1>3. PICK next \in NextEvents(e, Pending \ {e}, mutexes', rwlocks', nthreads) :
        /\ next \in Event /\ next.tid = e.tid
        /\ \A x \in PendingIn(After(e)) : x.tid # next.tid
        /\ Current' = Added(After(e), next)
        /\ Pending' = (Pending \ {e}) \cup {next}
  BY <1>2, EventStep
<1>4. next.type = "THREAD_JOIN" => next.aux \in (0 .. nthreads - 1) \ {e.tid}
  BY <1>3, NextJoins
<1>5. JoinsKnown'
  BY <1>1, <1>3, <1>4 DEF JoinsKnown, JoinInv
<1>6. /\ JoinExact(After(e), Tids(Pending))
      /\ After(e) \in PairsOver(Event) /\ OnePer(After(e))
      /\ Tids(PendingIn(After(e))) = Tids(Pending) \ {e.tid}
      /\ e.tid \in Tids(Pending)
  BY <1>1, ExecutedJoins
<1>7. JoinExact(Current', Tids(Pending))
  BY <1>3, <1>4, <1>6, AddingJoins DEF Added
<1>8. Tids(Pending') = Tids(Pending)
  BY <1>3 DEF Tids, Pending
<1> QED
  BY <1>2, <1>5, <1>7, <1>8 DEF JoinInv

\* The end of a thread keeps it: the joins that wait for it wake.
LEMMA ExecuteEndJoinInv ==
  ASSUME JoinInv, NEW e \in enabled, NEW explored, ExecuteEnd(e, explored)
  PROVE  JoinInv'
<1>1. /\ CanExecute(e, explored) /\ Execute(e, explored) /\ nthreads' = nthreads
      /\ e.type = "THREAD_END"
  BY DEF ExecuteEnd
<1>2. Inv /\ Inv'
  BY ExecuteEndInv DEF JoinInv
<1>3. Current' = After(e) /\ Pending' = Pending \ {e}
  BY <1>2, EndStep
<1>4. JoinsKnown'
  BY <1>1, <1>3 DEF JoinsKnown, JoinInv
<1>5. JoinExact(Current', Tids(Pending'))
  BY <1>1, <1>3, ExecutedJoins
<1> QED
  BY <1>2, <1>4, <1>5 DEF JoinInv

\* The first event of a new thread is added while its creator has none.  Its
\* test is right all the same, unless it is a join of the creator.
LEMMA ExecuteCreateJoinInv ==
  ASSUME ~ChildJoinsCreator, JoinInv,
         NEW e \in enabled, NEW explored, ExecuteCreate(e, explored)
  PROVE  JoinInv'
<1>1. /\ CanExecute(e, explored) /\ Execute(e, explored)
      /\ e.type = "THREAD_PRE_CREATE"
  BY DEF ExecuteCreate
<1>2. Inv /\ Inv'
  BY ExecuteCreateInv DEF JoinInv
<1>3. /\ nthreads \in Threads /\ nthreads' = nthreads + 1
      /\ \A x \in Pending : x.tid # nthreads
  BY <1>2, CreateStep
<1>4. PICK first \in Event, next \in Event : Creation(e, first, next)
  BY <1>2, CreateStep
<1> DEFINE p == Added(After(e), first)
           T == Tids(Pending)
<1>5. /\ JoinExact(After(e), T)
      /\ After(e) \in PairsOver(Event) /\ OnePer(After(e))
      /\ PendingIn(After(e)) = Pending \ {e} /\ Tids(Pending \ {e}) = T \ {e.tid}
      /\ e.tid \in T
  BY <1>1, ExecutedJoins
<1>6. first.type = "THREAD_JOIN" => first.aux \in (0 .. nthreads) \ {nthreads, e.tid}
  BY <1>3, <1>4, LegalJoins DEF Creation, FirstEvents, Threads
<1>7. next.type = "THREAD_JOIN" => next.aux \in (0 .. nthreads) \ {e.tid}
  BY <1>3, <1>4, NextJoins DEF Creation, Threads
<1>8. \A x \in Pending : x.type = "THREAD_JOIN"
         => x.aux \in (0 .. nthreads) \ {x.tid, nthreads}
  BY <1>3 DEF JoinInv, JoinsKnown, Threads
<1>9. JoinsKnown'
  <2>1. \A x \in Pending' : x \in Pending \/ x = first \/ x = next
    BY <1>4 DEF Creation
  <2>2. first.tid = nthreads /\ next.tid = e.tid
    BY <1>4 DEF Creation
  <2>3. 0 .. nthreads' - 1 = 0 .. nthreads
    BY <1>3 DEF Threads
  <2> QED
    BY <1>6, <1>7, <1>8, <2>1, <2>2, <2>3 DEF JoinsKnown
<1>10. JoinExact(p, T \cup {nthreads})
  <2>1. \A x \in PendingIn(After(e)) : x.tid # first.tid
    BY <1>3, <1>4, <1>5 DEF Creation
  <2>2. \A x \in PendingIn(After(e)) :
           x.type = "THREAD_JOIN" => (x.aux \in T <=> x.aux \in T \cup {nthreads})
    BY <1>5, <1>8
  <2>3. first.type = "THREAD_JOIN"
          => (first.aux \in Tids(PendingIn(After(e))) <=> first.aux \in T \cup {nthreads})
    BY <1>5, <1>6
  <2> HIDE DEF T
  <2> QED
    BY <1>5, <2>1, <2>2, <2>3, AddingJoins DEF Added
<1>11. JoinExact(Current', T \cup {nthreads})
  <2>1. /\ p \in PairsOver(Event) /\ OnePer(p)
        /\ PendingIn(p) = (Pending \ {e}) \cup {first}
        /\ \A x \in PendingIn(p) : x.tid # next.tid
        /\ Current' = Added(p, next)
    BY <1>4 DEF Creation
  <2>2. Tids(PendingIn(p)) = (T \ {e.tid}) \cup {nthreads}
    BY <1>4, <1>5, <2>1 DEF Creation, Tids
  <2>3. next.type = "THREAD_JOIN"
          => (next.aux \in Tids(PendingIn(p)) <=> next.aux \in T \cup {nthreads})
    BY <1>7, <2>2
  <2> HIDE DEF p, T
  <2> QED
    BY <1>10, <2>1, <2>3, AddingJoins DEF Added
<1>12. Tids(Pending') = T \cup {nthreads}
  BY <1>4 DEF Creation, Tids, Pending
<1> QED
  BY <1>2, <1>9, <1>11, <1>12 DEF JoinInv

\* The unchanged part of a step.
LEMMA JoinInvStutter ==
  ASSUME JoinInv, Inv', UNCHANGED <<enabled, disabled, nthreads>>
  PROVE  JoinInv'
<1>1. Current' = Current /\ Pending' = Pending
  BY DEF Current, Pending
<1> QED
  BY <1>1 DEF JoinInv, JoinsKnown

\* Every step keeps it, unless a new thread joins its creator at once: its join
\* is tested while the creator has no pending event.
LEMMA JoinInvNext == ~ChildJoinsCreator => (JoinInv /\ [Next]_vars => JoinInv')
<1> SUFFICES ASSUME ~ChildJoinsCreator, JoinInv, [Next]_vars PROVE JoinInv'
  OBVIOUS
<1>1. ASSUME NEW e \in enabled, NEW explored, ExecuteEvent(e, explored) PROVE JoinInv'
  BY <1>1, ExecuteEventJoinInv
<1>2. ASSUME NEW e \in enabled, NEW explored, ExecuteEnd(e, explored) PROVE JoinInv'
  BY <1>2, ExecuteEndJoinInv
<1>3. ASSUME NEW e \in enabled, NEW explored, ExecuteCreate(e, explored) PROVE JoinInv'
  BY <1>3, ExecuteCreateJoinInv
<1>4. Inv'
  BY InvNext DEF JoinInv
<1>5. ASSUME NEW e \in enabled, Abort(e) PROVE JoinInv'
  BY <1>4, <1>5, JoinInvStutter DEF Abort
<1>6. CASE UNCHANGED vars
  BY <1>4, <1>6, JoinInvStutter DEF vars
<1> QED
  BY <1>1, <1>2, <1>3, <1>5, <1>6 DEF Next

\* Joins are enabled exactly when the joined thread has ended, provided no
\* thread starts with a join of its creator (next_state.cc:149 and 170 add its
\* first event while the creator has none).
THEOREM JoinEnabledExactlyHolds == ~ChildJoinsCreator => (Spec => []JoinEnabledExactly)
<1> SUFFICES ASSUME ~ChildJoinsCreator PROVE Spec => []JoinEnabledExactly
  OBVIOUS
<1>1. JoinInv => JoinEnabledExactly
  BY CurrentSets DEF JoinInv, JoinExact, JoinEnabledExactly, Alive, Tids
<1> QED
  BY <1>1, JoinInvInit, JoinInvNext, PTL DEF Spec

----------------------------------------------------------------------------
(* Read-write locks.                                                       *)

\* x acquires the read-write lock l.
Acquires(x, l) == x.obj = l /\ x.type \in {"RWLOCK_RDLOCK", "RWLOCK_WRLOCK"}

\* Only locks that are initialised are acquired, and not while another thread
\* is about to destroy them.
RwlockUse(P, rw) ==
  /\ \A l \in Rwlocks : rw[l].status = "ABSENT" => rw[l] = RwAbsent
  /\ \A x \in P : \A l \in Rwlocks : Acquires(x, l) =>
        /\ rw[l].status # "ABSENT"
        /\ \A y \in P : y.type = "RWLOCK_DESTROY" => y.obj # l

\* The event f keeps to RwlockUse when it becomes pending beside P.
RwAnnounceable(f, P, rw) ==
  \A l \in Rwlocks :
    /\ Acquires(f, l) => /\ rw[l].status # "ABSENT"
                         /\ \A y \in P : y.type = "RWLOCK_DESTROY" => y.obj # l
    /\ f.type = "RWLOCK_DESTROY" /\ f.obj = l => \A y \in P : ~Acquires(y, l)

\* Whoever waits to write an idle lock is not alone: some acquisition of that
\* lock is enabled, and its release will wake the writer.
NotForgotten(p, rw) ==
  \A x \in p.disabled :
    x.type = "RWLOCK_WRLOCK" /\ rw[x.obj].status = "RWLS_IDLE"
      => \E y \in p.enabled : Acquires(y, x.obj)

\* execute_transition changes the lock of the event and no other; unless an
\* assertion fails, an acquisition leaves it busy, and so may a release.
LEMMA ExecuteRwlocksAt ==
  ASSUME NEW e \in Event, NEW rw \in RwlockIndex, RwlockAsserts(rw, e), NEW l \in Rwlocks
  PROVE  LET new == ExecuteRwlocks(rw, e)
         IN  /\ l # e.obj \/ e.type \notin RwlockTypes => new[l] = rw[l]
             /\ l = e.obj /\ e.type = "RWLOCK_INIT" /\ rw[l] # RwAbsent => new[l] = rw[l]
             /\ l = e.obj /\ e.type = "RWLOCK_INIT" /\ rw[l] = RwAbsent => new[l] = RwIdle
             /\ l = e.obj /\ e.type = "RWLOCK_DESTROY" => new[l] = RwAbsent
             /\ Acquires(e, l) => new[l].status \in {"RWLS_READING", "RWLS_WRITING"}
             /\ l = e.obj /\ e.type = "RWLOCK_UNLOCK" => new[l].status # "ABSENT"
<1> DEFINE new == ExecuteRwlocks(rw, e)
<1>1. CASE e.type \notin RwlockTypes
  BY <1>1 DEF ExecuteRwlocks, RwlockTypes, Acquires
<1>2. CASE e.type = "RWLOCK_INIT"
  BY <1>2 DEF ExecuteRwlocks, RwlockIndex, RwlockTypes, Acquires
<1>3. CASE e.type = "RWLOCK_DESTROY"
  BY <1>3 DEF ExecuteRwlocks, RwlockIndex, RwlockTypes, Acquires
<1>4. CASE e.type = "RWLOCK_RDLOCK"
  <2>1. new = [rw EXCEPT ![e.obj] = ReaderAcquire(rw[e.obj], e.tid)]
    BY <1>4 DEF ExecuteRwlocks
  <2>2. l = e.obj => ReaderAcquire(rw[l], e.tid).status = "RWLS_READING"
    BY DEF ReaderAcquire, RwlockIndex
  <2> QED
    BY <1>4, <2>1, <2>2 DEF RwlockIndex, RwlockTypes, Acquires
<1>5. CASE e.type = "RWLOCK_WRLOCK"
  <2>1. new = [rw EXCEPT ![e.obj] = WriterAcquire(rw[e.obj], e.tid)]
    BY <1>5 DEF ExecuteRwlocks
  <2>2. l = e.obj => WriterAcquire(rw[l], e.tid).status = "RWLS_WRITING"
    BY DEF WriterAcquire, RwlockIndex
  <2> QED
    BY <1>5, <2>1, <2>2 DEF RwlockIndex, RwlockTypes, Acquires
<1>6. CASE e.type = "RWLOCK_UNLOCK"
  <2>1. new = [rw EXCEPT ![e.obj] = ReleaseRwlock(rw[e.obj], e.tid)]
    BY <1>6 DEF ExecuteRwlocks
  <2>2. l = e.obj => ReleaseRwlock(rw[l], e.tid).status # "ABSENT"
    <3>1. l = e.obj => rw[l].status \in {"RWLS_READING", "RWLS_WRITING"}
      BY <1>6 DEF RwlockAsserts
    <3> QED
      BY <3>1 DEF ReleaseRwlock, RwlockIndex, RwIdle
  <2> QED
    BY <1>6, <2>1, <2>2 DEF RwlockIndex, RwlockTypes, Acquires
<1> QED
  BY <1>1, <1>2, <1>3, <1>4, <1>5, <1>6 DEF RwlockTypes

\* A release wakes an acquisition whenever one is blocked on the lock.
LEMMA ReleaseWakes ==
  ASSUME NEW D \in SUBSET Event, NEW e, e.type = "RWLOCK_UNLOCK",
         NEW x \in D, Acquires(x, e.obj)
  PROVE  \E y \in ToBeEnabled(D, e) : Acquires(y, e.obj)
<1> DEFINE readers == {y \in D : y.type = "RWLOCK_RDLOCK" /\ y.obj = e.obj}
           writers == {y \in D : y.type = "RWLOCK_WRLOCK" /\ y.obj = e.obj}
<1>1. WokenLockers(D, e) \subseteq ToBeEnabled(D, e)
  BY DEF ToBeEnabled
<1>2. CASE readers # {}
  <2>1. WokenLockers(D, e) = readers
    BY <1>2 DEF WokenLockers
  <2> QED
    BY <1>1, <1>2, <2>1 DEF Acquires
<1>3. CASE readers = {}
  <2>1. writers # {}
    BY <1>3 DEF Acquires
  <2>2. PICK y \in writers : \A z \in writers : y.tid <= z.tid
    <3>1. \A z \in writers : z.tid \in Nat
      BY DEF Event, Threads
    <3> QED
      BY <2>1, <3>1, LowestThread
  <2>3. WokenLockers(D, e) = {z \in writers : \A w \in writers : z.tid <= w.tid}
    BY <1>3 DEF WokenLockers
  <2> QED
    BY <1>1, <2>2, <2>3 DEF Acquires
<1> QED
  BY <1>2, <1>3

\* Executing an event keeps both: a release that leaves the lock idle enables
\* the acquisitions that wait for it.
LEMMA ExecutingRwlocks ==
  ASSUME NEW p \in PairsOver(Event), NEW e \in p.enabled, OnePer(p),
         NEW rw \in RwlockIndex, RwlockAsserts(rw, e),
         RwlockUse(PendingIn(p), rw), NotForgotten(p, rw)
  PROVE  LET q   == AfterExecuting(p, e)
             new == ExecuteRwlocks(rw, e)
         IN  RwlockUse(PendingIn(q), new) /\ NotForgotten(q, new)
<1> DEFINE q   == AfterExecuting(p, e)
           new == ExecuteRwlocks(rw, e)
           P   == PendingIn(p)
<1>1. /\ PendingIn(q) = P \ {e} /\ OnePer(q) /\ q \in PairsOver(Event)
      /\ \A x \in P \ {e} : x.tid # e.tid
  BY AfterExecutingSets
<1>2. q.enabled = {x \in p.enabled \ {e} : ~CanDisable(e, x)} \cup ToBeEnabled(p.disabled, e)
  BY AfterExecutingEnabled
<1>3. /\ P \subseteq Event /\ e \in P /\ e \in Event
      /\ P = p.enabled \cup p.disabled /\ p.disabled \subseteq Event
      /\ \A x \in P : x.type \in RwlockTypes => x.obj \in Rwlocks
  BY DEF PairsOver, PendingIn, Event
<1>4. \A l \in Rwlocks :
         /\ l # e.obj \/ e.type \notin RwlockTypes => new[l] = rw[l]
         /\ l = e.obj /\ e.type = "RWLOCK_INIT" /\ rw[l] # RwAbsent => new[l] = rw[l]
         /\ l = e.obj /\ e.type = "RWLOCK_INIT" /\ rw[l] = RwAbsent => new[l] = RwIdle
         /\ l = e.obj /\ e.type = "RWLOCK_DESTROY" => new[l] = RwAbsent
         /\ Acquires(e, l) => new[l].status \in {"RWLS_READING", "RWLS_WRITING"}
         /\ l = e.obj /\ e.type = "RWLOCK_UNLOCK" => new[l].status # "ABSENT"
  BY <1>3, ExecuteRwlocksAt
<1>5. /\ q.disabled \subseteq P \ {e} /\ q.disabled \cap q.enabled = {}
      /\ \A x \in P \ {e} : x \in q.enabled \/ x \in q.disabled
  BY <1>1 DEF OnePer, PendingIn
<1> HIDE DEF q, new, P
<1>6. RwlockUse(P, rw)
  BY DEF P
<1>7. RwIdle.status # "ABSENT"
  BY DEF RwIdle
<1>8. RwlockUse(PendingIn(q), new)
  <2>1. \A l \in Rwlocks : new[l].status = "ABSENT" => new[l] = RwAbsent
    BY <1>4, <1>6, <1>7 DEF RwlockUse, Acquires, RwlockTypes
  <2>2. ASSUME NEW x \in P \ {e}, NEW l \in Rwlocks, Acquires(x, l)
        PROVE  /\ new[l].status # "ABSENT"
               /\ \A y \in P : y.type = "RWLOCK_DESTROY" => y.obj # l
    BY <1>3, <1>4, <1>6, <1>7, <2>2 DEF RwlockUse, Acquires, RwlockTypes
  <2> QED
    BY <1>1, <2>1, <2>2 DEF RwlockUse
<1>9. NotForgotten(q, new)
  <2> SUFFICES ASSUME NEW x \in q.disabled, x.type = "RWLOCK_WRLOCK",
                      new[x.obj].status = "RWLS_IDLE"
               PROVE  \E y \in q.enabled : Acquires(y, x.obj)
    BY DEF NotForgotten
  <2>1. x \in P \ {e} /\ x.obj \in Rwlocks /\ Acquires(x, x.obj)
    BY <1>3, <1>5 DEF RwlockTypes, Acquires
  <2>2. rw[x.obj].status # "ABSENT" /\ rw[x.obj] # RwAbsent
    BY <1>6, <2>1 DEF RwlockUse, RwAbsent
  <2>3. ~Acquires(e, x.obj)
    BY <1>4, <2>1
  <2>4. e.obj = x.obj => e.type # "RWLOCK_DESTROY"
    BY <1>3, <1>6, <2>1 DEF RwlockUse
  <2>5. CASE e.type = "RWLOCK_UNLOCK" /\ e.obj = x.obj
    <3>1. x \in p.disabled
      BY <1>2, <1>3, <1>5, <2>1, <2>5 DEF CanDisable
    <3>2. \E y \in ToBeEnabled(p.disabled, e) : Acquires(y, e.obj)
      BY <1>3, <2>1, <2>5, <3>1, ReleaseWakes
    <3> QED
      BY <1>2, <2>5, <3>2
  <2>6. CASE ~(e.type = "RWLOCK_UNLOCK" /\ e.obj = x.obj)
    <3>1. new[x.obj] = rw[x.obj]
      BY <1>4, <2>1, <2>2, <2>3, <2>4, <2>6 DEF RwlockTypes, Acquires
    <3>2. \A y \in P : Acquires(y, x.obj) => ~CanDisable(e, y)
      BY <2>3 DEF CanDisable, Acquires
    <3>3. x \in p.disabled
      BY <1>2, <1>3, <1>5, <2>1, <3>2
    <3>4. PICK y \in p.enabled : Acquires(y, x.obj)
      BY <3>1, <3>3 DEF NotForgotten
    <3>5. y # e /\ y \in P
      BY <2>3, <3>4, <1>3
    <3> QED
      BY <1>2, <3>2, <3>4, <3>5
  <2> QED
    BY <2>5, <2>6
<1> QED
  BY <1>8, <1>9 DEF q, new

\* An announced acquisition of an idle lock is enabled.
LEMMA AddingRwlocks ==
  ASSUME NEW p \in PairsOver(Event), OnePer(p), NEW f \in Event, NEW mu, NEW rw \in RwlockIndex,
         \A x \in PendingIn(p) : x.tid # f.tid,
         RwlockUse(PendingIn(p), rw), NotForgotten(p, rw), RwAnnounceable(f, PendingIn(p), rw)
  PROVE  LET q == AddTransition(p, mu, rw, f)
         IN  RwlockUse(PendingIn(q), rw) /\ NotForgotten(q, rw)
<1> DEFINE q == AddTransition(p, mu, rw, f)
           P == PendingIn(p)
<1>1. PendingIn(q) = P \cup {f} /\ OnePer(q)
  BY AddTransitionSets
<1>2. q.enabled = p.enabled \cup {x \in {f} : StartsEnabled(P, mu, rw, x)}
  BY AddTransitionEnabled
<1>3. RwlockUse(P, rw) /\ RwAnnounceable(f, P, rw) /\ NotForgotten(p, rw)
  OBVIOUS
<1>4. /\ q.disabled \subseteq P \cup {f} /\ q.disabled \cap q.enabled = {}
      /\ P = p.enabled \cup p.disabled
  BY <1>1 DEF OnePer, PendingIn
<1>5. f.type = "RWLOCK_WRLOCK" => (StartsEnabled(P, mu, rw, f)
                                     <=> rw[f.obj].status = "RWLS_IDLE")
  BY DEF StartsEnabled
<1> HIDE DEF q, P
<1>6. RwlockUse(PendingIn(q), rw)
  BY <1>1, <1>3 DEF RwlockUse, RwAnnounceable, Acquires
<1>7. NotForgotten(q, rw)
  BY <1>2, <1>3, <1>4, <1>5 DEF NotForgotten
<1> QED
  BY <1>6, <1>7 DEF q

\* What a thread may announce keeps to RwlockUse.
LEMMA LegalRwAnnounceable ==
  ASSUME NEW t, NEW P, NEW mu, NEW rw, NEW n, RwlockUse(P, rw),
         NEW f \in Legal(t, P, mu, rw, n)
  PROVE  RwAnnounceable(f, P, rw)
<1>1. CASE f \in MutexEvents(t, P, mu)
  BY <1>1 DEF MutexEvents, Ev, RwAnnounceable, Acquires
<1>2. CASE f \in RwlockEvents(t, P, rw)
  <2>1. f.type = "RWLOCK_DESTROY" => \A x \in P : ~UsesRwlock(x, f.obj)
    BY <1>2 DEF RwlockEvents, Ev
  <2>2. \A l \in Rwlocks : Acquires(f, l)
          => rw[l] # RwAbsent /\ \A x \in P : x.obj = l => x.type # "RWLOCK_DESTROY"
    BY <1>2 DEF RwlockEvents, Ev, Acquires
  <2> QED
    BY <2>1, <2>2 DEF RwAnnounceable, RwlockUse, Acquires, UsesRwlock, RwlockTypes
<1>3. CASE f \in CondEvents(t) \cup ObjectEvents(t) \cup ThreadEvents(t, n)
  BY <1>3 DEF CondEvents, ObjectEvents, ObjectTypes, ThreadEvents, Ev, RwAnnounceable, Acquires
<1> QED
  BY <1>1, <1>2, <1>3 DEF Legal

\* What the program announces next uses read-write locks correctly.
LEMMA NextRwAnnounceable ==
  ASSUME NEW e, NEW P, NEW mu, NEW rw, NEW n, RwlockUse(P, rw),
         NEW f \in NextEvents(e, P, mu, rw, n)
  PROVE  RwAnnounceable(f, P, rw)
<1>1. CASE f \in Legal(e.tid, P, mu, rw, n)
  BY <1>1, LegalRwAnnounceable
<1>2. CASE f \notin Legal(e.tid, P, mu, rw, n)
  BY <1>2 DEF NextEvents, Ev, RwAnnounceable, Acquires
<1> QED
  BY <1>1, <1>2

\* What the two sets and the table of read-write locks promise one another.
RwlocksRight(p, rw) == RwlockUse(PendingIn(p), rw) /\ NotForgotten(p, rw)

\* The inductive invariant.
RwlockInv == Inv /\ RwlocksRight(Current, rwlocks)

\* It holds of the first state.
LEMMA RwlockInvInit == Init => RwlockInv
<1> SUFFICES ASSUME Init PROVE RwlockInv
  OBVIOUS
<1>1. Inv
  BY InvInit
<1>2. RwlocksRight(Current, rwlocks)
  BY DEF Init, RwlocksRight, RwlockUse, NotForgotten, Acquires, Current, PendingIn, Start, Ev
<1> QED
  BY <1>1, <1>2 DEF RwlockInv

\* What executing e does to the locks, before any event is added.
LEMMA ExecutedRwlocks ==
  ASSUME RwlockInv, NEW e \in enabled, NEW explored,
         CanExecute(e, explored), Execute(e, explored)
  PROVE  /\ RwlocksRight(After(e), rwlocks') /\ rwlocks' \in RwlockIndex
         /\ After(e) \in PairsOver(Event) /\ OnePer(After(e))
         /\ PendingIn(After(e)) = Pending \ {e}
<1>1. /\ Current \in PairsOver(Event) /\ OnePer(Current) /\ e \in Current.enabled
      /\ After(e) = AfterExecuting(Current, e) /\ rwlocks \in RwlockIndex
  BY CurrentSets DEF RwlockInv, Inv, TypeOK
<1>2. RwlockAsserts(rwlocks, e) /\ rwlocks' = ExecuteRwlocks(rwlocks, e)
  BY DEF CanExecute, ExecuteAsserts, Execute
<1>3. RwlocksRight(After(e), rwlocks')
  BY <1>1, <1>2, ExecutingRwlocks DEF RwlockInv, RwlocksRight
<1>4. rwlocks' \in RwlockIndex
  BY Executing DEF RwlockInv, RwlockIndex
<1> QED
  BY <1>3, <1>4, Executing DEF RwlockInv

\* An event after which its thread goes on keeps it.
LEMMA ExecuteEventRwlockInv ==
  ASSUME RwlockInv, NEW e \in enabled, NEW explored, ExecuteEvent(e, explored)
  PROVE  RwlockInv'
<1>1. CanExecute(e, explored) /\ Execute(e, explored)
  BY DEF ExecuteEvent
<1>2. Inv /\ Inv'
  BY ExecuteEventInv DEF RwlockInv
<1>3. PICK next \in NextEvents(e, Pending \ {e}, mutexes', rwlocks', nthreads) :
        /\ next \in Event
        /\ \A x \in PendingIn(After(e)) : x.tid # next.tid
        /\ Current' = Added(After(e), next)
  BY <1>2, EventStep
<1>4. /\ RwlocksRight(After(e), rwlocks') /\ rwlocks' \in RwlockIndex
      /\ After(e) \in PairsOver(Event) /\ OnePer(After(e))
      /\ PendingIn(After(e)) = Pending \ {e}
  BY <1>1, ExecutedRwlocks
<1>5. RwAnnounceable(next, Pending \ {e}, rwlocks')
  BY <1>3, <1>4, NextRwAnnounceable DEF RwlocksRight
<1>6. RwlocksRight(Current', rwlocks')
  BY <1>3, <1>4, <1>5, AddingRwlocks DEF Added, RwlocksRight
<1> QED
  BY <1>2, <1>6 DEF RwlockInv

\* The end of a thread keeps it.
LEMMA ExecuteEndRwlockInv ==
  ASSUME RwlockInv, NEW e \in enabled, NEW explored, ExecuteEnd(e, explored)
  PROVE  RwlockInv'
<1>1. CanExecute(e, explored) /\ Execute(e, explored)
  BY DEF ExecuteEnd
<1>2. Inv /\ Inv'
  BY ExecuteEndInv DEF RwlockInv
<1>3. Current' = After(e)
  BY <1>2, EndStep
<1> QED
  BY <1>1, <1>2, <1>3, ExecutedRwlocks DEF RwlockInv

\* The creation of a thread keeps it.
LEMMA ExecuteCreateRwlockInv ==
  ASSUME RwlockInv, NEW e \in enabled, NEW explored, ExecuteCreate(e, explored)
  PROVE  RwlockInv'
<1>1. CanExecute(e, explored) /\ Execute(e, explored)
  BY DEF ExecuteCreate
<1>2. Inv /\ Inv'
  BY ExecuteCreateInv DEF RwlockInv
<1>3. \A x \in Pending : x.tid # nthreads
  BY <1>2, CreateStep
<1>4. PICK first \in Event, next \in Event : Creation(e, first, next)
  BY <1>2, CreateStep
<1> DEFINE p == Added(After(e), first)
<1>5. /\ RwlocksRight(After(e), rwlocks') /\ rwlocks' \in RwlockIndex
      /\ After(e) \in PairsOver(Event) /\ OnePer(After(e))
      /\ PendingIn(After(e)) = Pending \ {e}
  BY <1>1, ExecutedRwlocks
<1>6. RwAnnounceable(first, Pending \ {e}, rwlocks')
  BY <1>4, <1>5, LegalRwAnnounceable DEF Creation, FirstEvents, RwlocksRight
<1>7. RwlocksRight(p, rwlocks')
  <2>1. \A x \in PendingIn(After(e)) : x.tid # first.tid
    BY <1>3, <1>4, <1>5 DEF Creation
  <2> QED
    BY <1>5, <1>6, <2>1, AddingRwlocks DEF Added, RwlocksRight
<1>8. /\ p \in PairsOver(Event) /\ OnePer(p)
      /\ PendingIn(p) = (Pending \ {e}) \cup {first}
      /\ \A x \in PendingIn(p) : x.tid # next.tid
      /\ Current' = Added(p, next)
  BY <1>4 DEF Creation
<1>9. RwAnnounceable(next, PendingIn(p), rwlocks')
  BY <1>4, <1>7, <1>8, NextRwAnnounceable DEF Creation, RwlocksRight
<1> HIDE DEF p
<1>10. RwlocksRight(Current', rwlocks')
  BY <1>5, <1>7, <1>8, <1>9, AddingRwlocks DEF Added, RwlocksRight
<1> QED
  BY <1>2, <1>10 DEF RwlockInv

\* Every step keeps it.
LEMMA RwlockInvNext == RwlockInv /\ [Next]_vars => RwlockInv'
<1> SUFFICES ASSUME RwlockInv, [Next]_vars PROVE RwlockInv'
  OBVIOUS
<1>1. ASSUME NEW e \in enabled, NEW explored, ExecuteEvent(e, explored) PROVE RwlockInv'
  BY <1>1, ExecuteEventRwlockInv
<1>2. ASSUME NEW e \in enabled, NEW explored, ExecuteEnd(e, explored) PROVE RwlockInv'
  BY <1>2, ExecuteEndRwlockInv
<1>3. ASSUME NEW e \in enabled, NEW explored, ExecuteCreate(e, explored) PROVE RwlockInv'
  BY <1>3, ExecuteCreateRwlockInv
<1>4. Inv'
  BY InvNext DEF RwlockInv
<1>5. ASSUME NEW e \in enabled, Abort(e) PROVE RwlockInv'
  BY <1>4, <1>5 DEF Abort, RwlockInv, Current
<1>6. CASE UNCHANGED vars
  BY <1>4, <1>6 DEF vars, RwlockInv, Current
<1> QED
  BY <1>1, <1>2, <1>3, <1>5, <1>6 DEF Next

\* No wake-up of a writer is lost, although update_disabled_set wakes readers
\* or one writer and does not look at the lock.
THEOREM WriterNotForgottenHolds == Spec => []WriterNotForgotten
<1>1. RwlockInv => WriterNotForgotten
  BY CurrentSets DEF RwlockInv, RwlocksRight, NotForgotten, WriterNotForgotten, Acquires
<1> QED
  BY <1>1, RwlockInvInit, RwlockInvNext, PTL DEF Spec
=============================================================================
