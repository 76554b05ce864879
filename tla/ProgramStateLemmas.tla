------------------------- MODULE ProgramStateLemmas -------------------------
(***************************************************************************)
(* Facts about the operators of ProgramState, for any set E of events: what *)
(* executing an event and adding one do to a pair of enabled and disabled  *)
(* sets.  Every proof about a run of the program, and every proof about    *)
(* the exploration, takes the steps of next_state apart with them.         *)
(***************************************************************************)
EXTENDS ProgramState, WellFoundedInduction, TLAPS

\* The pairs of an enabled and a disabled set of events of E.
PairsOver(E) == [enabled : SUBSET E, disabled : SUBSET E]

\* At most one event per thread, in one of the two sets.
OnePer(p) ==
  /\ p.enabled \cap p.disabled = {}
  /\ \A x, y \in PendingIn(p) : x.tid = y.tid => x = y

----------------------------------------------------------------------------
(* Executing an event, and adding one.                                     *)

\* Removing the executed event, blocking and waking others leaves every
\* other pending event pending, in exactly one of the two sets.
LEMMA AfterExecutingSets ==
  ASSUME NEW E, NEW p \in PairsOver(E), NEW e \in p.enabled, OnePer(p)
  PROVE  LET q == AfterExecuting(p, e)
         IN  /\ q \in PairsOver(E)
             /\ PendingIn(q) = PendingIn(p) \ {e}
             /\ OnePer(q)
             /\ \A x \in PendingIn(q) : x.tid # e.tid
             /\ \A x \in p.enabled \ {e} : ~CanDisable(e, x) => x \in q.enabled
<1> DEFINE blocked == ToBeDisabled(p.enabled \ {e}, e)
           waiting == p.disabled \cup blocked
           woken   == ToBeEnabled(waiting, e)
           q        == [enabled  |-> ((p.enabled \ {e}) \ blocked) \cup woken,
                        disabled |-> waiting \ woken]
<1>1. AfterExecuting(p, e) = q
  BY DEF AfterExecuting
<1>2. blocked = {x \in p.enabled \ {e} : CanDisable(e, x)}
  BY DEF ToBeDisabled
<1>3. woken \subseteq waiting
  BY DEF ToBeEnabled, WokenWaiters, WokenLockers
<1> HIDE DEF blocked, woken
<1>4. p.enabled \subseteq E /\ p.disabled \subseteq E
  BY DEF PairsOver
<1>5. q \in PairsOver(E)
  BY <1>2, <1>3, <1>4 DEF PairsOver
<1>6. PendingIn(q) = PendingIn(p) \ {e}
  BY <1>2, <1>3 DEF PendingIn, OnePer
<1>7. OnePer(q)
  BY <1>2, <1>3, <1>6 DEF PendingIn, OnePer
<1>8. \A x \in PendingIn(q) : x.tid # e.tid
  BY <1>6 DEF PendingIn, OnePer
<1>9. \A x \in p.enabled \ {e} : ~CanDisable(e, x) => x \in q.enabled
  BY <1>2
<1> QED
  BY <1>1, <1>5, <1>6, <1>7, <1>8, <1>9

\* A new event of a thread without a pending one becomes pending, and no
\* other event moves.
LEMMA AddTransitionSets ==
  ASSUME NEW E, NEW p \in PairsOver(E), OnePer(p), NEW f \in E, NEW mu, NEW rw,
         \A x \in PendingIn(p) : x.tid # f.tid
  PROVE  LET q == AddTransition(p, mu, rw, f)
         IN  /\ q \in PairsOver(E)
             /\ PendingIn(q) = PendingIn(p) \cup {f}
             /\ OnePer(q)
             /\ p.enabled \subseteq q.enabled
             /\ p.disabled \subseteq q.disabled
<1>1. p.enabled \subseteq E /\ p.disabled \subseteq E
  BY DEF PairsOver
<1>2. Insert(p.enabled, f) = p.enabled \cup {f}
  BY DEF Insert, EventsOf, PendingIn
<1>3. Insert(p.disabled, f) = p.disabled \cup {f}
  BY DEF Insert, EventsOf, PendingIn
<1>4. f \notin PendingIn(p)
  OBVIOUS
<1>5. CASE StartsEnabled(PendingIn(p), mu, rw, f)
  <2> DEFINE q == [p EXCEPT !.enabled = p.enabled \cup {f}]
  <2>1. AddTransition(p, mu, rw, f) = q
    BY <1>2, <1>5 DEF AddTransition
  <2>2. q.enabled = p.enabled \cup {f} /\ q.disabled = p.disabled /\ q \in PairsOver(E)
    BY <1>1 DEF PairsOver
  <2> QED
    BY <2>1, <2>2, <1>4 DEF OnePer, PendingIn
<1>6. CASE ~StartsEnabled(PendingIn(p), mu, rw, f)
  <2> DEFINE q == [p EXCEPT !.disabled = p.disabled \cup {f}]
  <2>1. AddTransition(p, mu, rw, f) = q
    BY <1>3, <1>6 DEF AddTransition
  <2>2. q.disabled = p.disabled \cup {f} /\ q.enabled = p.enabled /\ q \in PairsOver(E)
    BY <1>1 DEF PairsOver
  <2> QED
    BY <2>1, <2>2, <1>4 DEF OnePer, PendingIn
<1> QED
  BY <1>5, <1>6

\* No event both blocks and wakes: which events are enabled after e is told by
\* can_disable and by update_disabled_set alone.
LEMMA AfterExecutingEnabled ==
  ASSUME NEW E, NEW p \in PairsOver(E), NEW e \in p.enabled, OnePer(p)
  PROVE  AfterExecuting(p, e).enabled
           = {x \in p.enabled \ {e} : ~CanDisable(e, x)} \cup ToBeEnabled(p.disabled, e)
<1> DEFINE blocked == ToBeDisabled(p.enabled \ {e}, e)
           woken   == ToBeEnabled(p.disabled \cup blocked, e)
<1>1. AfterExecuting(p, e).enabled = ((p.enabled \ {e}) \ blocked) \cup woken
  BY DEF AfterExecuting
<1>2. blocked = {x \in p.enabled \ {e} : CanDisable(e, x)}
  BY DEF ToBeDisabled
<1>3. CASE e.type \in {"MUTEX_LOCK", "RWLOCK_WRLOCK", "RWLOCK_RDLOCK"}
  <2>1. woken = {} /\ ToBeEnabled(p.disabled, e) = {}
    BY <1>3 DEF ToBeEnabled, CanEnable, WokenWaiters, WokenLockers
  <2> QED
    BY <1>1, <1>2, <2>1
<1>4. CASE e.type \notin {"MUTEX_LOCK", "RWLOCK_WRLOCK", "RWLOCK_RDLOCK"}
  <2>1. blocked = {}
    BY <1>2, <1>4 DEF CanDisable
  <2> HIDE DEF blocked
  <2>2. woken = ToBeEnabled(p.disabled, e)
    BY <2>1
  <2> QED
    BY <1>1, <1>2, <2>1, <2>2
<1> QED
  BY <1>3, <1>4

\* add_transition enables the new event exactly if its test says so, and no
\* other event.
LEMMA AddTransitionEnabled ==
  ASSUME NEW E, NEW p \in PairsOver(E), NEW f, NEW mu, NEW rw,
         \A x \in PendingIn(p) : x.tid # f.tid
  PROVE  AddTransition(p, mu, rw, f).enabled
           = p.enabled \cup {x \in {f} : StartsEnabled(PendingIn(p), mu, rw, x)}
<1>1. Insert(p.enabled, f) = p.enabled \cup {f}
  BY DEF Insert, EventsOf, PendingIn
<1>2. CASE StartsEnabled(PendingIn(p), mu, rw, f)
  BY <1>1, <1>2 DEF AddTransition, PairsOver
<1>3. CASE ~StartsEnabled(PendingIn(p), mu, rw, f)
  BY <1>3 DEF AddTransition, PairsOver
<1> QED
  BY <1>2, <1>3

\* A set of events that is not empty has one of the lowest thread, so that
\* get_transition and the wake-up of one waiter find one.
LEMMA LowestThread ==
  ASSUME NEW S, S # {}, \A x \in S : x.tid \in Nat
  PROVE  \E x \in S : \A y \in S : x.tid <= y.tid
<1> DEFINE Less == OpToRel(<, Nat)
           Ids == {x.tid : x \in S}
<1>1. \A i, j \in Nat : i < j => <<i, j>> \in Less
  BY DEF OpToRel
<1>2. IsWellFoundedOn(Less, Nat)
  BY NatLessThanWellFounded
<1>3. Ids \subseteq Nat /\ Ids # {}
  OBVIOUS
<1> HIDE DEF Less, Ids
<1>4. PICK t \in Ids : \A u \in Ids : ~(<<u, t>> \in Less)
  BY <1>2, <1>3, WFMin
<1>5. \A u \in Ids : t \in Nat /\ u \in Nat /\ ~(u < t)
  BY <1>1, <1>3, <1>4
<1>6. \A u \in Ids : t <= u
  BY <1>5
<1>7. PICK x \in S : x.tid = t
  BY DEF Ids
<1> QED
  BY <1>6, <1>7 DEF Ids

----------------------------------------------------------------------------
(* Joins.                                                                  *)

\* The threads of the events P.
Tids(P) == {x.tid : x \in P}

\* The pending joins of p are right about the set T of running threads.
JoinExact(p, T) ==
  \A x \in PendingIn(p) :
    x.type = "THREAD_JOIN" => (x \in p.enabled <=> x.aux \notin T)

\* While the creator of a thread has no pending event, between the execution
\* of an event and the announcement of the next one, it runs all the same: the
\* joins that wait for it stay blocked.  Only its end wakes them.
LEMMA ExecutingJoins ==
  ASSUME NEW E, NEW p \in PairsOver(E), NEW e \in p.enabled, OnePer(p),
         JoinExact(p, Tids(PendingIn(p))),
         \A x \in PendingIn(p) : x.type = "THREAD_JOIN" => x.aux # x.tid
  PROVE  JoinExact(AfterExecuting(p, e),
                   IF e.type = "THREAD_END" THEN Tids(PendingIn(p)) \ {e.tid}
                                            ELSE Tids(PendingIn(p)))
<1> DEFINE q == AfterExecuting(p, e)
           T == Tids(PendingIn(p))
<1>1. /\ PendingIn(q) = PendingIn(p) \ {e}
      /\ \A x \in PendingIn(p) \ {e} : x.tid # e.tid
  BY AfterExecutingSets
<1>2. q.enabled = {x \in p.enabled \ {e} : ~CanDisable(e, x)} \cup ToBeEnabled(p.disabled, e)
  BY AfterExecutingEnabled
<1>3. e.tid \in T
  BY DEF Tids, PendingIn
<1> SUFFICES ASSUME NEW x \in PendingIn(p) \ {e}, x.type = "THREAD_JOIN"
             PROVE  x \in q.enabled
                      <=> x.aux \notin IF e.type = "THREAD_END" THEN T \ {e.tid} ELSE T
  BY <1>1 DEF JoinExact
<1> HIDE DEF q, T
<1>4. ~CanDisable(e, x)
  BY DEF CanDisable
<1>5. x \in ToBeEnabled(p.disabled, e)
        <=> x \in p.disabled /\ e.type = "THREAD_END" /\ x.aux = e.tid
  BY <1>1 DEF ToBeEnabled, CanEnable, WokenWaiters, WokenLockers
<1>6. x \in p.enabled <=> x \notin p.disabled
  BY DEF OnePer, PendingIn
<1>7. x \in p.enabled <=> x.aux \notin T
  BY DEF JoinExact, T
<1> QED
  BY <1>2, <1>3, <1>4, <1>5, <1>6, <1>7

\* Adding f to p leaves its joins right about the set U of running threads, if
\* the others cannot tell it from T, and f's test of its thread is right.
LEMMA AddingJoins ==
  ASSUME NEW E, NEW p \in PairsOver(E), OnePer(p), NEW f \in E, NEW mu, NEW rw,
         \A x \in PendingIn(p) : x.tid # f.tid,
         NEW T, NEW U, JoinExact(p, T),
         \A x \in PendingIn(p) : x.type = "THREAD_JOIN" => (x.aux \in T <=> x.aux \in U),
         f.type = "THREAD_JOIN" => (f.aux \in Tids(PendingIn(p)) <=> f.aux \in U)
  PROVE  JoinExact(AddTransition(p, mu, rw, f), U)
<1> DEFINE q == AddTransition(p, mu, rw, f)
<1>1. PendingIn(q) = PendingIn(p) \cup {f}
  BY AddTransitionSets
<1>2. q.enabled = p.enabled \cup {x \in {f} : StartsEnabled(PendingIn(p), mu, rw, x)}
  BY AddTransitionEnabled
<1>3. f \notin p.enabled
  BY DEF PendingIn
<1>4. f.type = "THREAD_JOIN" => (StartsEnabled(PendingIn(p), mu, rw, f) <=> f.aux \notin U)
  BY DEF StartsEnabled, Alive, Tids
<1> HIDE DEF q
<1> QED
  BY <1>1, <1>2, <1>3, <1>4 DEF JoinExact, q
=============================================================================
