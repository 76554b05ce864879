------------------------- MODULE ContextBoundProofs -------------------------
(***************************************************************************)
(* Theorems about ContextBound, for any programs, threads, objects and     *)
(* bound.  Its stack breaks some of what SourceDPORProofs says of          *)
(* SourceDPOR's (it wakes sleeping events): the invariant here is about    *)
(* the selected events and the clock vectors alone.                        *)
(***************************************************************************)
EXTENDS ContextBound, SourceDPORProofs

\* Only main has run before state k of the stack s.
MainAlone(s, k) == \A j \in 1 .. k - 1 : s[j].sel.tid = 0

\* A state whose pending events are of threads that have a clock vector.
KnownState(st) ==
  /\ DOMAIN st = StateFields /\ DOMAIN st.p = {"enabled", "disabled"}
  /\ \E n \in Nat : IsVectors(st.clocks, n)
  /\ \A x \in PendingIn(st.p) : x.tid \in DOMAIN st.clocks

\* The clock of main, while it is alone, counts its events and nothing else.
MainClock(s, k) ==
  MainAlone(s, k) =>
    /\ 0 \in DOMAIN s[k].clocks /\ 0 \in DOMAIN s[k].clocks[0]
    /\ \A i \in DOMAIN s[k].clocks[0] : s[k].clocks[0][i] = IF i = 0 THEN k - 1 ELSE -1

\* A thread that main has created alone keeps the count of main's events up to
\* its creation.
ChildClock(s, k) ==
  \A c \in 1 .. k - 1 : MainAlone(s, c + 1) =>
    \A t \in DOMAIN s[c + 1].clocks \ DOMAIN s[c].clocks :
      t # 0 /\ t \in DOMAIN s[k].clocks /\ Entry(s[k].clocks[t], 0) = c

\* The invariant of the stack: the event executed in a state was pending in it,
\* in the first one that is main's, and the clocks are right.
WalkInv(s) ==
  /\ IsStack(s)
  /\ \A x \in PendingIn(s[1].p) : x.tid = 0
  /\ \A k \in 1 .. Len(s) - 1 : \E x \in PendingIn(s[k].p) : x.tid = s[k].sel.tid
  /\ \A k \in 1 .. Len(s) : KnownState(s[k]) /\ MainClock(s, k) /\ ChildClock(s, k)

\* t is s in the fields the invariant is about.
SameClocks(s, t, k) ==
  DOMAIN t[k] = StateFields /\ t[k].p = s[k].p /\ t[k].clocks = s[k].clocks

----------------------------------------------------------------------------
(* Steps.                                                                  *)

\* Adding an event makes no other pending.
LEMMA AddingTids ==
  ASSUME NEW T, NEW p, DOMAIN p = {"enabled", "disabled"},
         \A x \in PendingIn(p) : x.tid \in T,
         NEW mu, NEW rw, NEW f, f.tid \in T
  PROVE  LET q == AddTransition(p, mu, rw, f)
         IN  DOMAIN q = {"enabled", "disabled"} /\ \A x \in PendingIn(q) : x.tid \in T
BY DEF AddTransition, PendingIn, Insert

\* Executing an event leaves the pending events pending, or removes them.
LEMMA ExecutingTids ==
  ASSUME NEW T, NEW p, \A x \in PendingIn(p) : x.tid \in T, NEW e \in p.enabled
  PROVE  LET q == AfterExecuting(p, e)
         IN  DOMAIN q = {"enabled", "disabled"} /\ \A x \in PendingIn(q) : x.tid \in T
<1>1. ToBeDisabled(p.enabled \ {e}, e) \subseteq p.enabled
  BY DEF ToBeDisabled
<1>2. \A D : ToBeEnabled(D, e) \subseteq D
  BY DEF ToBeEnabled, WokenWaiters, WokenLockers
<1> QED
  BY <1>1, <1>2 DEF AfterExecuting, PendingIn

\* The vectors after the event e.
LEMMA NewVectors ==
  ASSUME NEW st, KnownState(st), NEW e, StateAsserts(st, e)
  PROVE  /\ \E n \in Nat : IsVectors(NewClocks(st, e), n)
         /\ DOMAIN st.clocks \subseteq DOMAIN NewClocks(st, e)
         /\ e.tid \in DOMAIN st.clocks
         /\ Creates(e) => /\ NewThread(pc) \in DOMAIN NewClocks(st, e)
                          /\ NewThread(pc) \notin DOMAIN st.clocks
         /\ \A t \in DOMAIN NewClocks(st, e) \ DOMAIN st.clocks :
              Creates(e) /\ t = NewThread(pc)
<1>1. PICK n \in Nat : IsVectors(st.clocks, n)
  BY DEF KnownState
<1>2. e \in st.p.enabled /\ e.tid \in DOMAIN st.clocks /\ DOMAIN st.clocks = 0 .. n - 1
  BY <1>1 DEF StateAsserts, KnownState, PendingIn, IsVectors
<1>3. IsVectors(Tick(st.clocks, e.tid), n)
  BY <1>1, TickVectors
<1>4. CASE ~Creates(e)
  BY <1>2, <1>3, <1>4 DEF NewClocks, IsVectors
<1>5. CASE Creates(e)
  <2> DEFINE c == AddThread(Tick(st.clocks, e.tid), n, e.tid)
  <2>1. NewThread(pc) = n
    BY <1>1, <1>5, VectorsAreLists DEF StateAsserts, CreateAsserts, AddThreadAsserts
  <2>2. IsVectors(c, n + 1) /\ NewClocks(st, e) = c
    BY <1>2, <1>3, <1>5, <2>1, AddThreadVectors DEF NewClocks
  <2> HIDE DEF c
  <2>3. DOMAIN NewClocks(st, e) = 0 .. n /\ n + 1 \in Nat
    BY <2>2 DEF IsVectors
  <2>4. \A t \in 0 .. n : t \in 0 .. n - 1 \/ t = n
    OBVIOUS
  <2>5. \A t \in DOMAIN NewClocks(st, e) \ DOMAIN st.clocks : t = n
    BY <1>2, <2>3, <2>4
  <2>6. n \in 0 .. n /\ n \notin 0 .. n - 1 /\ 0 .. n - 1 \subseteq 0 .. n
    OBVIOUS
  <2> QED
    BY <1>2, <1>5, <2>1, <2>2, <2>3, <2>5, <2>6
<1> QED
  BY <1>4, <1>5

\* What is pending in the new state is of threads with a vector.
LEMMA NewKnown ==
  ASSUME NEW st, KnownState(st), NEW e, StateAsserts(st, e),
         NEW mutexes, NEW rwlocks, NEW at
  PROVE  LET q == NewPending(st, e, mutexes, rwlocks, at)
         IN  /\ DOMAIN q = {"enabled", "disabled"}
             /\ \A x \in PendingIn(q) : x.tid \in DOMAIN NewClocks(st, e)
<1> DEFINE T == DOMAIN NewClocks(st, e)
           q == AfterExecuting(st.p, e)
           r == IF Creates(e) THEN AddTransition(q, mutexes, rwlocks, Announced(program, at, NewThread(pc)))
                ELSE q
<1>1. \A t : Announced(program, at, t).tid = t
  BY DEF Announced, Ev
<1>2. /\ \A x \in PendingIn(st.p) : x.tid \in T
      /\ e.tid \in T /\ e \in st.p.enabled /\ (Creates(e) => NewThread(pc) \in T)
  BY NewVectors DEF KnownState, StateAsserts
<1> HIDE DEF T
<1>3. DOMAIN q = {"enabled", "disabled"} /\ \A x \in PendingIn(q) : x.tid \in T
  BY <1>2, ExecutingTids
<1> HIDE DEF q
<1>4. DOMAIN r = {"enabled", "disabled"} /\ \A x \in PendingIn(r) : x.tid \in T
  <2> DEFINE f == Announced(program, at, NewThread(pc))
  <2>1. CASE Creates(e)
    <3>1. f.tid \in T
      BY <1>1, <1>2, <2>1
    <3>2. r = AddTransition(q, mutexes, rwlocks, f)
      BY <2>1
    <3> HIDE DEF f, r
    <3> QED
      BY <1>3, <3>1, <3>2, AddingTids
  <2> QED
    BY <1>3, <2>1
<1>5. NewPending(st, e, mutexes, rwlocks, at)
        = IF e.type = "THREAD_END" THEN r
          ELSE AddTransition(r, mutexes, rwlocks, Announced(program, at, e.tid))
  BY DEF NewPending, r, q
<1> HIDE DEF r
<1> DEFINE f == Announced(program, at, e.tid)
<1>6. f.tid \in T
  BY <1>1, <1>2
<1>7. NewPending(st, e, mutexes, rwlocks, at) \in {r, AddTransition(r, mutexes, rwlocks, f)}
  BY <1>5
<1> HIDE DEF f
<1> DEFINE new == NewPending(st, e, mutexes, rwlocks, at)
<1> HIDE DEF new
<1>8. new \in {r, AddTransition(r, mutexes, rwlocks, f)}
  BY <1>7 DEF new
<1>9. DOMAIN new = {"enabled", "disabled"} /\ \A x \in PendingIn(new) : x.tid \in T
  BY <1>4, <1>6, <1>8, AddingTids
<1> QED
  BY <1>9 DEF T, new

\* The clock of main after an event of its own.
LEMMA MainTicks ==
  ASSUME NEW st, KnownState(st), NEW e, StateAsserts(st, e), e.tid = 0,
         0 \in DOMAIN st.clocks[0], NEW k \in Nat,
         \A i \in DOMAIN st.clocks[0] : st.clocks[0][i] = IF i = 0 THEN k ELSE -1
  PROVE  LET v == NewClocks(st, e)[0]
         IN  0 \in DOMAIN v /\ \A i \in DOMAIN v : v[i] = IF i = 0 THEN k + 1 ELSE -1
<1> DEFINE v == st.clocks[0]
           u == Store(v, 0, Entry(v, 0) + 1)
<1>1. PICK n \in Nat : IsVectors(st.clocks, n)
  BY DEF KnownState
<1> DEFINE c == Tick(st.clocks, 0)
<1>2. e.tid \in DOMAIN st.clocks /\ c[0] = u /\ DOMAIN c = DOMAIN st.clocks
  BY NewVectors DEF Tick
<1>3. PICK w \in Nat : v \in [0 .. w - 1 -> {-1} \cup Nat]
  BY <1>1, <1>2 DEF IsVectors, IsVector
<1> HIDE DEF v
<1>4. /\ u \in [0 .. w - 1 -> Int] /\ 0 \in 0 .. w - 1
      /\ \A i \in 0 .. w - 1 : u[i] = IF i = 0 THEN k + 1 ELSE -1
  BY <1>3 DEF v, Store, Entry
<1> HIDE DEF u
<1>5. CASE ~Creates(e)
  <2>1. NewClocks(st, e) = c
    BY <1>5 DEF NewClocks
  <2> HIDE DEF c
  <2> QED
    BY <1>2, <1>4, <2>1
<1>6. CASE Creates(e)
  <2>1. Width(u) = w
    <3>1. Cardinality(0 .. w - 1) = w
      BY FS_Interval
    <3> QED
      BY <1>4, <3>1 DEF Width
  <2>2. NewClocks(st, e)[0] = Widened(u)
    <3>1. NewClocks(st, e) = AddThread(c, NewThread(pc), 0)
      BY <1>6 DEF NewClocks
    <3>2. 0 \in DOMAIN c /\ NewThread(pc) # 0
      BY <1>2, <1>6, NewVectors
    <3> HIDE DEF c
    <3> QED
      BY <1>2, <3>1, <3>2 DEF AddThread
  <2>3. /\ DOMAIN Widened(u) = 0 .. w
        /\ \A i \in 0 .. w : Widened(u)[i] = IF i = 0 THEN k + 1 ELSE -1
    BY <1>4, <2>1 DEF Widened, Entry
  <2> QED
    BY <1>4, <2>2, <2>3
<1> QED
  BY <1>5, <1>6

\* A thread main creates is not main and starts with main's count.
LEMMA ChildStarts ==
  ASSUME NEW st, KnownState(st), NEW e, StateAsserts(st, e), e.tid = 0, Creates(e),
         0 \in DOMAIN st.clocks[0], NEW k \in Nat, st.clocks[0][0] = k
  PROVE  /\ NewThread(pc) # 0
         /\ Entry(NewClocks(st, e)[NewThread(pc)], 0) = k + 1
<1> DEFINE v == st.clocks[0]
           u == Store(v, 0, Entry(v, 0) + 1)
           n == NewThread(pc)
<1> DEFINE c == Tick(st.clocks, 0)
<1>1. /\ e.tid \in DOMAIN st.clocks /\ c[0] = u /\ DOMAIN c = DOMAIN st.clocks
      /\ n \notin DOMAIN st.clocks
  BY NewVectors DEF Tick
<1>2. PICK w \in Nat : v \in [0 .. w - 1 -> {-1} \cup Nat]
  <2>1. PICK m \in Nat : IsVectors(st.clocks, m)
    BY DEF KnownState
  <2> QED
    BY <1>1, <2>1 DEF IsVectors, IsVector
<1> HIDE DEF v
<1>3. u \in [0 .. w - 1 -> Int] /\ 0 \in 0 .. w - 1 /\ u[0] = k + 1
  BY <1>2 DEF v, Store, Entry
<1> HIDE DEF u, n
<1>4. Width(u) = w
  <2>1. Cardinality(0 .. w - 1) = w
    BY FS_Interval
  <2> QED
    BY <1>3, <2>1 DEF Width
<1>5. n # 0
  BY <1>1
<1>6. NewClocks(st, e)[n] = Store(Widened(u), n, 0)
  <2>1. NewClocks(st, e) = AddThread(c, n, 0)
    BY DEF NewClocks, n
  <2> HIDE DEF c
  <2> QED
    BY <1>1, <1>5, <2>1 DEF AddThread
<1>7. Entry(Store(Widened(u), n, 0), 0) = k + 1
  BY <1>3, <1>4, <1>5 DEF Widened, Entry, Store
<1> QED
  BY <1>5, <1>6, <1>7 DEF n

\* What a thread other than main knows of main never changes.
LEMMA CountsRemain ==
  ASSUME NEW st, KnownState(st), NEW e, StateAsserts(st, e),
         NEW t \in DOMAIN st.clocks, t # 0
  PROVE  t \in DOMAIN NewClocks(st, e)
         /\ Entry(NewClocks(st, e)[t], 0) = Entry(st.clocks[t], 0)
<1>1. /\ t \in DOMAIN NewClocks(st, e) /\ e.tid \in DOMAIN st.clocks
      /\ Creates(e) => NewThread(pc) # t
  BY NewVectors
<1> DEFINE v == st.clocks[t]
           c == Tick(st.clocks, e.tid)
           u == c[t]
<1>2. PICK w \in Nat : v \in [0 .. w - 1 -> {-1} \cup Nat]
  BY DEF KnownState, IsVectors, IsVector
<1>3. /\ u = IF t = e.tid THEN Store(v, t, Entry(v, t) + 1) ELSE v
      /\ DOMAIN c = DOMAIN st.clocks
  BY DEF Tick
<1> HIDE DEF v
<1>4. Entry(Store(v, t, Entry(v, t) + 1), 0) = Entry(v, 0) /\ Store(v, t, Entry(v, t) + 1) \in [0 .. w - 1 -> Int]
  BY <1>2 DEF Store, Entry
<1>5. Entry(u, 0) = Entry(v, 0) /\ u \in [0 .. w - 1 -> Int]
  BY <1>2, <1>3, <1>4
<1> HIDE DEF u, c
<1>6. Entry(Widened(u), 0) = Entry(u, 0)
  <2>1. Cardinality(0 .. w - 1) = w
    BY FS_Interval
  <2>2. Width(u) = w
    BY <1>5, <2>1 DEF Width
  <2> QED
    BY <1>5, <2>2 DEF Widened, Entry
<1>7. CASE ~Creates(e)
  BY <1>1, <1>5, <1>7 DEF NewClocks, u, v, c
<1>8. CASE Creates(e)
  <2>1. NewClocks(st, e)[t] \in {u, Widened(u)}
    <3>1. NewClocks(st, e) = AddThread(c, NewThread(pc), e.tid)
      BY <1>8 DEF NewClocks, c
    <3> QED
      BY <1>1, <1>3, <1>8, <3>1 DEF AddThread, u
  <2> QED
    BY <1>1, <1>5, <1>6, <2>1 DEF v
<1> QED
  BY <1>7, <1>8

\* s is the stack stk with e executed from its top.
Executes(stk, e, s) ==
  LET n == Len(stk)
  IN  /\ IsStack(s) /\ Len(s) = n + 1
      /\ \A k \in 1 .. n : SameClocks(stk, s, k)
      /\ \A k \in 1 .. n - 1 : s[k].sel = stk[k].sel
      /\ s[n].sel = Selected(pc, e)
      /\ DOMAIN s[n + 1] = StateFields
      /\ \E mutexes, rwlocks, at : s[n + 1].p = NewPending(stk[n], e, mutexes, rwlocks, at)
      /\ s[n + 1].clocks = NewClocks(stk[n], e)

\* What pushing a new state does.
LEMMA PushExecutes ==
  ASSUME NEW stk, IsStack(stk), \A k \in 1 .. Len(stk) : DOMAIN stk[k] = StateFields, NEW e
  PROVE  Executes(stk, e, Push(stk, e))
<1> DEFINE n == Len(stk)
           st == stk[n]
           s == Push(stk, e)
           new == NewState(st, e, Permit(program, pc, e))
<1>1. n \in Nat \ {0} /\ DOMAIN st = StateFields
  BY DEF IsStack
<1>2. /\ IsStack(s) /\ Len(s) = n + 1
      /\ \A k \in 1 .. n - 1 : s[k] = stk[k]
      /\ s[n] = Executed(st, e)
      /\ s[n + 1] \in {new, [new EXCEPT !.switches = new.switches + 1]}
  BY <1>1, PushShape
<1> HIDE DEF s
<1>3. /\ DOMAIN new = StateFields /\ new.clocks = NewClocks(st, e)
      /\ \E mutexes, rwlocks, at : new.p = NewPending(st, e, mutexes, rwlocks, at)
  BY DEF NewState, StateFields
<1> HIDE DEF new
<1>4. /\ DOMAIN s[n + 1] = StateFields /\ s[n + 1].clocks = NewClocks(st, e)
      /\ \E mutexes, rwlocks, at : s[n + 1].p = NewPending(st, e, mutexes, rwlocks, at)
  <2>1. s[n + 1].p = new.p /\ s[n + 1].clocks = new.clocks /\ DOMAIN s[n + 1] = DOMAIN new
    BY <1>2, <1>3 DEF StateFields
  <2> QED
    BY <1>3, <2>1
<1>5. /\ DOMAIN s[n] = StateFields /\ s[n].p = st.p /\ s[n].clocks = st.clocks
      /\ s[n].sel = Selected(pc, e)
  BY <1>1, <1>2, ExecutedFields
<1>6. \A k \in 1 .. n : SameClocks(stk, s, k)
  BY <1>1, <1>2, <1>5 DEF SameClocks
<1> QED
  BY <1>2, <1>4, <1>5, <1>6 DEF Executes, s

\* Executing an event keeps the invariant.
LEMMA ExecutesKeeps ==
  ASSUME NEW stk, WalkInv(stk), NEW e, StateAsserts(stk[Len(stk)], e),
         NEW s, Executes(stk, e, s)
  PROVE  WalkInv(s)
<1> DEFINE n == Len(stk)
           st == stk[n]
<1>1. n \in Nat \ {0} /\ IsStack(s) /\ Len(s) = n + 1
  BY DEF WalkInv, IsStack, Executes
<1>2. /\ \A k \in 1 .. n : SameClocks(stk, s, k)
      /\ \A k \in 1 .. n - 1 : s[k].sel = stk[k].sel
      /\ s[n].sel = Selected(pc, e)
      /\ DOMAIN s[n + 1] = StateFields
      /\ \E mutexes, rwlocks, at : s[n + 1].p = NewPending(stk[n], e, mutexes, rwlocks, at)
      /\ s[n + 1].clocks = NewClocks(stk[n], e)
  BY DEF Executes
<1>3. /\ KnownState(st) /\ MainClock(stk, n) /\ ChildClock(stk, n)
      /\ e \in PendingIn(st.p)
  BY <1>1 DEF WalkInv, StateAsserts, PendingIn
<1>4. s[n].sel.tid = e.tid
  BY <1>2 DEF Selected, Ev
<1>5. \A x \in PendingIn(s[1].p) : x.tid = 0
  BY <1>1, <1>2 DEF WalkInv, SameClocks
<1>6. ASSUME NEW k \in 1 .. Len(s) - 1
      PROVE  \E x \in PendingIn(s[k].p) : x.tid = s[k].sel.tid
  <2>1. k \in 1 .. n /\ s[k].p = stk[k].p
    BY <1>1, <1>2 DEF SameClocks
  <2>2. CASE k = n
    BY <1>3, <1>4, <2>1, <2>2
  <2>3. CASE k \in 1 .. n - 1
    BY <1>2, <2>1, <2>3 DEF WalkInv
  <2> QED
    BY <1>1, <2>1, <2>2, <2>3
<1>7. ASSUME NEW k \in 1 .. n
      PROVE  KnownState(s[k]) /\ MainClock(s, k) /\ ChildClock(s, k)
  <2>1. KnownState(stk[k]) /\ MainClock(stk, k) /\ ChildClock(stk, k) /\ SameClocks(stk, s, k)
    BY <1>2 DEF WalkInv
  <2>2. \A j \in 1 .. k - 1 : s[j].sel = stk[j].sel
    BY <1>1, <1>2
  <2>3. \A j \in 1 .. k : MainAlone(s, j) <=> MainAlone(stk, j)
    BY <2>2 DEF MainAlone
  <2>4. \A c \in 1 .. k - 1 :
          /\ c \in 1 .. n /\ c + 1 \in 1 .. n /\ c + 1 \in 1 .. k
          /\ s[c].clocks = stk[c].clocks /\ s[c + 1].clocks = stk[c + 1].clocks
    BY <1>1, <1>2 DEF SameClocks
  <2>5. ChildClock(s, k)
    BY <2>1, <2>3, <2>4 DEF ChildClock, SameClocks
  <2>6. KnownState(s[k]) /\ MainClock(s, k)
    BY <1>1, <2>1, <2>3 DEF KnownState, MainClock, SameClocks
  <2> QED
    BY <2>5, <2>6
<1>8. KnownState(s[n + 1])
  BY <1>2, <1>3, NewVectors, NewKnown DEF KnownState
<1>9. MainClock(s, n + 1)
  <2>1. SUFFICES ASSUME MainAlone(s, n + 1)
                 PROVE  LET v == s[n + 1].clocks[0]
                        IN  /\ 0 \in DOMAIN s[n + 1].clocks /\ 0 \in DOMAIN v
                            /\ \A i \in DOMAIN v : v[i] = IF i = 0 THEN (n + 1) - 1 ELSE -1
    BY DEF MainClock
  <2>2. \A j \in 1 .. n : s[j].sel.tid = 0
    BY <1>1, <2>1 DEF MainAlone
  <2>3. MainAlone(stk, n) /\ e.tid = 0
    BY <1>1, <1>2, <1>4, <2>2 DEF MainAlone
  <2>4. /\ 0 \in DOMAIN st.clocks[0] /\ 0 \in DOMAIN NewClocks(st, e)
        /\ \A i \in DOMAIN st.clocks[0] : st.clocks[0][i] = IF i = 0 THEN n - 1 ELSE -1
    BY <1>3, <2>3, NewVectors DEF MainClock
  <2>5. n - 1 \in Nat /\ (n - 1) + 1 = (n + 1) - 1
    BY <1>1
  <2>6. LET v == NewClocks(st, e)[0]
        IN  0 \in DOMAIN v /\ \A i \in DOMAIN v : v[i] = IF i = 0 THEN (n - 1) + 1 ELSE -1
    BY <1>3, <2>3, <2>4, <2>5, MainTicks
  <2> QED
    BY <1>2, <2>4, <2>5, <2>6
<1>10. ChildClock(s, n + 1)
  <2>1. SUFFICES ASSUME NEW c \in 1 .. n, MainAlone(s, c + 1),
                        NEW t \in DOMAIN s[c + 1].clocks \ DOMAIN s[c].clocks
                 PROVE  /\ t # 0 /\ t \in DOMAIN NewClocks(st, e)
                        /\ Entry(NewClocks(st, e)[t], 0) = c
    BY <1>1, <1>2 DEF ChildClock
  <2>2. CASE c = n
    <3>1. \A j \in 1 .. n : s[j].sel.tid = 0
      BY <1>1, <2>1, <2>2 DEF MainAlone
    <3>2. MainAlone(stk, n) /\ e.tid = 0
      BY <1>1, <1>2, <1>4, <3>1 DEF MainAlone
    <3>3. t \in DOMAIN NewClocks(st, e) \ DOMAIN st.clocks
      BY <1>1, <1>2, <2>1, <2>2 DEF SameClocks
    <3>4. Creates(e) /\ t = NewThread(pc)
      BY <1>3, <3>3, NewVectors
    <3>5. 0 \in DOMAIN st.clocks[0] /\ st.clocks[0][0] = n - 1 /\ n - 1 \in Nat /\ (n - 1) + 1 = n
      BY <1>1, <1>3, <3>2 DEF MainClock
    <3>6. NewThread(pc) # 0 /\ Entry(NewClocks(st, e)[NewThread(pc)], 0) = (n - 1) + 1
      BY <1>3, <3>2, <3>4, <3>5, ChildStarts
    <3> QED
      BY <2>2, <3>3, <3>4, <3>5, <3>6
  <2>3. CASE c \in 1 .. n - 1
    <3>1. c \in 1 .. n /\ c + 1 \in 1 .. n /\ \A j \in 1 .. (c + 1) - 1 : j \in 1 .. n - 1
      BY <1>1, <2>3
    <3>2. MainAlone(stk, c + 1)
      BY <1>2, <2>1, <3>1 DEF MainAlone
    <3>3. t \in DOMAIN stk[c + 1].clocks \ DOMAIN stk[c].clocks
      BY <1>2, <2>1, <3>1 DEF SameClocks
    <3>4. t # 0 /\ t \in DOMAIN st.clocks /\ Entry(st.clocks[t], 0) = c
      BY <1>3, <2>3, <3>2, <3>3 DEF ChildClock
    <3> QED
      BY <1>3, <3>4, CountsRemain
  <2> QED
    BY <1>1, <2>2, <2>3
<1>11. \A k \in 1 .. Len(s) : k \in 1 .. n \/ k = n + 1
  BY <1>1
<1> QED
  BY <1>1, <1>5, <1>6, <1>7, <1>8, <1>9, <1>10, <1>11 DEF WalkInv

----------------------------------------------------------------------------
(* The other changes of the stack.                                         *)

\* A stack of the same states, with other sets of events, keeps the invariant.
LEMMA RestackedKeeps ==
  ASSUME NEW stk, WalkInv(stk), NEW s, IsStack(s), Len(s) = Len(stk),
         \A k \in 1 .. Len(stk) : SameClocks(stk, s, k) /\ s[k].sel = stk[k].sel
  PROVE  WalkInv(s)
<1> DEFINE n == Len(stk)
<1>1. n \in Nat \ {0} /\ Len(s) = n
  BY DEF WalkInv, IsStack
<1>2. ASSUME NEW k \in 1 .. n
      PROVE  KnownState(s[k]) /\ MainClock(s, k) /\ ChildClock(s, k)
  <2>1. KnownState(stk[k]) /\ MainClock(stk, k) /\ ChildClock(stk, k) /\ SameClocks(stk, s, k)
    BY DEF WalkInv
  <2>2. \A j \in 1 .. k - 1 : s[j].sel = stk[j].sel
    BY <1>1
  <2>3. \A j \in 1 .. k : MainAlone(s, j) <=> MainAlone(stk, j)
    BY <2>2 DEF MainAlone
  <2>4. \A c \in 1 .. k - 1 :
          /\ c \in 1 .. n /\ c + 1 \in 1 .. n /\ c + 1 \in 1 .. k
          /\ s[c].clocks = stk[c].clocks /\ s[c + 1].clocks = stk[c + 1].clocks
    BY <1>1 DEF SameClocks
  <2>5. ChildClock(s, k)
    BY <2>1, <2>3, <2>4 DEF ChildClock, SameClocks
  <2>6. KnownState(s[k]) /\ MainClock(s, k)
    BY <1>1, <2>1, <2>3 DEF KnownState, MainClock, SameClocks
  <2> QED
    BY <2>5, <2>6
<1>3. \A k \in 1 .. n - 1 : \E x \in PendingIn(s[k].p) : x.tid = s[k].sel.tid
  BY <1>1 DEF WalkInv, SameClocks
<1>4. \A x \in PendingIn(s[1].p) : x.tid = 0
  BY <1>1 DEF WalkInv, SameClocks
<1> QED
  BY <1>1, <1>2, <1>3, <1>4 DEF WalkInv

\* Popping states keeps the invariant.
LEMMA PrefixKeeps ==
  ASSUME NEW stk, WalkInv(stk), NEW m \in 1 .. Len(stk)
  PROVE  WalkInv(SubSeq(stk, 1, m))
<1> DEFINE S == {stk[k] : k \in 1 .. Len(stk)}
           s == SubSeq(stk, 1, m)
<1>1. stk \in Seq(S) /\ Len(stk) \in Nat \ {0} /\ m \in Nat \ {0} /\ m <= Len(stk)
  <2>1. IsStack(stk)
    BY DEF WalkInv
  <2>2. stk \in Seq(S)
    BY <2>1, StackIsSequence
  <2> HIDE DEF S
  <2> QED
    BY <2>1, <2>2 DEF IsStack
<1> HIDE DEF S
<1>2. s \in Seq(S) /\ Len(s) = m /\ \A k \in 1 .. m : s[k] = stk[k]
  BY <1>1
<1> HIDE DEF s
<1>3. IsStack(s)
  <2>1. s \in [1 .. m -> S]
    BY <1>1, <1>2
  <2> QED
    BY <1>1, <2>1, SequenceIsStack
<1>4. ASSUME NEW k \in 1 .. m
      PROVE  KnownState(s[k]) /\ MainClock(s, k) /\ ChildClock(s, k)
  <2>1. k \in 1 .. Len(stk)
    BY <1>1
  <2>2. KnownState(stk[k]) /\ MainClock(stk, k) /\ ChildClock(stk, k)
    BY <2>1 DEF WalkInv
  <2>3. \A j \in 1 .. k : s[j] = stk[j]
    BY <1>1, <1>2
  <2>4. \A j \in 1 .. k : MainAlone(s, j) <=> MainAlone(stk, j)
    BY <1>1, <2>3 DEF MainAlone
  <2>5. \A c \in 1 .. k - 1 : c \in 1 .. k /\ c + 1 \in 1 .. k
    BY <1>1
  <2>6. ChildClock(s, k)
    BY <1>2, <2>2, <2>3, <2>4, <2>5 DEF ChildClock
  <2> QED
    BY <1>2, <2>2, <2>4, <2>6 DEF MainClock
<1>5. \A k \in 1 .. m - 1 : \E x \in PendingIn(s[k].p) : x.tid = s[k].sel.tid
  <2>1. \A k \in 1 .. m - 1 : k \in 1 .. m /\ k \in 1 .. Len(stk) - 1
    BY <1>1
  <2> QED
    BY <1>2, <2>1 DEF WalkInv
<1>6. \A x \in PendingIn(s[1].p) : x.tid = 0
  BY <1>1, <1>2 DEF WalkInv
<1>7. WalkInv(s)
  BY <1>2, <1>3, <1>4, <1>5, <1>6 DEF WalkInv
<1> QED
  BY <1>7 DEF s

\* Another backtrack set in the state below the top one keeps the invariant.
LEMMA PointRemovedKeeps ==
  ASSUME NEW stk, WalkInv(stk), NEW n \in 1 .. Len(stk), NEW B
  PROVE  WalkInv([stk EXCEPT ![n].backtrack = B])
<1> DEFINE x == [stk[n] EXCEPT !.backtrack = B]
           s == [stk EXCEPT ![n] = x]
           S == {stk[k] : k \in 1 .. Len(stk)} \cup {x}
<1>1. /\ Len(stk) \in Nat \ {0} /\ stk \in [1 .. Len(stk) -> {stk[k] : k \in 1 .. Len(stk)}]
      /\ IsStack(stk)
  BY DEF WalkInv, IsStack
<1>2. \A k \in 1 .. Len(stk) : DOMAIN stk[k] = StateFields
  BY DEF WalkInv, KnownState
<1>3. /\ DOMAIN x = StateFields /\ x.p = stk[n].p /\ x.clocks = stk[n].clocks
      /\ x.sel = stk[n].sel
  BY <1>2 DEF StateFields
<1>4. stk \in [1 .. Len(stk) -> S] /\ x \in S
  BY <1>1
<1> HIDE DEF S, x
<1>5. /\ s \in [1 .. Len(stk) -> S]
      /\ \A k \in 1 .. Len(stk) : s[k] = IF k = n THEN x ELSE stk[k]
  BY <1>4
<1> HIDE DEF s
<1>6. IsStack(s) /\ Len(s) = Len(stk)
  BY <1>1, <1>5, SequenceIsStack
<1>7. \A k \in 1 .. Len(stk) : SameClocks(stk, s, k) /\ s[k].sel = stk[k].sel
  BY <1>2, <1>3, <1>5 DEF SameClocks
<1>8. WalkInv(s)
  BY <1>6, <1>7, RestackedKeeps
<1> QED
  BY <1>8 DEF s, x

\* Only the sets of events of a state differ.
SameButSets(st, new) ==
  /\ DOMAIN new = StateFields
  /\ \A f \in StateFields \ {"sleepset", "backtrack", "removeFromSleep"} : new[f] = st[f]

\* Waking an event and adding backtrack points change only the sets of events.
LEMMA PointsAdded ==
  ASSUME NEW st, DOMAIN st = StateFields
  PROVE  /\ SameButSets(st, Awake(st))
         /\ \A k, n : SameButSets(st, AddPoint(st, k, n))
         /\ \A b, e, n : SameButSets(st, AddBlockPoint(st, b, e, n))
<1>1. SameButSets(st, Awake(st))
  BY DEF Awake, SameButSets, StateFields
<1>2. \A k, n : SameButSets(st, AddPoint(st, k, n))
  BY DEF AddPoint, SameButSets, StateFields
<1>3. ASSUME NEW b, NEW e, NEW n
      PROVE  SameButSets(st, AddBlockPoint(st, b, e, n))
  BY DEF AddBlockPoint, SameButSets, StateFields
<1> QED
  BY <1>1, <1>2, <1>3

\* The stack with the backtrack points for the races of e.
LEMMA RacedStack ==
  ASSUME WalkInv(stack), NEW e, NEW raced \in Races(e)
  PROVE  /\ IsStack(raced) /\ Len(raced) = Len(stack)
         /\ \A k \in 1 .. Len(stack) : SameButSets(stack[k], raced[k])
<1> DEFINE N == Len(stack)
<1>1. N \in Nat \ {0} /\ \A k \in 1 .. N : DOMAIN stack[k] = StateFields
  BY DEF WalkInv, IsStack, KnownState
<1>2. /\ \A k \in 1 .. N : DOMAIN AwakeTop[k] = StateFields /\ SameButSets(stack[k], AwakeTop[k])
  <2>1. \A k \in 1 .. N : SameButSets(stack[k], stack[k])
    BY <1>1 DEF SameButSets
  <2>2. SameButSets(stack[N], Awake(Top))
    BY <1>1, PointsAdded DEF Top
  <2>3. \A k \in 1 .. N : AwakeTop[k] \in {stack[k], Awake(Top)} /\ (k # N => AwakeTop[k] = stack[k])
    BY <1>1 DEF AwakeTop, WalkInv, IsStack
  <2> QED
    BY <2>1, <2>2, <2>3 DEF SameButSets
<1> DEFINE races == {k \in RacesWith(e) : Inserted(k, e) # {}}
           P(j) == IF j \in races THEN AddPoint(AwakeTop[j], j, First(Inserted(j, e)))
                   ELSE IF \E k \in races : j \in BlockStarts(k)
                   THEN LET k == CHOOSE x \in races : j \in BlockStarts(x)
                        IN  AddBlockPoint(AwakeTop[j], j, e, First(Inserted(k, e)))
                   ELSE AwakeTop[j]
<1>3. raced = [j \in 1 .. N |-> P(j)]
  BY DEF Races
<1>4. ASSUME NEW j \in 1 .. N
      PROVE  SameButSets(AwakeTop[j], P(j))
  <2> DEFINE st == AwakeTop[j]
             k == CHOOSE x \in races : j \in BlockStarts(x)
             n == First(Inserted(j, e))
             m == First(Inserted(k, e))
  <2>1. P(j) \in {AddPoint(st, j, n), AddBlockPoint(st, j, e, m), st}
    OBVIOUS
  <2>2. DOMAIN st = StateFields
    BY <1>2
  <2> HIDE DEF P, st, n, m
  <2>3. SameButSets(st, AddPoint(st, j, n)) /\ SameButSets(st, AddBlockPoint(st, j, e, m))
    BY <2>2, PointsAdded
  <2>4. SameButSets(st, st)
    BY <2>2 DEF SameButSets
  <2> QED
    BY <2>1, <2>3, <2>4 DEF st
<1> HIDE DEF P
<1>5. ASSUME NEW j \in 1 .. N
      PROVE  SameButSets(stack[j], raced[j])
  BY <1>2, <1>3, <1>4 DEF SameButSets
<1>6. IsStack(raced) /\ Len(raced) = N
  <2>1. raced \in [1 .. N -> {raced[j] : j \in 1 .. N}]
    BY <1>3
  <2> QED
    BY <1>1, <2>1, SequenceIsStack
<1> QED
  BY <1>5, <1>6

\* The races of an event that is executed next keep the invariant, and its
\* assertions.
LEMMA RacedKeeps ==
  ASSUME WalkInv(stack), NEW e, StateAsserts(Top, e), NEW raced \in Races(e)
  PROVE  /\ WalkInv(raced) /\ Len(raced) = Len(stack)
         /\ StateAsserts(raced[Len(raced)], e)
<1>1. /\ IsStack(raced) /\ Len(raced) = Len(stack)
      /\ \A k \in 1 .. Len(stack) : SameButSets(stack[k], raced[k])
  BY RacedStack
<1>2. \A k \in 1 .. Len(stack) : SameClocks(stack, raced, k) /\ raced[k].sel = stack[k].sel
  BY <1>1 DEF SameButSets, SameClocks, StateFields
<1>3. WalkInv(raced)
  BY <1>1, <1>2, RestackedKeeps
<1>4. Len(stack) \in 1 .. Len(stack)
  BY DEF WalkInv, IsStack
<1> DEFINE st == raced[Len(raced)]
<1>5. SameButSets(Top, st)
  BY <1>1, <1>4 DEF Top
<1> HIDE DEF st
<1>6. /\ st.p = Top.p /\ st.mutexes = Top.mutexes /\ st.rwlocks = Top.rwlocks
      /\ st.locksets = Top.locksets /\ st.clocks = Top.clocks
  BY <1>5 DEF SameButSets, StateFields
<1>7. StateAsserts(st, e)
  BY <1>6 DEF StateAsserts, CreateAsserts
<1> QED
  BY <1>1, <1>3, <1>7 DEF st

----------------------------------------------------------------------------
(* The invariant of the specification.                                     *)

\* In the first state main is about to start.
LEMMA InitWalk == Init => WalkInv(stack)
<1> SUFFICES ASSUME Init PROVE WalkInv(stack)
  OBVIOUS
<1>1. IsStack(stack) /\ Len(stack) = 1 /\ stack[1] = InitialState
  <2> DEFINE S == {InitialState}
             n == 1
  <2>1. stack \in [1 .. n -> S] /\ n \in Nat \ {0}
    BY DEF Init
  <2> HIDE DEF S, n
  <2>2. IsStack(stack) /\ Len(stack) = n
    BY <2>1, SequenceIsStack
  <2> QED
    BY <2>2 DEF n, Init
<1>2. \A x \in PendingIn(InitialState.p) : x.tid = 0
  BY DEF InitialState, PendingIn, Ev
<1>3. /\ DOMAIN FirstClocks = {0} /\ FirstClocks[0] = [i \in {0} |-> 0]
      /\ IsVectors(FirstClocks, 1)
  <2>1. DOMAIN FirstClocks = {0} /\ FirstClocks[0] = [i \in {0} |-> 0]
    BY DEF FirstClocks
  <2>2. {0} = 0 .. 1 - 1
    OBVIOUS
  <2>3. FirstClocks[0] \in [0 .. 1 - 1 -> {-1} \cup Nat]
    BY <2>1, <2>2
  <2>4. IsVector(FirstClocks[0])
    BY <2>3 DEF IsVector
  <2> QED
    BY <2>1, <2>2, <2>4 DEF IsVectors
<1>4. /\ DOMAIN InitialState = StateFields /\ InitialState.clocks = FirstClocks
      /\ DOMAIN InitialState.p = {"enabled", "disabled"}
  BY DEF InitialState, StateFields
<1>5. KnownState(stack[1])
  BY <1>1, <1>2, <1>3, <1>4 DEF KnownState
<1>6. MainClock(stack, 1)
  BY <1>1, <1>3, <1>4 DEF MainClock
<1>7. ChildClock(stack, 1)
  BY DEF ChildClock
<1> QED
  BY <1>1, <1>2, <1>5, <1>6, <1>7 DEF WalkInv

\* Executing an event after its races were looked at keeps the invariant.
LEMMA PushKeeps ==
  ASSUME NEW stk, WalkInv(stk), NEW e, StateAsserts(stk[Len(stk)], e)
  PROVE  WalkInv(Push(stk, e)) /\ Len(Push(stk, e)) = Len(stk) + 1
<1>1. IsStack(stk) /\ \A k \in 1 .. Len(stk) : DOMAIN stk[k] = StateFields
  BY DEF WalkInv, KnownState
<1>2. Executes(stk, e, Push(stk, e))
  BY <1>1, PushExecutes
<1> QED
  BY <1>2, ExecutesKeeps DEF Executes

\* Every action keeps the invariant.
LEMMA NextWalk == WalkInv(stack) /\ [BoundedNext]_vars => WalkInv(stack')
<1> SUFFICES ASSUME WalkInv(stack), [BoundedNext]_vars PROVE WalkInv(stack')
  OBVIOUS
<1>1. Len(stack) \in Nat \ {0} /\ stack[Len(stack)] = Top
  BY DEF WalkInv, IsStack, Top
<1>2. CASE FirstRunStep
  <2>1. PICK raced \in Races(Chosen) : StateAsserts(Top, Chosen) /\ stack' = Push(raced, Chosen)
    BY <1>2 DEF FirstRunStep
  <2> DEFINE e == Chosen
  <2> HIDE DEF e
  <2>2. raced \in Races(e) /\ StateAsserts(Top, e) /\ stack' = Push(raced, e)
    BY <2>1 DEF e
  <2>3. WalkInv(raced) /\ StateAsserts(raced[Len(raced)], e)
    BY <2>2, RacedKeeps
  <2> QED
    BY <2>2, <2>3, PushKeeps
<1>3. CASE BoundedStep
  <2> DEFINE e == Preferred
  <2>1. PICK raced \in Races(e) :
          /\ StateAsserts(Top, e)
          /\ \/ stack' = Push(raced, e)
             \/ stack' = SubSeq(Push(raced, e), 1, Len(stack))
    BY <1>3 DEF BoundedStep
  <2> HIDE DEF e
  <2>2. WalkInv(raced) /\ Len(raced) = Len(stack) /\ StateAsserts(raced[Len(raced)], e)
    BY <2>1, RacedKeeps
  <2>3. WalkInv(Push(raced, e)) /\ Len(Push(raced, e)) = Len(stack) + 1
    BY <2>2, PushKeeps
  <2>4. Len(stack) \in 1 .. Len(Push(raced, e))
    BY <1>1, <2>3
  <2> QED
    BY <2>1, <2>3, <2>4, PrefixKeeps
<1>4. CASE BacktrackStep
  <2> DEFINE e == Chosen
             n == Len(stack)
             r == Push(stack, e)
  <2>1. StateAsserts(Top, e) /\ stack' = [r EXCEPT ![n].backtrack = r[n].backtrack \ {e}]
    BY <1>4 DEF BacktrackStep
  <2> HIDE DEF e
  <2>2. WalkInv(r) /\ Len(r) = n + 1
    BY <1>1, <2>1, PushKeeps
  <2>3. n \in 1 .. Len(r)
    BY <1>1, <2>2
  <2> HIDE DEF r, n
  <2> QED
    BY <2>1, <2>2, <2>3, PointRemovedKeeps
<1>5. CASE NextRun
  <2>1. stack' = SubSeq(stack, 1, DeepestBacktrack) /\ HasBacktrackPoints
    BY <1>5 DEF NextRun
  <2>2. DeepestBacktrack \in 1 .. Len(stack)
    BY <1>1, <2>1, DeepestHasPoint
  <2> QED
    BY <2>1, <2>2, PrefixKeeps
<1>6. CASE FirstRunEnd \/ Finish \/ ReplayEvent \/ ReplayEnd \/ BoundedAbort \/ BoundedEnd \/ UNCHANGED vars
  <2>1. stack' = stack
    BY <1>6 DEF FirstRunEnd, Finish, ReplayEvent, ReplayEnd, BoundedAbort, BoundedEnd, ExploreEnd, vars
  <2> QED
    BY <2>1
<1> QED
  BY <1>2, <1>3, <1>4, <1>5, <1>6 DEF BoundedNext

----------------------------------------------------------------------------
(* The walk from a race to the state in which its thread was scheduled.    *)

\* If there is no such state, one thread has executed everything so far.
LEMMA OneThreadRan ==
  ASSUME NEW k \in Nat, BlockStarts(k) = {}
  PROVE  \A j \in 1 .. k : Sel(j).tid = Sel(k).tid
<1> DEFINE T == {j \in 1 .. k : Sel(j).tid # Sel(k).tid}
<1> SUFFICES ASSUME T # {} PROVE FALSE
  OBVIOUS
<1>1. PICK m \in T : \A j \in T : j <= m
  BY GreatestPlace
<1>2. m \in 1 .. k /\ m # k /\ Sel(m).tid # Sel(k).tid
  OBVIOUS
<1>3. \A j \in m + 1 .. k : Sel(j).tid = Sel(k).tid
  <2> SUFFICES ASSUME NEW j \in m + 1 .. k, j \in T PROVE FALSE
    BY <1>2
  <2> QED
    BY <1>1, <1>2
<1> DEFINE b == m + 1
<1>4. b \in 2 .. k /\ b - 1 = m
  BY <1>2
<1>5. Sel(b - 1).tid # Sel(b).tid /\ \A i \in b .. k : Sel(i).tid = Sel(k).tid
  BY <1>2, <1>3, <1>4
<1>6. b \in BlockStarts(k)
  BY <1>4, <1>5 DEF BlockStarts
<1> QED
  BY <1>6

\* Then main has, and something else than the creation of the other thread of
\* the race came last: the clocks order the creation before that thread.
LEMMA MainRanOnFromBottom ==
  ASSUME WalkInv(stack), NEW e, NEW k \in RacesWith(e), RunsPastTheBottom(k, e)
  PROVE  MainRanOn(e)
<1> DEFINE N == Len(stack)
<1>1. N \in Nat \ {0} /\ k \in 1 .. N - 1 /\ k > 1 /\ BlockStarts(k) = {} /\ BoundedRace(k, e)
  BY DEF WalkInv, IsStack, RacesWith, RunsPastTheBottom
<1>2. \A j \in 1 .. k : Sel(j).tid = Sel(k).tid
  BY <1>1, OneThreadRan
<1>3. Sel(1).tid = 0
  <2>1. 1 \in 1 .. N - 1
    BY <1>1
  <2> QED
    BY <2>1 DEF WalkInv, Sel
<1>4. \A j \in 1 .. k : Sel(j).tid = 0
  <2>1. 1 \in 1 .. k
    BY <1>1
  <2> QED
    BY <1>2, <1>3, <2>1
<1>5. e.tid \in DOMAIN stack[k].clocks
  <2>1. KnownState(stack[k])
    BY <1>1 DEF WalkInv
  <2> QED
    BY <1>1, <2>1 DEF BoundedRace, EventsOf, KnownState
<1>6. e.tid \in DOMAIN stack[k - 1].clocks
  <2> SUFFICES ASSUME e.tid \notin DOMAIN stack[k - 1].clocks PROVE FALSE
    OBVIOUS
  <2> DEFINE c == k - 1
             v == stack[k].clocks[0]
             w == Top.clocks[e.tid]
  <2>1. /\ c \in 1 .. N - 1 /\ c + 1 = k /\ k \in 1 .. N /\ N \in 1 .. N
        /\ \A j \in 1 .. (c + 1) - 1 : j \in 1 .. k
    BY <1>1
  <2>2. MainAlone(stack, c + 1)
    BY <1>4, <2>1 DEF MainAlone, Sel
  <2>3. ChildClock(stack, N)
    BY <2>1 DEF WalkInv
  <2>4. e.tid \in DOMAIN Top.clocks /\ Entry(w, 0) = c
    <3>1. e.tid \in DOMAIN stack[c + 1].clocks \ DOMAIN stack[c].clocks
      BY <1>5, <2>1
    <3> QED
      BY <2>1, <2>2, <2>3, <3>1 DEF ChildClock, Top
  <2>5. \A i \in DOMAIN v : v[i] = IF i = 0 THEN c ELSE -1
    <3>1. MainClock(stack, k) /\ MainAlone(stack, k)
      BY <2>1, <2>2 DEF WalkInv
    <3> QED
      BY <3>1 DEF MainClock
  <2>6. \A i : Entry(w, i) \in Int /\ Entry(w, i) >= -1
    <3>1. KnownState(Top)
      BY <2>1 DEF WalkInv, Top
    <3>2. PICK n \in Nat : w \in [0 .. n - 1 -> {-1} \cup Nat]
      BY <2>4, <3>1 DEF KnownState, IsVectors, IsVector
    <3> HIDE DEF w
    <3> QED
      BY <3>2 DEF Entry
  <2>7. MustHappenBefore(v, w)
    BY <2>1, <2>4, <2>5, <2>6 DEF MustHappenBefore, Entry
  <2>8. Sel(k).tid = 0 /\ IsConcurrentWith(v, w)
    BY <1>1, <1>4 DEF BoundedRace
  <2> QED
    BY <2>7, <2>8 DEF IsConcurrentWith
<1> QED
  BY <1>1, <1>4, <1>6 DEF MainRanOn

\* The search for the state in which a thread was scheduled stays in the stack,
\* unless main ran on (scheduler.cc:1017-1024).
THEOREM SearchStaysInStackHolds == BoundedSpec => []SearchStaysInStack
<1>1. WalkInv(stack) => SearchStaysInStack
  <2> SUFFICES ASSUME WalkInv(stack), ~MainRanOn(NextEvent)
               PROVE  Races(NextEvent) # {}
    BY DEF SearchStaysInStack
  <2> DEFINE e == NextEvent
  <2> HIDE DEF e
  <2>1. \A k \in RacesWith(e) : ~RunsPastTheBottom(k, e)
    BY MainRanOnFromBottom DEF e
  <2>2. Races(e) # {}
    BY <2>1 DEF Races
  <2> QED
    BY <2>2 DEF e
<1>2. WalkInv(stack) /\ [BoundedNext]_vars => WalkInv(stack)'
  BY NextWalk
<1> QED
  BY <1>1, <1>2, InitWalk, PTL DEF BoundedSpec
=============================================================================
