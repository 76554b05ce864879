------------------------ MODULE SourceDPORRefinement ------------------------
(***************************************************************************)
(* SourceDPOR implements TurnBased, for any programs, threads and objects: *)
(* the exploration only goes where a program whose threads take turns can  *)
(* go.  An execution of the program is extended by a turn of the chosen    *)
(* thread, a restart goes back to an earlier state, and everything else    *)
(* leaves the execution alone.                                             *)
(***************************************************************************)
EXTENDS SourceDPORProofs

\* The process as TurnBased has it: a sequence, with the thread of id t at t + 1.
Proc(at) == [i \in 1 .. NewThread(at) |-> at[i - 1]]

\* The threads of a process and their places in that sequence.
LEMMA ProcThreads ==
  ASSUME NEW at, IsProcess(program, at)
  PROVE  /\ NewThread(at) \in Nat /\ DOMAIN at = 0 .. NewThread(at) - 1
         /\ Proc(at) \in Seq([body : Bodies, done : Nat])
         /\ Len(Proc(at)) = NewThread(at) /\ DOMAIN Proc(at) = 1 .. NewThread(at)
         /\ \A t \in DOMAIN at : t + 1 \in DOMAIN Proc(at) /\ Proc(at)[t + 1] = at[t]
         /\ \A i \in DOMAIN Proc(at) : i - 1 \in DOMAIN at /\ Proc(at)[i] = at[i - 1]
<1> DEFINE n == NewThread(at)
<1>1. n \in Nat /\ DOMAIN at = 0 .. n - 1 /\ at \in [DOMAIN at -> [body : Bodies, done : Nat]]
  BY ExplorerAssumption DEF IsProcess
<1> HIDE DEF n
<1>2. Proc(at) = [i \in 1 .. n |-> at[i - 1]]
  BY DEF Proc, n
<1>3. \A i \in 1 .. n : i - 1 \in DOMAIN at
  BY <1>1
<1> DEFINE R == [body : Bodies, done : Nat]
<1> HIDE DEF R
<1>4. Proc(at) \in [1 .. n -> R]
  <2>1. \A i \in 1 .. n : at[i - 1] \in R
    BY <1>1, <1>3 DEF R
  <2> QED
    BY <1>2, <2>1
<1>5. \A t \in DOMAIN at : t + 1 \in 1 .. n /\ (t + 1) - 1 = t
  BY <1>1
<1>6. \A t \in DOMAIN at : Proc(at)[t + 1] = at[t]
  BY <1>2, <1>5
<1>7. Proc(at) \in Seq(R) /\ Len(Proc(at)) = n
  BY <1>1, <1>4
<1> QED
  BY <1>1, <1>2, <1>3, <1>5, <1>6, <1>7 DEF n, R

\* The two agree on what a thread stands before.
LEMMA ProcNext ==
  ASSUME NEW at, IsProcess(program, at), NEW t \in DOMAIN at
  PROVE  /\ Turns!HasNext(Proc(at), t) <=> HasNext(program, at, t)
         /\ Turns!NextOp(Proc(at), t) = NextOp(program, at, t)
<1>1. Proc(at)[t + 1] = at[t]
  BY ProcThreads
<1> QED
  BY <1>1 DEF Turns!HasNext, Turns!NextOp, HasNext, NextOp

\* They agree on the thread of a body that some thread runs.
LEMMA ProcThreadOf ==
  ASSUME NEW at, IsProcess(program, at), NEW u \in DOMAIN at
  PROVE  Turns!ThreadOf(Proc(at), at[u].body) = u
<1> DEFINE b == at[u].body
           P(i) == i \in DOMAIN Proc(at) /\ Proc(at)[i].body = b
<1>1. P(u + 1) /\ u \in Int
  BY ProcThreads
<1>2. \A i : P(i) => i = u + 1
  <2> SUFFICES ASSUME NEW i, P(i) PROVE i = u + 1
    OBVIOUS
  <2>1. i - 1 \in DOMAIN at /\ at[i - 1].body = b /\ i \in Int
    BY ProcThreads
  <2>2. i - 1 = u
    BY <2>1 DEF IsProcess
  <2> QED
    BY <1>1, <2>1, <2>2
<1>3. (CHOOSE i \in DOMAIN Proc(at) : Proc(at)[i].body = at[u].body) = u + 1
  BY <1>1, <1>2
<1>4. Turns!ThreadOf(Proc(at), at[u].body) = (u + 1) - 1
  BY <1>3 DEF Turns!ThreadOf
<1> QED
  BY <1>1, <1>4

\* They agree on the pending events.
LEMMA ProcPending ==
  ASSUME program \in Programs, NEW at, IsProcess(program, at)
  PROVE  Turns!Pending(Proc(at)) = Announcements(program, at)
<1>1. ASSUME NEW t \in DOMAIN at, HasNext(program, at, t)
      PROVE  Turns!Before(Proc(at), t) = Announced(program, at, t)
  <2> DEFINE o == NextOp(program, at, t)
             e == Announced(program, at, t)
  <2>1. Turns!NextOp(Proc(at), t) = o
    BY ProcNext
  <2>2. ASSUME o.type = "THREAD_JOIN"
        PROVE  Turns!ThreadOf(Proc(at), o.aux) = ThreadOf(at, o.aux)
    <3>1. e.aux \in DOMAIN at /\ at[e.aux].body = o.aux
      BY <1>1, <2>2, AnnouncedEvent
    <3> HIDE DEF e
    <3>2. Turns!ThreadOf(Proc(at), at[e.aux].body) = e.aux
      BY <3>1, ProcThreadOf
    <3>3. ThreadOf(at, at[e.aux].body) = e.aux
      BY <3>1, ThreadOfBody
    <3> QED
      BY <3>1, <3>2, <3>3
  <2> HIDE DEF o
  <2> QED
    BY <2>1, <2>2 DEF Turns!Before, Turns!Ev, Turns!NoId, Announced, o, Ev, NoId
<1>2. Turns!Pending(Proc(at)) =
        {Turns!Before(Proc(at), t) : t \in {u \in 0 .. Len(Proc(at)) - 1 : Turns!HasNext(Proc(at), u)}}
  BY DEF Turns!Pending
<1>3. 0 .. Len(Proc(at)) - 1 = DOMAIN at
  BY ProcThreads
<1>4. {u \in 0 .. Len(Proc(at)) - 1 : Turns!HasNext(Proc(at), u)}
        = {u \in DOMAIN at : HasNext(program, at, u)}
  BY <1>3, ProcNext
<1> QED
  BY <1>1, <1>2, <1>4 DEF Announcements

\* A turn is what a permit does.
LEMMA ProcMoved ==
  ASSUME program \in Programs, NEW at, IsProcess(program, at),
         NEW e \in Announcements(program, at)
  PROVE  Turns!Moved(Proc(at), e.tid) = Proc(Permit(program, at, e))
<1> DEFINE t == e.tid
           n == NewThread(at)
           q == Permit(program, at, e)
           R == [body : Bodies, done : Nat]
           o == NextOp(program, at, t)
           moved == [Proc(at) EXCEPT ![t + 1].done = Proc(at)[t + 1].done + 1]
           new == [body |-> o.aux, done |-> 0]
<1>1. t \in DOMAIN at /\ HasNext(program, at, t) /\ e = Announced(program, at, t)
  BY PendingEvent
<1>2. /\ n \in Nat /\ DOMAIN at = 0 .. n - 1 /\ Proc(at) \in Seq(R) /\ Len(Proc(at)) = n
      /\ DOMAIN Proc(at) = 1 .. n
      /\ \A i \in 1 .. n : i - 1 \in DOMAIN at /\ Proc(at)[i] = at[i - 1]
  BY ProcThreads
<1>3. e.type = o.type
  BY <1>1, AnnouncedEvent
<1>4. Turns!Moved(Proc(at), t)
        = IF Creates(e) THEN Append(moved, new) ELSE moved
  <2>1. Turns!NextOp(Proc(at), t) = o
    BY <1>1, ProcNext
  <2> HIDE DEF o
  <2> QED
    BY <1>3, <2>1 DEF Turns!Moved, Creates
<1>5. /\ NewThread(q) = IF Creates(e) THEN n + 1 ELSE n
      /\ q[t] = [body |-> at[t].body, done |-> at[t].done + 1]
      /\ \A u \in DOMAIN at \ {t} : q[u] = at[u]
      /\ Creates(e) => q[n] = new
  BY <1>1, PermitAt
<1>6. IsProcess(program, q)
  BY <1>1, PermitIsProcess
<1> HIDE DEF t, n, q, o
<1>7. /\ Proc(q) \in Seq(R) /\ Len(Proc(q)) = NewThread(q)
      /\ \A i \in 1 .. NewThread(q) : Proc(q)[i] = q[i - 1]
  BY <1>6, ProcThreads
<1>8. \A i \in 1 .. n : moved[i] = q[i - 1]
  <2> SUFFICES ASSUME NEW i \in 1 .. n PROVE moved[i] = q[i - 1]
    OBVIOUS
  <2>1. i - 1 \in DOMAIN at /\ Proc(at)[i] = at[i - 1] /\ i \in DOMAIN Proc(at)
        /\ at[i - 1] \in R /\ i \in Int /\ t \in Int
    BY <1>1, <1>2 DEF IsProcess
  <2>2. CASE i - 1 = t
    <3>1. i = t + 1
      BY <2>1, <2>2
    <3> QED
      BY <1>5, <2>1, <2>2, <3>1
  <2>3. CASE i - 1 # t
    <3>1. i # t + 1
      BY <2>1, <2>3
    <3> QED
      BY <1>5, <2>1, <2>3, <3>1
  <2> QED
    BY <2>2, <2>3
<1>9. DOMAIN moved = 1 .. n
  BY <1>2
<1>10. Len(Proc(q)) \in Nat /\ Proc(q) = [i \in 1 .. NewThread(q) |-> q[i - 1]]
  BY <1>2, <1>5, <1>7 DEF Proc
<1>11. moved \in Seq(R) /\ Len(moved) = n
  <2>1. \A i \in 1 .. n : moved[i] \in R
    <3>1. q \in [DOMAIN q -> R] /\ DOMAIN q = 0 .. NewThread(q) - 1
      BY <1>6 DEF IsProcess
    <3>2. \A i \in 1 .. n : i - 1 \in DOMAIN q
      BY <1>2, <1>5, <3>1
    <3> QED
      BY <1>8, <3>1, <3>2
  <2>2. moved = [i \in 1 .. n |-> moved[i]]
    BY <1>2
  <2> HIDE DEF moved, R
  <2>3. moved \in [1 .. n -> R]
    BY <2>1, <2>2
  <2> QED
    BY <1>2, <2>3
<1>12. CASE ~Creates(e)
  <2>1. moved = [i \in 1 .. n |-> q[i - 1]]
    <3>1. moved = [i \in 1 .. n |-> moved[i]]
      BY <1>2
    <3> HIDE DEF moved
    <3> QED
      BY <1>8, <3>1
  <2> HIDE DEF moved
  <2> QED
    BY <1>4, <1>5, <1>10, <1>12, <2>1 DEF t, q
<1>13. CASE Creates(e)
  <2> DEFINE s == Append(moved, new)
  <2> HIDE DEF moved, R
  <2>0. new \in R
    <3>1. NewThread(q) = n + 1 /\ q[n] = new
      BY <1>5, <1>13
    <3>2. n \in DOMAIN q /\ q \in [DOMAIN q -> R]
      BY <1>2, <1>6, <3>1 DEF IsProcess, R
    <3> QED
      BY <3>1, <3>2
  <2> HIDE DEF new
  <2>1. s \in Seq(R) /\ Len(s) = n + 1 /\ s[n + 1] = new /\ \A i \in 1 .. n : s[i] = moved[i]
    BY <1>2, <1>11, <2>0
  <2> HIDE DEF s
  <2>2. \A i \in 1 .. n + 1 : s[i] = q[i - 1]
    <3> SUFFICES ASSUME NEW i \in 1 .. n + 1 PROVE s[i] = q[i - 1]
      OBVIOUS
    <3>1. CASE i \in 1 .. n
      BY <1>8, <2>1, <3>1
    <3>2. CASE i = n + 1
      BY <1>2, <1>5, <1>13, <2>1, <3>2
    <3> QED
      BY <1>2, <3>1, <3>2
  <2>3. s = [i \in 1 .. n + 1 |-> q[i - 1]]
    <3>1. s = [i \in 1 .. n + 1 |-> s[i]]
      BY <1>2, <2>1
    <3> QED
      BY <2>2, <3>1
  <2> QED
    BY <1>4, <1>5, <1>10, <1>13, <2>3 DEF t, q, s
<1> QED
  BY <1>12, <1>13

----------------------------------------------------------------------------
(* The path of the stack.                                                  *)

\* The first process is the restarted one.
LEMMA ProcRestarted ==
  ASSUME program \in Programs
  PROVE  Proc(Restarted) = Turns!Process
<1>1. NewThread(Restarted) = 1 /\ Restarted[0] = [body |-> 0, done |-> 0]
  BY RestartedIsProcess
<1>2. Proc(Restarted) = [i \in 1 .. 1 |-> Restarted[i - 1]]
  BY <1>1 DEF Proc
<1>3. \A i \in 1 .. 1 : i = 1 /\ i - 1 = 0
  OBVIOUS
<1>4. Proc(Restarted) = [i \in 1 .. 1 |-> [body |-> 0, done |-> 0]]
  BY <1>1, <1>2, <1>3
<1> QED
  BY <1>4 DEF Turns!Process

\* Path, of any stack.
PathOf(s) == [k \in 1 .. Len(s) |->
               [pending |-> PendingIn(s[k].p),
                sel     |-> IF k = Len(s) THEN NoEvent ELSE s[k].sel]]

\* The path has the states of the stack, with an event selected in each but the
\* last.
LEMMA PathStates ==
  ASSUME NEW s, IsStack(s)
  PROVE  /\ IsStack(PathOf(s)) /\ Len(PathOf(s)) = Len(s)
         /\ \A k \in 1 .. Len(s) :
              PathOf(s)[k] = [pending |-> PendingIn(s[k].p),
                              sel |-> IF k = Len(s) THEN NoEvent ELSE s[k].sel]
<1> DEFINE n == Len(s)
           x(k) == [pending |-> PendingIn(s[k].p),
                    sel |-> IF k = n THEN NoEvent ELSE s[k].sel]
           S == {x(k) : k \in 1 .. n}
<1>1. n \in Nat \ {0}
  BY DEF IsStack
<1>2. PathOf(s) = [k \in 1 .. n |-> x(k)]
  BY DEF PathOf
<1>3. \A k \in 1 .. n : x(k) \in S
  OBVIOUS
<1> HIDE DEF S, n, x
<1>4. PathOf(s) \in [1 .. n -> S]
  BY <1>2, <1>3
<1>5. IsStack(PathOf(s)) /\ Len(PathOf(s)) = n
  BY <1>1, <1>4, SequenceIsStack
<1>6. \A k \in 1 .. n : PathOf(s)[k] = x(k)
  BY <1>2
<1> QED
  BY <1>5, <1>6 DEF n, x

\* Path is the path of the stack, before and after a step.
LEMMA PathIs == Path = PathOf(stack) /\ Path' = PathOf(stack')
BY DEF Path, PathOf, Sel

\* Two functions agree at 1, and at k if they agree at k - 1.
AgreeStepwise(n, f, g) ==
  /\ f = [k \in 1 .. n |-> f[k]] /\ g = [k \in 1 .. n |-> g[k]]
  /\ 1 \in 1 .. n => f[1] = g[1]
  /\ \A k \in 1 .. n : k # 1 /\ f[k - 1] = g[k - 1] => f[k] = g[k]

\* They are equal.
LEMMA EqualStepwise ==
  ASSUME NEW n \in Nat, NEW f, NEW g, AgreeStepwise(n, f, g)
  PROVE  f = g
<1>0. /\ f = [k \in 1 .. n |-> f[k]] /\ g = [k \in 1 .. n |-> g[k]]
      /\ 1 \in 1 .. n => f[1] = g[1]
      /\ \A k \in 1 .. n : k # 1 /\ f[k - 1] = g[k - 1] => f[k] = g[k]
  BY DEF AgreeStepwise
<1> DEFINE T == {k \in 1 .. n : f[k] # g[k]}
<1>1. CASE T = {}
  <2>1. \A k \in 1 .. n : f[k] = g[k]
    BY <1>1
  <2> HIDE DEF T
  <2>2. [k \in 1 .. n |-> f[k]] = [k \in 1 .. n |-> g[k]]
    BY <2>1
  <2> QED
    BY <1>0, <2>2
<1>2. CASE T # {}
  <2>1. T \subseteq Nat
    OBVIOUS
  <2>2. PICK k \in T : \A j \in T : ~(j < k)
    BY <1>2, <2>1, LeastPlace
  <2>3. k \in 1 .. n /\ f[k] # g[k] /\ k # 1
    BY <1>0
  <2>4. k - 1 \in 1 .. n /\ k - 1 < k
    BY <2>3
  <2>5. f[k - 1] = g[k - 1]
    BY <2>2, <2>4
  <2> QED
    BY <1>0, <2>3, <2>5
<1> QED
  BY <1>1, <1>2

\* The process TurnBased computes from the selected events is the one of the
\* history.
LEMMA ProcReached ==
  ASSUME program \in Programs, NEW ats, History(program, stack, ats)
  PROVE  Turns!Reached = Proc(ats[Len(stack)])
<1> DEFINE n == Len(stack)
           w == [k \in 1 .. n |-> Proc(ats[k])]
           F(f) == [k \in 1 .. Len(Path) |->
                     IF k = 1 THEN Turns!Process
                     ELSE Turns!Moved(f[k - 1], Path[k - 1].sel.tid)]
<1>1. IsStack(stack) /\ n \in Nat \ {0}
  BY DEF History, IsStack
<1>2. Turns!Reached = (CHOOSE f : f = F(f))[Len(Path)]
  BY DEF Turns!Reached
<1>3. Len(Path) = n
  BY <1>1, PathStates, PathIs
<1>4. ASSUME NEW k \in 1 .. n, k # 1
      PROVE  Proc(ats[k]) = Turns!Moved(Proc(ats[k - 1]), Path[k - 1].sel.tid)
  <2> DEFINE j == k - 1
  <2>1. j \in 1 .. n - 1 /\ j \in 1 .. n /\ j + 1 = k /\ j # n
    BY <1>1, <1>4
  <2> HIDE DEF j
  <2>2. Linked(program, stack[j], ats[j], ats[k])
    BY <2>1 DEF History
  <2>3. PICK e \in stack[j].p.enabled :
           stack[j].sel = Selected(ats[j], e) /\ ats[k] = Permit(program, ats[j], e)
    BY <2>2 DEF Linked
  <2>4. IsProcess(program, ats[j]) /\ GoodState(stack[j], program, ats[j])
    BY <2>1 DEF History
  <2>5. e \in Announcements(program, ats[j])
    BY <2>4 DEF GoodState, PendingRight, PendingIn
  <2>6. Turns!Moved(Proc(ats[j]), e.tid) = Proc(ats[k])
    BY <2>3, <2>4, <2>5, ProcMoved
  <2>7. Path[j].sel = stack[j].sel
    <3>1. Path[j] = [pending |-> PendingIn(stack[j].p),
                     sel |-> IF j = n THEN NoEvent ELSE stack[j].sel]
      BY <1>1, <2>1, PathStates, PathIs
    <3> QED
      BY <2>1, <3>1
  <2>8. stack[j].sel.tid = e.tid
    BY <2>3 DEF Selected, Ev
  <2> QED
    BY <2>6, <2>7, <2>8 DEF j
<1>5. w = F(w)
  <2>1. ASSUME NEW k \in 1 .. n
        PROVE  w[k] = IF k = 1 THEN Turns!Process ELSE Turns!Moved(w[k - 1], Path[k - 1].sel.tid)
    <3>1. CASE k = 1
      BY <3>1, ProcRestarted DEF History
    <3>2. CASE k # 1
      <4>1. k - 1 \in 1 .. n
        BY <1>1, <3>2
      <4> QED
        BY <1>4, <3>2, <4>1
    <3> QED
      BY <3>1, <3>2
  <2>2. w = [k \in 1 .. n |-> w[k]]
    OBVIOUS
  <2> HIDE DEF w
  <2> QED
    BY <1>3, <2>1, <2>2
<1>6. ASSUME NEW f, f = F(f) PROVE f = w
  <2>1. \A k \in 1 .. n : f[k] = IF k = 1 THEN Turns!Process
                                 ELSE Turns!Moved(f[k - 1], Path[k - 1].sel.tid)
    BY <1>3, <1>6
  <2>2. \A k \in 1 .. n : w[k] = IF k = 1 THEN Turns!Process
                                 ELSE Turns!Moved(w[k - 1], Path[k - 1].sel.tid)
    BY <1>3, <1>5
  <2>3. f = [k \in 1 .. n |-> f[k]] /\ w = [k \in 1 .. n |-> w[k]]
    BY <1>3, <1>6
  <2> HIDE DEF w, F, n
  <2>4. \A k \in 1 .. n : k # 1 /\ f[k - 1] = w[k - 1] => f[k] = w[k]
    BY <2>1, <2>2
  <2>5. 1 \in 1 .. n => f[1] = w[1]
    BY <2>1, <2>2
  <2>6. n \in Nat
    BY <1>1
  <2>7. AgreeStepwise(n, f, w)
    BY <2>3, <2>4, <2>5 DEF AgreeStepwise
  <2> QED
    BY <2>6, <2>7, EqualStepwise
<1> HIDE DEF F
<1>7. (CHOOSE f : f = F(f)) = w
  BY <1>5, <1>6
<1>8. w[n] = Proc(ats[n])
  BY <1>1
<1> QED
  BY <1>2, <1>3, <1>7, <1>8

\* Stacks with the same states are equal.
LEMMA SameStates ==
  ASSUME NEW r, IsStack(r), NEW s, IsStack(s), Len(r) = Len(s),
         \A k \in 1 .. Len(r) : r[k] = s[k]
  PROVE  r = s
<1> DEFINE n == Len(r)
<1>1. r = [k \in 1 .. n |-> r[k]] /\ s = [k \in 1 .. n |-> s[k]]
  BY DEF IsStack
<1> HIDE DEF n
<1> QED
  BY <1>1 DEF n

----------------------------------------------------------------------------
(* The steps.                                                              *)

\* A step that extends the execution is the turn of the chosen thread: no join
\* is chosen whose thread has not ended, and the new state has the pending
\* events of the program's text after that turn.
LEMMA ExtendsExecute ==
  ASSUME Inv, phase # "replay", NEW ats, History(program, stack, ats), pc = ats[Where],
         NEW stk, Extends(stk, ats)
  PROVE  Turns!Execute
<1> DEFINE n == Len(stack)
           e == Chosen
           q == Permit(program, pc, e)
           new == NewState(Top, e, q)
           P == PathOf(stack)
           x == [P[n] EXCEPT !.sel = Selected(pc, e)]
           y == [pending |-> Turns!Pending(Proc(q)), sel |-> NoEvent]
<1>1. /\ IsProcess(program, pc) /\ GoodState(Top, program, pc)
      /\ n \in Nat \ {0} /\ pc = ats[n] /\ program \in Programs
  BY TopGood DEF Inv
<1>2. /\ History(program, stk, ats) /\ Len(stk) = n /\ stk[n] = Top
      /\ \A k \in 1 .. n : stk[k].p = stack[k].p /\ stk[k].sel = stack[k].sel
      /\ e \in Top.p.enabled /\ StateAsserts(Top, e) /\ Pushes(stk, e, stack')
      /\ program' = program
  BY DEF Extends
<1> HIDE DEF e
<1>3. e \in PendingIn(Top.p) /\ PendingIn(Top.p) = Announcements(program, pc)
  BY <1>1, <1>2 DEF GoodState, PendingRight, PendingIn
<1> HIDE DEF n, new
<1>4. /\ IsStack(stack') /\ Len(stack') = n + 1
      /\ \A k \in 1 .. n - 1 : stack'[k] = stk[k]
      /\ \A f \in StateFields \ {"backtrack"} : stack'[n][f] = Executed(Top, e)[f]
  BY <1>2 DEF Pushes
<1>5. PICK a : History(program, stack', a) /\ a[n + 1] = q
  <2>1. e \in stk[n].p.enabled /\ StateAsserts(stk[n], e)
    BY <1>2
  <2> QED
    BY <1>1, <1>2, <2>1, PushGood
<1> HIDE DEF q
<1>6. PendingIn(stack'[n + 1].p) = Turns!Pending(Proc(q))
  <2>1. IsProcess(program, q) /\ GoodState(stack'[n + 1], program, q)
    BY <1>1, <1>4, <1>5 DEF History
  <2> QED
    BY <1>1, <2>1, ProcPending DEF GoodState, PendingRight
<1>7. stack'[n].p = Top.p /\ stack'[n].sel = Selected(pc, e)
  <2>1. Executed(Top, e).p = Top.p /\ Executed(Top, e).sel = Selected(pc, e)
    BY <1>1, ExecutedFields DEF GoodState
  <2> QED
    BY <1>4, <2>1 DEF StateFields
<1>8. IsStack(stack) /\ IsStack(P) /\ Len(P) = n
  BY PathStates DEF History, n
<1>9. Turns!Reached = Proc(pc)
  BY <1>1, ProcReached DEF n
<1>10. Turns!MayMove(Proc(pc), e)
  <2> SUFFICES ASSUME e.type = "THREAD_JOIN" PROVE ~Turns!HasNext(Proc(pc), e.aux)
    BY DEF Turns!MayMove
  <2>1. e.aux \in DOMAIN pc
    BY <1>1, <1>3, PendingEvent
  <2>2. e.aux \notin Tids(PendingIn(Top.p))
    BY <1>1, <1>2, <1>3 DEF GoodState, PendingRight, JoinExact
  <2>3. ~HasNext(program, pc, e.aux)
    BY <1>1, <1>3, <2>1, <2>2, PendingOfThread
  <2> QED
    BY <1>1, <2>1, <2>3, ProcNext
<1>11. Turns!Remembered(Proc(pc), e) = Selected(pc, e)
  <2>1. Len(Proc(pc)) = NewThread(pc)
    BY <1>1, ProcThreads
  <2> QED
    BY <2>1 DEF Turns!Remembered, Selected, Creates, Turns!Ev, Ev, Turns!NoId, NoId
<1>12. Turns!State(Turns!Moved(Proc(pc), e.tid)) = y
  <2>1. Turns!Moved(Proc(pc), e.tid) = Proc(q)
    BY <1>1, <1>3, ProcMoved DEF q
  <2>2. Turns!None = NoEvent
    BY DEF Turns!None, NoEvent, Turns!Ev, Ev, Turns!NoId, NoId
  <2> QED
    BY <2>1, <2>2 DEF Turns!State
<1> HIDE DEF y
<1>13. /\ IsStack(Pushed(P, x, y)) /\ Len(Pushed(P, x, y)) = n + 1
       /\ \A k \in 1 .. n - 1 : Pushed(P, x, y)[k] = P[k]
       /\ Pushed(P, x, y)[n] = x /\ Pushed(P, x, y)[n + 1] = y
  <2> HIDE DEF P, x
  <2> QED
    BY <1>8, PushedShape
<1>14. PathOf(stack') = Pushed(P, x, y)
  <2>1. /\ IsStack(PathOf(stack')) /\ Len(PathOf(stack')) = n + 1
        /\ \A k \in 1 .. n + 1 :
             PathOf(stack')[k] = [pending |-> PendingIn(stack'[k].p),
                                  sel |-> IF k = n + 1 THEN NoEvent ELSE stack'[k].sel]
    BY <1>4, PathStates
  <2>2. \A k \in 1 .. n :
           P[k] = [pending |-> PendingIn(stack[k].p),
                   sel |-> IF k = n THEN NoEvent ELSE stack[k].sel]
    BY <1>8, PathStates DEF n
  <2>3. ASSUME NEW k \in 1 .. n - 1
        PROVE  PathOf(stack')[k] = P[k]
    <3>1. k \in 1 .. n /\ k \in 1 .. n + 1 /\ k # n /\ k # n + 1
      BY <1>1
    <3>2. stack'[k].p = stack[k].p /\ stack'[k].sel = stack[k].sel
      BY <1>2, <1>4, <3>1
    <3> HIDE DEF P
    <3> QED
      BY <2>1, <2>2, <3>1, <3>2
  <2>4. PathOf(stack')[n] = x
    <3>1. n \in 1 .. n /\ n \in 1 .. n + 1 /\ n # n + 1
      BY <1>1
    <3>2. PathOf(stack')[n] = [pending |-> PendingIn(Top.p), sel |-> Selected(pc, e)]
      BY <1>7, <2>1, <3>1
    <3>3. P[n] = [pending |-> PendingIn(Top.p), sel |-> NoEvent]
      BY <2>2, <3>1 DEF Top, n
    <3> HIDE DEF P
    <3> QED
      BY <3>2, <3>3
  <2>5. PathOf(stack')[n + 1] = y
    <3>1. n + 1 \in 1 .. n + 1
      BY <1>1
    <3> QED
      BY <1>6, <2>1, <3>1 DEF y
  <2> HIDE DEF P, x
  <2>6. \A k \in 1 .. n + 1 : PathOf(stack')[k] = Pushed(P, x, y)[k]
    BY <1>1, <1>13, <2>3, <2>4, <2>5
  <2> QED
    BY <1>13, <2>1, <2>6, SameStates
<1>15. Path' = Append([Path EXCEPT ![Len(Path)].sel = Turns!Remembered(Turns!Reached, e)],
                      Turns!State(Turns!Moved(Turns!Reached, e.tid)))
  <2>1. Path' = Pushed(P, x, y) /\ Path = P
    BY <1>14, PathIs
  <2>2. Pushed(P, x, y) = Append([P EXCEPT ![n] = x], y)
    BY <1>8 DEF Pushed
  <2>3. [P EXCEPT ![n] = x] = [P EXCEPT ![n].sel = Selected(pc, e)]
    OBVIOUS
  <2> QED
    BY <1>8, <1>9, <1>11, <1>12, <2>1, <2>2, <2>3
<1>16. e \in Path[Len(Path)].pending
  <2>1. Path = P /\ Len(Path) = n /\ n \in 1 .. n
    BY <1>1, <1>8, PathIs
  <2>2. P[n].pending = PendingIn(Top.p)
    <3>1. P[n] = [pending |-> PendingIn(stack[n].p),
                  sel |-> IF n = n THEN NoEvent ELSE stack[n].sel]
      BY <1>8, <2>1, PathStates DEF n
    <3> QED
      BY <3>1 DEF Top, n
  <2> QED
    BY <1>3, <2>1, <2>2
<1>17. Path # <<>>
  BY <1>1, <1>8, PathIs
<1>18. Turns!MayMove(Turns!Reached, e)
  BY <1>9, <1>10
<1> QED
  BY <1>2, <1>15, <1>16, <1>17, <1>18 DEF Turns!Execute

\* A restart goes back to the deepest state with a backtrack point, which may
\* be the one the execution is in.
LEMMA NextRunCuts ==
  ASSUME Inv, NextRun
  PROVE  Turns!Cut \/ UNCHANGED <<program, Path>>
<1> DEFINE m == DeepestBacktrack
           n == Len(stack)
           P == PathOf(stack)
           r == SubSeq(P, 1, m)
           c == [r EXCEPT ![m].sel = NoEvent]
<1>1. PICK ats : History(program, stack, ats)
  BY DEF Inv
<1>2. IsStack(stack) /\ n \in Nat \ {0}
  BY <1>1 DEF History, IsStack
<1>3. m \in 1 .. n
  BY <1>2, DeepestHasPoint DEF NextRun
<1>4. program' = program /\ stack' = SubSeq(stack, 1, m)
  BY DEF NextRun
<1> HIDE DEF m
<1>5. IsStack(stack') /\ Len(stack') = m /\ \A k \in 1 .. m : stack'[k] = stack[k]
  <2>1. History(program, stack', ats) /\ Len(stack') = m /\ \A k \in 1 .. m : stack'[k] = stack[k]
    BY <1>1, <1>3, <1>4, HistoryPrefix
  <2> QED
    BY <2>1 DEF History
<1>6. CASE m = n
  <2>1. stack' = stack
    BY <1>2, <1>5, <1>6, SameStates
  <2> QED
    BY <1>4, <2>1, PathIs
<1>7. CASE m # n
  <2>1. m \in 1 .. n - 1 /\ \A k \in 1 .. m : k \in 1 .. n /\ k # n
    BY <1>2, <1>3, <1>7
  <2>2. /\ IsStack(P) /\ Len(P) = n
        /\ \A k \in 1 .. n :
             P[k] = [pending |-> PendingIn(stack[k].p),
                     sel |-> IF k = n THEN NoEvent ELSE stack[k].sel]
    BY <1>2, PathStates
  <2>3. /\ IsStack(PathOf(stack')) /\ Len(PathOf(stack')) = m
        /\ \A k \in 1 .. m :
             PathOf(stack')[k] = [pending |-> PendingIn(stack'[k].p),
                                  sel |-> IF k = m THEN NoEvent ELSE stack'[k].sel]
    BY <1>5, PathStates
  <2> HIDE DEF P, n
  <2>4. r \in [1 .. m -> {P[k] : k \in 1 .. n}] /\ \A k \in 1 .. m : r[k] = P[k]
    <3> DEFINE S == {P[k] : k \in 1 .. n}
    <3>1. P \in Seq(S)
      BY <2>2, StackIsSequence
    <3> HIDE DEF S
    <3>2. r \in Seq(S) /\ Len(r) = m /\ \A k \in 1 .. m : r[k] = P[k]
      BY <1>2, <1>3, <2>2, <3>1
    <3> HIDE DEF r
    <3>3. r \in [1 .. m -> S]
      BY <3>2
    <3> QED
      BY <3>2, <3>3 DEF S
  <2> HIDE DEF r
  <2>5. IsStack(c) /\ Len(c) = m /\ \A k \in 1 .. m : c[k] = PathOf(stack')[k]
    <3> DEFINE x == [r[m] EXCEPT !.sel = NoEvent]
               S == {P[k] : k \in 1 .. n} \cup {x}
    <3>1. r \in [1 .. m -> S] /\ x \in S /\ m \in 1 .. m /\ m \in Nat \ {0}
      BY <1>2, <1>3, <2>4 DEF n
    <3>2. c = [r EXCEPT ![m] = x]
      OBVIOUS
    <3> HIDE DEF S
    <3>3. c \in [1 .. m -> S] /\ c[m] = x /\ \A k \in 1 .. m : k # m => c[k] = r[k]
      <4> HIDE DEF x, c
      <4> QED
        BY <3>1, <3>2
    <3>4. IsStack(c) /\ Len(c) = m
      <4> HIDE DEF c
      <4> QED
        BY <3>1, <3>3, SequenceIsStack
    <3>5. PathOf(stack')[m] = x
      <4>1. r[m] = [pending |-> PendingIn(stack[m].p), sel |-> stack[m].sel]
        BY <2>1, <2>2, <2>4, <3>1
      <4>2. PathOf(stack')[m] = [pending |-> PendingIn(stack[m].p), sel |-> NoEvent]
        BY <1>5, <2>3, <3>1
      <4> QED
        BY <4>1, <4>2
    <3>6. \A k \in 1 .. m : k # m => r[k] = PathOf(stack')[k]
      BY <1>5, <2>1, <2>2, <2>3, <2>4
    <3> HIDE DEF c, x
    <3> QED
      BY <3>3, <3>4, <3>5, <3>6
  <2>6. PathOf(stack') = c
    <3> HIDE DEF c
    <3> QED
      BY <2>3, <2>5, SameStates
  <2>7. Turns!None = NoEvent
    BY DEF Turns!None, NoEvent, Turns!Ev, Ev, Turns!NoId, NoId
  <2>8. Path' = [SubSeq(Path, 1, m) EXCEPT ![m].sel = Turns!None]
    BY <2>6, <2>7, PathIs DEF r, P
  <2>9. m \in 1 .. Len(Path) - 1
    BY <2>1, <2>2, PathIs DEF P, n
  <2> QED
    BY <1>4, <2>8, <2>9 DEF Turns!Cut
<1> QED
  BY <1>6, <1>7

\* The exploration starts in a state of TurnBased.
LEMMA InitTurns == Init => Turns!Init
<1> SUFFICES ASSUME Init PROVE Turns!Init
  OBVIOUS
<1>1. PICK ats : History(program, stack, ats)
  BY InitInv DEF Inv
<1>2. stack = <<InitialState>> /\ program \in Programs /\ Len(stack) = 1
  BY DEF Init
<1>3. /\ IsProcess(program, Restarted) /\ GoodState(stack[1], program, Restarted)
      /\ IsStack(stack)
  BY <1>1, <1>2 DEF History
<1>4. PendingIn(stack[1].p) = Turns!Pending(Turns!Process)
  BY <1>2, <1>3, ProcPending, ProcRestarted DEF GoodState, PendingRight
<1>5. Turns!None = NoEvent
  BY DEF Turns!None, NoEvent, Turns!Ev, Ev, Turns!NoId, NoId
<1> DEFINE y == [pending |-> Turns!Pending(Turns!Process), sel |-> NoEvent]
<1>6. Path = [k \in 1 .. 1 |-> y]
  <2>1. Path = [k \in 1 .. 1 |-> [pending |-> PendingIn(stack[k].p),
                                  sel |-> IF k = 1 THEN NoEvent ELSE stack[k].sel]]
    BY <1>2, PathIs DEF PathOf
  <2>2. \A k \in 1 .. 1 : k = 1
    OBVIOUS
  <2> QED
    BY <1>4, <2>1, <2>2
<1> HIDE DEF y
<1>7. Path = <<y>>
  BY <1>6
<1> QED
  BY <1>5, <1>7 DEF Turns!Init, Turns!State, y

\* Every step is one of TurnBased, or leaves the execution alone.
LEMMA NextTurns == Inv /\ [Next]_vars => [Turns!Next]_Turns!vars
<1> SUFFICES ASSUME Inv, [Next]_vars
             PROVE  Turns!Next \/ UNCHANGED <<program, Path>>
  BY DEF Turns!vars
<1>1. PICK ats : History(program, stack, ats) /\ pc = ats[Where]
  BY DEF Inv
<1>2. CASE ExploreStep
  <2>1. PICK stk : Extends(stk, ats)
    BY <1>1, <1>2, ExploreStepExtends
  <2>2. phase # "replay"
    BY <1>2 DEF ExploreStep
  <2> QED
    BY <1>1, <2>1, <2>2, ExtendsExecute DEF Turns!Next
<1>3. CASE BacktrackStep
  <2>1. Extends(stack, ats)
    BY <1>1, <1>3, BacktrackStepExtends
  <2>2. phase # "replay"
    BY <1>3 DEF BacktrackStep
  <2> QED
    BY <1>1, <2>1, <2>2, ExtendsExecute DEF Turns!Next
<1>4. CASE NextRun
  BY <1>4, NextRunCuts DEF Turns!Next
<1>5. ASSUME program' = program, stack' = stack
      PROVE  UNCHANGED <<program, Path>>
  BY <1>5, PathIs
<1>6. CASE FirstRunEnd \/ ExploreEnd \/ Finish \/ ReplayEvent \/ ReplayEnd \/ Abort
             \/ UNCHANGED vars
  <2>1. program' = program /\ stack' = stack
    BY <1>6 DEF FirstRunEnd, ExploreEnd, Finish, ReplayEvent, ReplayEnd, Abort, vars
  <2> QED
    BY <1>5, <2>1
<1> QED
  BY <1>2, <1>3, <1>4, <1>6 DEF Next

----------------------------------------------------------------------------
(* The theorem.                                                            *)

\* The exploration implements a program whose threads take turns: the pending
\* events next_state keeps by increments, over executions, pops, restarts and
\* replays, are those of the program's text after the selected events, and no
\* event is executed that its thread may not perform.
THEOREM TakesTurnsHolds == Spec => TakesTurns
<1>1. Spec => Turns!Init /\ [][Turns!Next]_Turns!vars
  BY InitTurns, NextTurns, InvHolds, PTL DEF Spec
<1> QED
  BY <1>1 DEF TakesTurns, Turns!Spec
=============================================================================
