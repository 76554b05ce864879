---------------------------- MODULE MC_SourceDPOR ----------------------------
(***************************************************************************)
(* SourceDPOR for TLC: families of small programs, the reference           *)
(* definition of their executions, and the properties that need it.        *)
(***************************************************************************)
EXTENDS SourceDPOR

----------------------------------------------------------------------------
(* Programs: main initialises its locks, creates its children, runs a body *)
(* of its own, joins the children in order and ends.                       *)

Read(o)   == Op("OBJ_READ", o, NoId)
Write(o)  == Op("OBJ_WRITE", o, NoId)
Lock(m)   == Op("MUTEX_LOCK", m, NoId)
Unlock(m) == Op("MUTEX_UNLOCK", m, NoId)
RwOp(type) == Op("RWLOCK_" \o type, 1, NoId)

RECURSIVE Inits(_, _)
Inits(type, ids) ==
  IF ids = {} THEN <<>>
  ELSE LET m == CHOOSE x \in ids : \A y \in ids : x <= y
       IN  <<Op(type, m, NoId)>> \o Inits(type, ids \ {m})

\* The objects of the operations of a type in the bodies.
Used(bodies, type) ==
  UNION {{b[i].obj : i \in {j \in DOMAIN b : b[j].type = type}} : b \in bodies}

Create(b) == Op("THREAD_PRE_CREATE", NoId, b)
Join(b)   == Op("THREAD_JOIN", NoId, b)

\* main, with its initialisations, around "middle", and the other bodies.
Whole(bodies, middle) ==
  LET all  == {bodies[i] : i \in DOMAIN bodies} \cup {middle}
      end  == <<Op("THREAD_END", NoId, NoId)>>
      main == <<Op("THREAD_START", NoId, NoId)>>
                \o Inits("MUTEX_INIT", Used(all, "MUTEX_LOCK"))
                \o Inits("RWLOCK_INIT", Used(all, "RWLOCK_UNLOCK"))
                \o middle \o end
  IN  [b \in Bodies |-> IF b = 0 THEN main
                        ELSE IF b \in DOMAIN bodies THEN bodies[b] \o end ELSE <<>>]

\* bodies[i] is the body of the i-th child of main; "before" and "after" are
\* what main does before it creates and before it joins the children.
Program(bodies, before, after) ==
  LET children == DOMAIN bodies
  IN  Whole(bodies, before \o [i \in children |-> Create(i)]
                      \o after \o [i \in children |-> Join(i)])

\* main creates 1 and 3, and 1 creates 2, at any time relative to the creation
\* of 3 or before it.
Nested3(one, two, three) ==
  Whole(<< <<Create(2)>> \o one \o <<Join(2)>>, two, three>>,
        <<Create(1), Create(3), Join(1), Join(3)>>)

\* 1 creates 2, which creates 3: a chain.
Chain3(one, two, three) ==
  Whole(<< <<Create(2)>> \o one \o <<Join(2)>>, <<Create(3)>> \o two \o <<Join(3)>>, three>>,
        <<Create(1), Join(1)>>)

Children(n, bodies) == {Program(b, <<>>, <<>>) : b \in [1 .. n -> bodies]}

Access    == {Read(1), Write(1), Read(2), Write(2)}
OneAccess == {<<a>> : a \in Access}
Accesses  == OneAccess \cup {<<a, b>> : a, b \in Access}

Section(m, a) == <<Lock(m), a, Unlock(m)>>
Nested(m, n)  == <<Lock(m), Lock(n), Unlock(n), Unlock(m)>>

Sections   == {Section(m, a) : m \in Mutexes, a \in {Write(1), Read(2)}}
NestedBoth == {Nested(1, 2), Nested(2, 1)}

\* Every pair of bodies of one or two accesses (the first thread starting on
\* object 1: the objects are interchangeable); a child racing with main;
\* pairs of critical sections followed or preceded by an access; three
\* threads with critical sections, nested locks or one access (the first one
\* starting on mutex 1).
MainRaces == {Program(<<b>>, <<>>, m) : b \in Accesses, m \in OneAccess}
Mixed     == {s \o a : s \in Sections, a \in {<<Write(1)>>, <<Read(1)>>}}
               \cup {a \o s : s \in Sections, a \in {<<Write(1)>>, <<Read(1)>>}}
Writers   == {Section(m, Write(1)) : m \in Mutexes} \cup {<<Write(1)>>}
Pairs     == {Program(b, <<>>, <<>>) :
                b \in {c \in [1 .. 2 -> Accesses] : c[1][1].obj = 1}}

\* Read-write locks: main only creates and joins; each child holds the lock
\* around one access.
RwSection(mode, a) == <<RwOp(mode), a, RwOp("UNLOCK")>>
RwPrograms ==
  Children(3, {RwSection(mode, a) : mode \in {"RDLOCK", "WRLOCK"},
                                    a \in {Read(1), Write(1)}})

\* Condition variables: one or two threads that wait once, and threads that
\* signal or broadcast once, with the mutex held or not.  There is no predicate:
\* a thread that waits after the only wake-up waits forever.  The first run
\* does not deadlock.
WaitOn(m, c)  == <<Unlock(m), Op("COND_WAIT", m, c), Lock(m)>>
Waiter        == <<Lock(1)>> \o WaitOn(1, 1) \o <<Unlock(1)>>
Wake(type)    == Op("COND_" \o type, NoId, 1)
Holding(type) == <<Lock(1), Wake(type), Unlock(1)>>
Unheld(type)   == <<Wake(type)>>

WaitAndWake(W(_)) ==
  LET wakes == {W("SIGNAL"), W("BROADCAST")}
  IN  {Program(b, <<>>, <<>>) :
         b \in {<<Waiter, x>> : x \in wakes} \cup {<<Waiter, x, y>> : x, y \in wakes}
                \cup {<<Waiter, Waiter, W("BROADCAST")>>}}

CondPrograms == WaitAndWake(Holding) \cup WaitAndWake(Unheld)

\* Creations by children, in a tree and in a chain.
NestedPrograms ==
  UNION {{Nested3(<<a>>, <<b>>, <<c>>), Chain3(<<a>>, <<b>>, <<c>>)} :
           a, b, c \in {Read(1), Write(1)}}

\* The class for which the exploration is complete (CompleteForSimple).
Simple == Children(2, OneAccess \cup Sections \cup NestedBoth)
            \cup Children(3, {<<Write(1)>>, <<Write(2)>>})
            \cup {Program(b, <<>>, <<>>) :
                    b \in {c \in [1 .. 3 -> {Section(1, a) : a \in Access}] : c[1][2].obj = 1}}

\* Programs that can or cannot deadlock, but do not in their first run.
LockPrograms == Children(2, NestedBoth \cup Sections)
                  \cup Children(3, NestedBoth \cup {<<Write(1)>>})

SimpleOrLocks == Simple \cup LockPrograms

\* Every family.
AllPrograms == Pairs \cup MainRaces \cup Children(2, Mixed)
                 \cup {Program(b, <<>>, <<>>) :
                         b \in {c \in [1 .. 3 -> Writers \cup NestedBoth] : c[1][1].obj = 1}}
                 \cup RwPrograms
                 \cup CondPrograms \cup NestedPrograms \cup Simple \cup LockPrograms

\* Single programs on which the exploration falls short.
RaceWithMain   == {Program(<< <<Write(1)>> >>, <<>>, <<Write(1)>>)}
TwoWritesOne   == {Program(<< <<Write(1), Write(1)>>, <<Write(1)>> >>, <<>>, <<>>)}
WriterReaders  == {Program(<< <<Write(1)>>, <<Read(1)>>, <<Read(1)>> >>, <<>>, <<>>)}
CreatesTree    == {Nested3(<<Write(1)>>, <<>>, <<Write(1)>>)}
MainHoldsMutex == {Program(<< <<Lock(1), Unlock(1)>> >>, <<Lock(1)>>, <<>>)}

----------------------------------------------------------------------------
(* The reference: all maximal executions of a program under any scheduler, *)
(* by breadth-first search over all interleavings.  A configuration is how *)
(* far the threads are, who holds the locks and how the racing operations  *)
(* performed so far are ordered.                                           *)

NotCreated == -1

HasOp(at, b) == at[b] \in 0 .. Len(program[b]) - 1

OperationAt(x) == LET o == program[x[1]][x[2]] IN Ev(o.type, x[1], o.obj, o.aux)

OpAt(at, b) == OperationAt(<<b, at[b] + 1>>)

\* A body waits from the release of the mutex on, until it has been signalled.
Waiters(c, cond) ==
  {b \in Bodies \ c.woken : /\ HasOp(c.at, b)
                            /\ OpAt(c.at, b).type = "COND_WAIT"
                            /\ OpAt(c.at, b).aux = cond}

MayRun(c, b) ==
  /\ HasOp(c.at, b)
  /\ LET e == OpAt(c.at, b)
     IN  /\ e.type = "MUTEX_LOCK"  => c.owner[e.obj] = Free
         /\ e.type = "RWLOCK_RDLOCK" => c.rw[e.obj].status # "RWLS_WRITING"
         /\ e.type = "RWLOCK_WRLOCK" => c.rw[e.obj].status = "RWLS_IDLE"
         /\ e.type = "COND_WAIT"   => b \in c.woken
         /\ e.type = "THREAD_JOIN" => c.at[e.aux] = Len(program[e.aux])

\* The events performed in configuration c, named by body and position.
Performed(c) == UNION {{<<b, i>> : i \in 1 .. c.at[b]} : b \in Bodies}

\* The sets of waiters e may wake: a signal wakes any one of them.
Wakes(c, e) ==
  LET waiting == Waiters(c, e.aux)
  IN  IF e.type = "COND_SIGNAL" /\ waiting # {} THEN {{w} : w \in waiting}
      ELSE IF e.type = "COND_BROADCAST" THEN {waiting} ELSE {{}}

\* The configurations after the next event of body b.
Ran(c, b) ==
  LET e == OpAt(c.at, b)
  IN  {[ at     |-> [x \in Bodies |-> IF x = b \/ (Creates(e) /\ x = e.aux)
                                      THEN c.at[x] + 1 ELSE c.at[x]],
         owner  |-> ExecuteMutexes(c.owner, e),
         rw     |-> ExecuteRwlocks(c.rw, e),
         woken  |-> (c.woken \ {b}) \cup woken,
         before |-> c.before \cup
                      {<<x, <<b, c.at[b] + 1>>>> : x \in {y \in Performed(c) :
                          y[1] # b /\ Dependent(OperationAt(y), e)}} ] :
         woken \in Wakes(c, e)}

Runnable(c) == {b \in Bodies : MayRun(c, b)}

FirstConfiguration ==
  [at |-> [b \in Bodies |-> IF b = 0 THEN 0 ELSE NotCreated],
   owner |-> [m \in Mutexes |-> Absent], rw |-> [l \in Rwlocks |-> RwAbsent],
   woken |-> {}, before |-> {}]

RECURSIVE Reachable(_)
Reachable(configurations) ==
  IF configurations = {} THEN {}
  ELSE configurations \cup
         Reachable(UNION {UNION {Ran(c, b) : b \in Runnable(c)} : c \in configurations})

Trace(c) == [at |-> {<<b, c.at[b]>> : b \in {x \in Bodies : c.at[x] # NotCreated}},
             before |-> c.before]

AllTraces == {Trace(c) : c \in {d \in Reachable({FirstConfiguration}) : Runnable(d) = {}}}

\* The pairs of accesses of two bodies to one object, one of them a write,
\* that an execution may come to at the same time.
Conflicting(x, y) == /\ {x.type, y.type} \subseteq ObjectTypes /\ x.obj = y.obj
                 /\ "OBJ_WRITE" \in {x.type, y.type}

DataRaces ==
  UNION {{<<<<b, c.at[b] + 1>>, <<d, c.at[d] + 1>>>> :
            <<b, d>> \in {p \in Runnable(c) \X Runnable(c) :
                           p[1] # p[2] /\ Conflicting(OpAt(c.at, p[1]), OpAt(c.at, p[2]))}} :
          c \in Reachable({FirstConfiguration})}

Deadlocked(outcome) == \E x \in outcome.at : x[2] < Len(program[x[1]])

----------------------------------------------------------------------------
(* Properties.                                                             *)

\* What update_backtrack_SourceDPOR and backtrack_SourceDPOR_helper are for
\* (the comments at scheduler.cc:680-684, 745-748 and 806-808): when no
\* backtrack point is left, every maximal execution of the program has been
\* explored up to the order of independent events.
Complete == phase = "done" /\ errors < MaxErrors => AllTraces \subseteq outcomes

\* Complete holds for the class Simple: two or three threads that race through
\* one access or one critical section each.
CompleteForSimple == program \in Simple => Complete

\* A deadlock is reported exactly when the program has an execution that
\* deadlocks ("will be thrown out by the scheduler when a deadlock is
\* found", inspect_exception.hh:13), in the programs whose threads are ordered
\* by mutexes: one or two critical sections each, or waits on a condition
\* variable that is signalled with the mutex held.
ReportsDeadlocks ==
  phase = "done" => (errors > 0 <=> \E o \in AllTraces : Deadlocked(o))

DeadlocksReported ==
  program \in SimpleOrLocks \cup WaitAndWake(Holding) => ReportsDeadlocks

\* Whatever is explored is an execution of the program, up to the order of
\* independent events, and the data races printed are races of the program: two
\* threads can come to the two accesses at the same time (program_state.cc:227).
ExploredReal ==
  phase = "done" => outcomes \subseteq AllTraces /\ reported \subseteq DataRaces

\* Threads of one access: when two of them race, a race is printed.  Races are
\* looked for only in the states a run backtracks to (scheduler.cc:892), and
\* an access behind a lock, a creation or another access is missed.
RacesFound ==
  phase = "done" /\ program \in Children(2, OneAccess) \cup Children(3, OneAccess)
    => (DataRaces # {} => reported # {})

\* Each deadlocking execution the exploration runs into is counted once, and
\* a run cut short by its sleep set is never taken for one.
DeadlocksCounted ==
  phase = "done" => errors = Cardinality({o \in outcomes : Deadlocked(o)})

\* The transition system a run goes through is the one SchedulerRun checks.
Run == INSTANCE SchedulerRun WITH
  Objects <- {1, 2}, ChildJoinsCreator <- FALSE,
  enabled   <- Top.p.enabled,
  disabled  <- Top.p.disabled,
  mutexes   <- Top.mutexes,
  rwlocks   <- Top.rwlocks,
  locksets  <- Top.locksets,
  sleepset  <- Top.sleepset,
  nthreads  <- NewThread(pc),
  aborted   <- phase = "aborted"

\* A step of Run!Next that executes the chosen event, what was explored before
\* from this state sleeping already.
StepOfRun ==
  \/ Run!ExecuteEvent(Chosen, {})  \/ Run!ExecuteEnd(Chosen, {})
  \/ Run!ExecuteCreate(Chosen, {}) \/ Run!Abort(Chosen)

\* Every step that extends the current execution, in the first run, at a
\* backtrack point or after it, is a step of SchedulerRun: what SchedulerRun
\* guarantees of one run holds along every branch of the exploration.
StepsOfSchedulerRun ==
  [][CanStep => StepOfRun]_vars
=============================================================================
