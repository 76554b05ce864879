---------------------------- MODULE MC_ContextBound ----------------------------
(***************************************************************************)
(* ContextBound for TLC: programs, the reference definition of the         *)
(* executions within the bound, and the properties that need it.           *)
(***************************************************************************)
EXTENDS MC_SourceDPOR, ContextBound

\* Two threads of one access, one critical section or two nested locks.
TwoThreads == Children(2, OneAccess \cup Sections \cup NestedBoth)

\* Three threads of one or two accesses; two readers and a writer of a
\* read-write lock.
ThreeThreads ==
  Children(3, {<<Write(1)>>, <<Read(1), Write(2)>>, <<Write(2), Write(1)>>})
ReadersWriter ==
  {Program(<<RwSection("RDLOCK", Read(1)), RwSection("RDLOCK", Read(1)),
             RwSection("WRLOCK", Write(1))>>, <<>>, <<>>)}

\* One or two threads against a main that goes on after it has created them.
MainGoesOn ==
  {Program(<<b>>, <<>>, m) : b \in OneAccess, m \in Accesses \ OneAccess}
    \cup {Program(<<b, c>>, <<>>, m) : b, c, m \in OneAccess}

BoundedPrograms ==
  SimpleOrLocks \cup ThreeThreads \cup MainRaces \cup MainGoesOn \cup ReadersWriter
    \cup WaitAndWake(Holding) \cup NestedPrograms

----------------------------------------------------------------------------
(* The reference: the maximal executions with at most Bound preemptions.   *)
(* A configuration also has the thread that ran last and the preemptions.  *)

RanBounded(d, b) ==
  {[ c    |-> c,
     last |-> b,
     n    |-> IF b # d.last /\ MayRun(d.c, d.last) THEN d.n + 1 ELSE d.n ] : c \in Ran(d.c, b)}

RECURSIVE MaximalBounded(_)
MaximalBounded(configurations) ==
  IF configurations = {} THEN {}
  ELSE LET next == UNION {UNION {RanBounded(d, b) : b \in Runnable(d.c)} :
                            d \in configurations}
       IN  {Trace(d.c) : d \in {x \in configurations : Runnable(x.c) = {}}}
           \cup MaximalBounded({d \in next : d.n <= Bound})

BoundedTraces == MaximalBounded({[c |-> FirstConfiguration, last |-> 0, n |-> 0]})

\* The preemptions of the current execution: the steps of another thread than
\* the step before although that thread could have gone on.
Preemptions ==
  Cardinality({k \in 2 .. Len(stack) - 1 :
                 /\ Sel(k).tid # Sel(k - 1).tid
                 /\ EventsOf(stack[k].p.enabled, Sel(k - 1).tid) # {}})

----------------------------------------------------------------------------
(* Properties.                                                             *)

\* After the first run, no execution with more than Bound preemptions is
\* explored to its end, though a backtrack event is executed, and events are
\* added where a thread was scheduled, without looking at the bound
\* (scheduler.cc:1041-1066, 1220).
BoundRespected ==
  phase = "explore" /\ Top.p.enabled = {} => Preemptions <= Bound

\* With two threads that race through one access, one critical section or two
\* nested locks, every execution with at most Bound preemptions is explored up
\* to the order of independent events.  (With three threads it is not: one
\* race with each thread is looked at, scheduler.cc:1084.  With a bound of 0 it
\* is not either: a race adds nothing to its own state unless context_switches
\* is below the bound, scheduler.cc:1009, also where no preemption is needed.)
BoundedComplete ==
  phase = "done" /\ Bound > 0 /\ errors < MaxErrors /\ program \in TwoThreads
    => BoundedTraces \subseteq outcomes

\* A deadlock that needs no more than Bound preemptions is found, in the
\* programs in which the unbounded exploration finds it, if Bound is not 0.
BoundedDeadlocks ==
  phase = "done" /\ Bound > 0 /\ program \in SimpleOrLocks \cup WaitAndWake(Holding)
    => ((\E o \in BoundedTraces : Deadlocked(o)) => errors > 0)
=============================================================================
