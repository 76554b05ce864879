----------------------------- MODULE ContextBound -----------------------------
(***************************************************************************)
(* The exploration with a bound on preemptions (option contextbound):      *)
(* context_bound_SourceDPOR, update_backtrack_context_bound_SourceDPOR and *)
(* backtrack_context_bound_SourceDPOR_helper (scheduler.cc:953-1306).      *)
(*                                                                         *)
(* The first run, the pops, the restart, the replay and the step at a      *)
(* backtrack point are SourceDPOR's.  What differs: which event is chosen, *)
(* that a state all of whose enabled events sleep wakes one of them, that  *)
(* a race also adds backtrack points where its thread was scheduled, and   *)
(* that a run returns as soon as it exceeds the bound.                     *)
(***************************************************************************)
EXTENDS SourceDPOR

CONSTANT Bound      \* Scheduler::bound

ASSUME BoundAssumption == Bound \in Nat

----------------------------------------------------------------------------
(* The event to execute.                                                   *)

\* The state before an event is chosen: when everything enabled sleeps, one
\* event is woken, preferably one of remove_from_sleep.
Awake(st) ==
  LET wanted == st.p.enabled \cap st.removeFromSleep
      woken  == First(IF wanted # {} THEN wanted ELSE st.p.enabled)
  IN  IF Executable(st) # {} THEN st ELSE [st EXCEPT !.sleepset = @ \ {woken}]

AwakeTop == [stack EXCEPT ![Len(stack)] = Awake(Top)]

\* The thread that executed the last event goes on if it can.
Preferred ==
  LET candidates == Executable(Awake(Top))
      own        == EventsOf(candidates, Sel(Len(stack) - 1).tid)
  IN  First(IF own # {} THEN own ELSE candidates)

----------------------------------------------------------------------------
(* The races of the event e about to be executed.                          *)

\* The state in which the thread of the k-th event was scheduled for the last
\* time before it: none if only main has run.
BlockStarts(k) == {j \in 2 .. k : /\ Sel(j - 1).tid # Sel(j).tid
                                  /\ \A i \in j .. k : Sel(i).tid = Sel(k).tid}

\* Mutant: events ordered by their clocks race as well.
BoundedRaceOrdered(k, e) ==
  /\ e.tid # Sel(k).tid
  /\ Dependent(Sel(k), e)
  /\ \E a \in EventsOf(PendingIn(stack[k].p), e.tid) : a \notin stack[k].sleepset

\* The race between the k-th event and e can be reversed.
BoundedRace(k, e) ==
  /\ e.tid # Sel(k).tid
  /\ Dependent(Sel(k), e)
  /\ \E a \in EventsOf(PendingIn(stack[k].p), e.tid) : a \notin stack[k].sleepset
  /\ IsConcurrentWith(stack[k].clocks[Sel(k).tid], Top.clocks[e.tid])

\* The states looked at: the last race with each thread (tid_done).
RacesWith(e) ==
  LET races == {k \in 1 .. Len(stack) - 1 : BoundedRace(k, e)}
  IN  {k \in races : \A j \in races : j > k => Sel(j).tid # Sel(k).tid}

\* Mutant: a state one preemption below the bound counts as at the bound.
AddPointOneEarlier(st, k, n) ==
  IF st.switches + 1 < Bound \/ k = 1 THEN [st EXCEPT !.backtrack = @ \cup {n}] ELSE st

\* The event n is added to the state of the race, unless the bound is reached.
AddPoint(st, k, n) ==
  IF st.switches < Bound \/ k = 1 THEN [st EXCEPT !.backtrack = @ \cup {n}] ELSE st

\* It is also added to the state b in which the thread was scheduled, or all
\* events enabled there are.
AddBlockPoint(st, b, e, n) ==
  IF \/ IsMutexExclusive(st.locksets[Sel(b).tid], Top.locksets[e.tid])
     \/ n \in st.sleepset \cup st.backtrack \cup st.done
     \/ n.tid = Sel(b).tid
  THEN st
  ELSE IF n \in st.p.enabled
  THEN [st EXCEPT !.backtrack = @ \cup {n}, !.removeFromSleep = Insert(@, Sel(b))]
  ELSE [st EXCEPT !.backtrack = @ \cup (st.p.enabled \ (st.sleepset \cup st.done))]

\* backtrack_context_bound_SourceDPOR_helper for the race of the k-th event with
\* e: the event inserted, as a set of at most one element.
Inserted(k, e) == ToInsert(AwakeTop[k], k, e)

\* The walk from the first state of the stack to the race stops at a NULL state
\* below the bottom: only the thread of the race had been scheduled.
RunsPastTheBottom(k, e) == k > 1 /\ BlockStarts(k) = {} /\ Inserted(k, e) # {}

\* update_backtrack_context_bound_SourceDPOR: the stack it leaves, as a set that
\* is empty if it reads the state that is NULL.  The races are with different
\* threads, so that no two of them change the same state.
Races(e) ==
  LET races == {k \in RacesWith(e) : Inserted(k, e) # {}}
      AddPoints(j) ==
        IF j \in races THEN AddPoint(AwakeTop[j], j, First(Inserted(j, e)))
        ELSE IF \E k \in races : j \in BlockStarts(k)
        THEN LET k == CHOOSE x \in races : j \in BlockStarts(x)
             IN  AddBlockPoint(AwakeTop[j], j, e, First(Inserted(k, e)))
        ELSE AwakeTop[j]
  IN  IF \E k \in races : RunsPastTheBottom(k, e) THEN {}
      ELSE {[j \in 1 .. Len(stack) |-> AddPoints(j)]}

----------------------------------------------------------------------------
(* context_bound_SourceDPOR.                                               *)

\* Mutant: the bound excludes itself.
WithinBoundStrictly(st) == st.switches < Bound

WithinBound(st) == st.switches <= Bound

\* Another iteration of its loop.  A new state that exceeds the bound is not
\* pushed although its event has been executed: the run returns, without a
\* deadlock test and without killing the process.
BoundedStep ==
  /\ phase = "explore"
  /\ Top.p.enabled # {}
  /\ \E e \in {Preferred} : \E raced \in Races(e) :
       /\ StateAsserts(Top, e)
       /\ \E after \in {Push(raced, e)} :
            IF WithinBound(after[Len(after)])
            THEN stack' = after /\ phase' = phase
            ELSE stack' = SubSeq(after, 1, Len(stack)) /\ phase' = "decide"
       /\ pc' = Permit(program, pc, e)
       /\ AddToTable(e)
  /\ UNCHANGED <<program, replayed, errors, outcomes, reported>>

\* An iteration of monitor_first_run: the bound is not looked at, the lowest
\* enabled thread goes on.
FirstRunStep ==
  /\ phase = "first"
  /\ Top.p.enabled # {}
  /\ \E raced \in Races(Chosen) :
       /\ StateAsserts(Top, Chosen)
       /\ stack' = Push(raced, Chosen)
  /\ pc' = Permit(program, pc, Chosen)
  /\ AddToTable(Chosen)
  /\ UNCHANGED <<program, phase, replayed, errors, outcomes, reported>>

\* The event the current state executes next.
NextEvent == IF phase = "explore" THEN Preferred ELSE Chosen

\* The scheduler dies: an assertion fails, or the search for the state in
\* which the thread was scheduled goes past the bottom of the stack (temp is
\* NULL, scheduler.cc:1024).
BoundedAbort ==
  /\ phase \in {"first", "explore", "backtrack"}
  /\ Top.p.enabled # {}
  /\ \/ phase # "backtrack" /\ Races(NextEvent) = {}
     \/ ~StateAsserts(Top, NextEvent)
  /\ phase' = "aborted"
  /\ UNCHANGED <<program, pc, threads, stack, replayed, errors, outcomes, reported>>

\* Nothing is enabled.
BoundedEnd == Top.p.enabled = {} /\ ExploreEnd

BoundedNext ==
  \/ FirstRunStep \/ FirstRunEnd \/ Finish \/ NextRun \/ ReplayEvent \/ ReplayEnd
  \/ BacktrackStep \/ BoundedStep \/ BoundedAbort \/ BoundedEnd

BoundedSpec == Init /\ [][BoundedNext]_vars /\ WF_vars(BoundedNext)

----------------------------------------------------------------------------
(* Properties.                                                             *)

\* Main was alone up to a racing event and has done something else since it
\* created the thread of e.
MainRanOn(e) ==
  \E k \in RacesWith(e) : /\ k > 1 /\ \A j \in 1 .. k : Sel(j).tid = 0
                          /\ e.tid \in DOMAIN stack[k - 1].clocks

\* The search for the state in which a thread was scheduled, which has no
\* test for the bottom of the stack (scheduler.cc:1017-1024), finds one, unless
\* it is for main's second event, or a later one, after it created the thread
\* it races with: the clocks hide the race of the first one, which is ordered
\* like the creation.
SearchStaysInStack ==
  phase \in {"first", "explore"} /\ Top.p.enabled # {}
    => Races(NextEvent) # {} \/ MainRanOn(NextEvent)

\* In the program main does more than to create, join and end two operations
\* or more after a creation.
MainRunsOn ==
  \E i, k \in DOMAIN program[0] :
    /\ program[0][i].type = "THREAD_PRE_CREATE" /\ k > i + 1
    /\ program[0][k].type \notin {"THREAD_PRE_CREATE", "THREAD_JOIN", "THREAD_END"}

\* The bounded exploration ends too, although it wakes sleeping events; the
\* scheduler dies only on a read-write lock or where the search leaves the stack.
BoundedTermination ==
  <>(phase = "done" \/ (phase = "aborted" /\ (UsesRwlocks \/ MainRunsOn)))
=============================================================================
