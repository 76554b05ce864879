----------------------------- MODULE SourceDPOR -----------------------------
(***************************************************************************)
(* The exploration of the interleavings of one program:                    *)
(* Scheduler::run, monitor_first_run, SourceDPOR,                          *)
(* update_backtrack_SourceDPOR, backtrack_SourceDPOR_helper and return_min *)
(* (scheduler.cc), next_state (next_state.cc) and StateStack               *)
(* (state_stack.cc).                                                       *)
(*                                                                         *)
(* The program under test is one of Programs, chosen once: a straight-line *)
(* body per thread, any of which may create the threads of other bodies.   *)
(* A thread gets its id when it is created, so that the same body may run  *)
(* under different ids.  "pc" is where each thread of the running process  *)
(* stands, and is lost whenever the process is restarted.                  *)
(***************************************************************************)
EXTENDS ProgramState, ClockVectors, Sequences

CONSTANTS
  MaxThreads,   \* threads of a program, main included
  Mutexes, Rwlocks, Conds,
  Programs,     \* programs under test: body -> sequence of operations
  MaxErrors     \* setting.max_errors

Threads == 0 .. MaxThreads - 1
Bodies  == Threads

\* An operation of a body: an event without its thread.  "aux" of a
\* THREAD_PRE_CREATE and of a THREAD_JOIN is the body of the other thread.
Op(type, obj, aux) == [type |-> type, obj |-> obj, aux |-> aux]

\* An operation names the objects its type needs; what a join waits for, and
\* what a creation starts, is a body.
Operations ==
  {o \in [type : EventTypes \ {"THREAD_CREATE"}, obj : Int, aux : Int] :
     /\ o.type \in MutexTypes \cup {"COND_WAIT"} => o.obj \in Mutexes
     /\ o.type \in RwlockTypes => o.obj \in Rwlocks
     /\ o.type \in {"THREAD_PRE_CREATE", "THREAD_JOIN"} => o.aux \in Bodies \ {0}}

\* Body 0 is main's.  Every other body that is not empty is created once, by a
\* body with a lower number; a body joins only what it has created, and ends
\* once.
IsProgram(prog) ==
  LET Places(type, b) == UNION {{<<c, i>> : i \in {j \in DOMAIN prog[c] :
                                   prog[c][j].type = type /\ prog[c][j].aux = b}} :
                                c \in Bodies}
  IN  /\ prog \in [Bodies -> Seq(Operations)]
      /\ prog[0] # <<>> /\ Head(prog[0]) = Op("THREAD_START", NoId, NoId)
      /\ \A b \in Bodies : \A i \in DOMAIN prog[b] :
           /\ prog[b][i].type = "THREAD_END"   <=> i = Len(prog[b])
           /\ prog[b][i].type = "THREAD_START" <=> b = 0 /\ i = 1
      /\ \A b \in Bodies \ {0} :
           LET creations == Places("THREAD_PRE_CREATE", b)
           IN  /\ prog[b] # <<>> => \E x \in creations : creations = {x} /\ x[1] < b
               /\ prog[b] = <<>> => creations = {}
               /\ \A y \in Places("THREAD_JOIN", b) :
                    \E x \in creations : x[1] = y[1] /\ x[2] < y[2]

ASSUME ExplorerAssumption ==
  /\ MaxThreads \in Nat \ {0}
  /\ Mutexes \subseteq Nat \ {0}
  /\ Rwlocks \subseteq Nat \ {0}
  /\ Conds   \subseteq Nat \ {0}
  /\ MaxErrors \in Nat \ {0}
  /\ \A prog \in Programs : IsProgram(prog)

VARIABLES
  program,    \* the program under test
  pc,         \* for each thread of the running process its body, and how many
              \* of its operations are done
  threads,    \* thread_table
  stack,      \* state_stack
  phase,      \* where the scheduler is: see the actions
  replayed,   \* states of the stack replayed in the restarted process
  errors,     \* num_of_errors_detected
  outcomes,   \* history: the maximal executions explored so far
  reported    \* history: the data races check_race has printed

vars == <<program, pc, threads, stack, phase, replayed, errors, outcomes, reported>>

NoEvent    == Ev("UNKNOWN", NoId, NoId, NoId)    \* InspectEvent::dummyEvent

Phases == {"first", "explore", "decide", "replay", "backtrack", "done",
           "aborted"}

----------------------------------------------------------------------------
(* The program under test.                                                 *)

HasNext(prog, at, t) == t \in DOMAIN at /\ at[t].done < Len(prog[at[t].body])

\* The id the next thread gets.
NewThread(at) == Cardinality(DOMAIN at)

ThreadOf(at, body) == CHOOSE t \in DOMAIN at : at[t].body = body

NextOp(prog, at, t) == prog[at[t].body][at[t].done + 1]

\* What event_buffer.get_event(t) returns: the operation thread t announced.
Announced(prog, at, t) ==
  LET o == NextOp(prog, at, t)
  IN  Ev(o.type, t, o.obj,
         CASE o.type = "THREAD_PRE_CREATE" -> NoId
           [] o.type = "THREAD_JOIN"       -> ThreadOf(at, o.aux)
           [] OTHER                        -> o.aux)

Creates(e) == e.type = "THREAD_PRE_CREATE"

\* The process after the permit for the event e (and, for a creation, those
\* for THREAD_POST_CREATE and the child's THREAD_START).
Permit(prog, at, e) ==
  LET created == [body |-> NextOp(prog, at, e.tid).aux, done |-> 0]
      moved   == [at EXCEPT ![e.tid].done = @ + 1]
  IN  IF Creates(e)
      THEN [t \in DOMAIN at \cup {NewThread(at)} |->
              IF t \in DOMAIN at THEN moved[t] ELSE created]
      ELSE moved

Restarted == [t \in {0} |-> [body |-> 0, done |-> 0]]

----------------------------------------------------------------------------
(* State (state.hh) and next_state.                                        *)

InitialState ==
  [ p         |-> [enabled  |-> {Ev("THREAD_START", 0, NoId, NoId)},
                   disabled |-> {}],
    mutexes   |-> [m \in Mutexes |-> Absent],
    rwlocks   |-> [l \in Rwlocks |-> RwAbsent],
    locksets  |-> [t \in Threads |-> NoLockset],
    clocks    |-> FirstClocks,
    sleepset  |-> {}, backtrack |-> {}, done |-> {},
    sel       |-> NoEvent,
    removeFromSleep |-> {},     \* used by ContextBound only
    switches        |-> 0 ]     \* context_switches

Executable(st) == st.p.enabled \ st.sleepset

\* The assertions of the add_thread of Locksets, ClockVectorList and ThreadTable.
CreateAsserts(st, e) ==
  /\ st.locksets[NewThread(pc)] = NoLockset
  /\ AddThreadAsserts(st.clocks, NewThread(pc), e.tid)
  /\ NewThread(pc) \notin threads

\* The threads whose next event next_state adds: that of e, unless it ends, and
\* one that e creates.
Announcing(e) ==
  {t \in {e.tid} : e.type # "THREAD_END"} \cup {t \in {NewThread(pc)} : Creates(e)}

StateAsserts(st, e) ==
  /\ e \in st.p.enabled
  /\ ExecuteAsserts(st.mutexes, st.rwlocks, st.locksets, e)
  /\ Creates(e) => CreateAsserts(st, e)
  /\ \A t \in Announcing(e) :
       AddAsserts(ExecuteMutexes(st.mutexes, e), ExecuteRwlocks(st.rwlocks, e),
                  Announced(program, Permit(program, pc, e), t))

\* The pending events after e: those of the other threads, the first event of
\* a thread e creates, and the next event of e's own thread.
NewPending(st, e, mutexes, rwlocks, at) ==
  LET Add(p, t) == AddTransition(p, mutexes, rwlocks, Announced(program, at, t))
      executed  == AfterExecuting(st.p, e)
      withChild == IF Creates(e) THEN Add(executed, NewThread(pc))
                   ELSE executed
  IN  IF e.type = "THREAD_END" THEN withChild ELSE Add(withChild, e.tid)

\* Mutant: a new thread gets no lock set.
NewLocksetsWithoutChild(st, e) == ExecuteLocksets(st.locksets, e)

NewLocksets(st, e) ==
  ExecuteLocksets(st.locksets,
    IF Creates(e) THEN Ev("THREAD_START", NewThread(pc), NoId, NoId) ELSE e)

NewClocks(st, e) ==
  LET ticked == Tick(st.clocks, e.tid)
  IN  IF Creates(e) THEN AddThread(ticked, NewThread(pc), e.tid) ELSE ticked

\* The new state next_state returns; "at" is the process after the permit.
NewState(st, e, at) ==
  LET mutexes == ExecuteMutexes(st.mutexes, e)
      rwlocks == ExecuteRwlocks(st.rwlocks, e)
  IN
  [ p         |-> NewPending(st, e, mutexes, rwlocks, at),
    mutexes   |-> mutexes,
    rwlocks   |-> rwlocks,
    locksets  |-> NewLocksets(st, e),
    clocks    |-> NewClocks(st, e),
    sleepset  |-> UpdateSleepset(st.sleepset, e),
    backtrack |-> {}, done |-> {}, sel |-> NoEvent,
    removeFromSleep |-> st.removeFromSleep,
    switches        |-> st.switches ]

\* What next_state leaves in the state e is executed from.
Executed(st, e) ==
  [st EXCEPT !.sleepset = Insert(@, e),
             !.done     = Insert(@, e),
             !.sel      = IF Creates(e)
                          THEN Ev("THREAD_CREATE", e.tid, NoId, NewThread(pc))
                          ELSE e]

Top == stack[Len(stack)]

\* Mutant: a thread whose next event sleeps is not taken to be preempted.
PreemptsUnlessSleeping(stk, e) ==
  /\ Len(stk) > 1
  /\ LET last == stk[Len(stk) - 1].sel.tid
     IN  last # e.tid /\ EventsOf(Executable(stk[Len(stk)]), last) # {}

\* change_preemption_bound: in the top state of stk, e preempts the thread that
\* executed the last event.
Preempts(stk, e) ==
  /\ Len(stk) > 1
  /\ LET last == stk[Len(stk) - 1].sel.tid
     IN  last # e.tid /\ EventsOf(stk[Len(stk)].p.enabled, last) # {}

\* state_stack.push(next_state(top, e)), the top of stk being stack's.
Push(stk, e) ==
  LET n   == Len(stk)
      new == NewState(stk[n], e, Permit(program, pc, e))
  IN  Append([stk EXCEPT ![n] = Executed(@, e)],
             IF Preempts(stk, e) THEN [new EXCEPT !.switches = @ + 1] ELSE new)

----------------------------------------------------------------------------
(* update_backtrack_SourceDPOR: the races of e, about to be executed in    *)
(* the top state, with the executed events.                                *)

Sel(k) == stack[k].sel

\* "dependent, or of the same thread": the direct happens-before edges.
Ordered(e, f) == e.tid = f.tid \/ Dependent(e, f)

\* Mutant: the walk over the events in between starts at the k-th one.
BetweenFromK(k) == k .. Len(stack) - 1

Between(k) == k + 1 .. Len(stack) - 1

\* The race between the k-th executed event and e can be reversed.
ReversibleRace(k, e) ==
  /\ e.tid # Sel(k).tid
  /\ Dependent(Sel(k), e)
  /\ \A j \in Between(k) : ~(Ordered(Sel(k), Sel(j)) /\ Ordered(Sel(j), e))
  /\ \E a \in EventsOf(PendingIn(stack[k].p), e.tid) : a \notin stack[k].sleepset
  /\ IsConcurrentWith(stack[k].clocks[Sel(k).tid], Top.clocks[e.tid])

\* notdep: the executed events after the k-th one that it does not order,
\* and e.
NotDep(k, e) == {Sel(j) : j \in {i \in Between(k) : ~Ordered(Sel(k), Sel(i))}}
                  \cup {e}

\* From state k on, thread t executes an event before thread u does.
OccursBefore(k, t, u) ==
  \E j \in k .. Len(stack) - 1 :
     Sel(j).tid = t /\ \A i \in k .. j : Sel(i).tid # u

\* return_min: the events enabled in state k that can start w.
ReturnMin(k, w) ==
  {n \in stack[k].p.enabled :
     /\ \E x \in w : x.tid = n.tid
     /\ \A x \in w : x.tid # n.tid /\ OccursBefore(k, x.tid, n.tid)
                       => ~Dependent(x, n)}

\* Mutant: two lock sets exclude one another even when they are disjoint.
IsMutexExclusiveAlways(ls1, ls2) == ls1 # NoLockset /\ ls2 # NoLockset

IsMutexExclusive(ls1, ls2) ==
  ls1 # NoLockset /\ ls2 # NoLockset /\ ls1 \cap ls2 # {}

\* Mutant: sleeping events are inserted as well.
ToInsertSleeping(st, k, e) ==
  LET minimal == ReturnMin(k, NotDep(k, e))
      usable  == {n \in minimal : n.tid # Sel(k).tid}
  IN  IF \/ minimal \cap (st.backtrack \cup st.done) # {}
         \/ IsMutexExclusive(st.locksets[Sel(k).tid], Top.locksets[e.tid])
         \/ usable = {}
      THEN {} ELSE {First(usable)}

\* backtrack_SourceDPOR_helper: the event added to the backtrack set of st,
\* the k-th state, as a set of at most one element.
ToInsert(st, k, e) ==
  LET minimal == ReturnMin(k, NotDep(k, e))
      usable  == {n \in minimal : n.tid # Sel(k).tid /\ n \notin st.sleepset}
  IN  IF \/ minimal \cap (st.backtrack \cup st.done) # {}
         \/ IsMutexExclusive(st.locksets[Sel(k).tid], Top.locksets[e.tid])
         \/ usable = {}
      THEN {} ELSE {First(usable)}

UpdateBacktrack(e) ==
  [k \in 1 .. Len(stack) |->
     IF k < Len(stack) /\ ReversibleRace(k, e)
     THEN [stack[k] EXCEPT !.backtrack = @ \cup ToInsert(stack[k], k, e)]
     ELSE stack[k]]

----------------------------------------------------------------------------
(* The history of a run: how far each body got, and the order of its       *)
(* racing events.  Two executions are equivalent iff these are equal.  An  *)
(* event is named by its body and its place in it.                         *)

Occurrence(k) ==
  <<pc[Sel(k).tid].body, Cardinality({j \in 1 .. k : Sel(j).tid = Sel(k).tid})>>

Progress == {<<pc[t].body, pc[t].done>> : t \in DOMAIN pc}

Outcome ==
  LET steps == 1 .. Len(stack) - 1
      races == {jk \in steps \X steps : /\ jk[1] < jk[2]
                                        /\ Sel(jk[1]).tid # Sel(jk[2]).tid
                                        /\ Dependent(Sel(jk[1]), Sel(jk[2]))}
  IN  [ at |-> Progress, before |-> {<<Occurrence(jk[1]), Occurrence(jk[2])>> : jk \in races} ]

\* A run over: the execution is maximal unless sleeping events were left.
Record == outcomes' = IF Top.p.enabled = {} THEN outcomes \cup {Outcome} ELSE outcomes

----------------------------------------------------------------------------
(* The data race a state is reported for.                                  *)

\* ProgramState::check_race: the first enabled event that races with another
\* one, and the first such one, as a set of at most one pair.
CheckRace(enabled) ==
  LET racing == {x \in enabled : RaceEvents(enabled, x) # {}}
      first  == First(racing)
  IN  IF racing = {} THEN {} ELSE {<<first, First(RaceEvents(enabled, first))>>}

NextOccurrence(t) == <<pc[t].body, pc[t].done + 1>>

\* Scheduler::check_race prints the race and counts nothing.
Report(enabled) ==
  reported' = reported \cup {<<NextOccurrence(r[1].tid), NextOccurrence(r[2].tid)>> :
                                r \in CheckRace(enabled)}

\* next_state adds a thread it creates to the thread table.
AddToTable(e) ==
  threads' = IF Creates(e) THEN threads \cup {NewThread(pc)} ELSE threads

----------------------------------------------------------------------------
(* The scheduler.  The counters it only prints (run_counter, num_killed,   *)
(* num_of_transitions) are left out.                                       *)

Init ==
  /\ program  \in Programs
  /\ pc       = Restarted
  /\ threads  = {0}
  /\ stack    = <<InitialState>>
  /\ phase    = "first"
  /\ replayed = 0
  /\ errors   = 0
  /\ outcomes = {}
  /\ reported = {}

\* Another iteration of the loop of monitor_first_run or of SourceDPOR, or
\* the first step of a run of SourceDPOR.
CanStep ==
  \/ phase = "first"   /\ Top.p.enabled # {}
  \/ phase = "explore" /\ Executable(Top) # {}
  \/ phase = "backtrack"

\* The event it executes: the backtrack event, then the executable event, of
\* the lowest thread.
Chosen == First(IF phase = "backtrack" THEN Top.backtrack ELSE Executable(Top))

\* An iteration of the loops: the races of the chosen event add backtrack
\* points, and it is executed.
ExploreStep ==
  /\ phase \in {"first", "explore"}
  /\ CanStep
  /\ StateAsserts(Top, Chosen)
  /\ \E raced \in {UpdateBacktrack(Chosen)} : stack' = Push(raced, Chosen)
  /\ pc'    = Permit(program, pc, Chosen)
  /\ AddToTable(Chosen)
  /\ UNCHANGED <<program, phase, replayed, errors, outcomes, reported>>

\* Mutant: the backtrack point stays in the backtrack set.
BacktrackStepKeepsPoint ==
  /\ phase = "backtrack"
  /\ StateAsserts(Top, Chosen)
  /\ stack' = Push(stack, Chosen)
  /\ pc'    = Permit(program, pc, Chosen)
  /\ AddToTable(Chosen)
  /\ Report(Top.p.enabled)
  /\ phase' = "explore"
  /\ UNCHANGED <<program, replayed, errors, outcomes>>

\* The first step of a run of SourceDPOR.  The races of the backtrack event
\* are not looked at.
BacktrackStep ==
  LET n == Len(stack)
  IN
  /\ phase = "backtrack"
  /\ StateAsserts(Top, Chosen)
  /\ stack' = [Push(stack, Chosen) EXCEPT ![n].backtrack = @ \ {Chosen}]
  /\ pc'    = Permit(program, pc, Chosen)
  /\ AddToTable(Chosen)
  /\ Report(Top.p.enabled)
  /\ phase' = "explore"
  /\ UNCHANGED <<program, replayed, errors, outcomes>>

\* monitor_first_run returns: there is no deadlock test.
FirstRunEnd ==
  /\ phase = "first"
  /\ ~CanStep
  /\ phase' = "decide"
  /\ Record
  /\ UNCHANGED <<program, pc, threads, stack, replayed, errors, reported>>

\* Mutant: the deadlock test forgets the sleeping events.
ExploreEndIgnoresSleep ==
  /\ phase = "explore"
  /\ ~CanStep
  /\ phase'  = "decide"
  /\ errors' = IF Top.p.disabled # {} THEN errors + 1 ELSE errors
  /\ Record
  /\ UNCHANGED <<program, pc, threads, stack, replayed, reported>>

\* SourceDPOR returns after its deadlock test.  The process is killed unless
\* every thread has ended.
ExploreEnd ==
  /\ phase = "explore"
  /\ ~CanStep
  /\ phase'  = "decide"
  /\ errors' = IF Top.p.disabled # {} /\ Top.sleepset = {} THEN errors + 1 ELSE errors
  /\ Record
  /\ UNCHANGED <<program, pc, threads, stack, replayed, reported>>

\* The loop condition of Scheduler::run.
HasBacktrackPoints == \E k \in 1 .. Len(stack) : stack[k].backtrack # {}

Finish ==
  /\ phase = "decide"
  /\ ~HasBacktrackPoints \/ errors >= MaxErrors
  /\ phase' = "done"
  /\ UNCHANGED <<program, pc, threads, stack, replayed, errors, outcomes, reported>>

DeepestBacktrack ==
  CHOOSE k \in 1 .. Len(stack) :
    /\ stack[k].backtrack # {}
    /\ \A j \in k + 1 .. Len(stack) : stack[j].backtrack = {}

\* Mutant: the process is not restarted.
NextRunSameProcess ==
  /\ phase = "decide"
  /\ HasBacktrackPoints /\ errors < MaxErrors
  /\ stack'    = SubSeq(stack, 1, DeepestBacktrack)
  /\ phase'    = "replay"
  /\ replayed' = 0
  /\ UNCHANGED <<program, pc, threads, errors, outcomes, reported>>

\* Mutant: the thread table is not reset.
NextRunKeepsTable ==
  /\ phase = "decide"
  /\ HasBacktrackPoints /\ errors < MaxErrors
  /\ stack'    = SubSeq(stack, 1, DeepestBacktrack)
  /\ phase'    = "replay"
  /\ pc'       = Restarted
  /\ replayed' = 0
  /\ UNCHANGED <<program, threads, errors, outcomes, reported>>

\* SourceDPOR starts: it resets the thread table, pops the states above the deepest backtrack point
\* and restarts the process.
NextRun ==
  /\ phase = "decide"
  /\ HasBacktrackPoints /\ errors < MaxErrors
  /\ stack'    = SubSeq(stack, 1, DeepestBacktrack)
  /\ phase'    = "replay"
  /\ pc'       = Restarted
  /\ threads'  = {0}
  /\ replayed' = 0
  /\ UNCHANGED <<program, errors, outcomes, reported>>

\* Replaying the next state of the stack: a creation is replayed as its
\* three handshakes, the last of them with the thread that has the id of the
\* thread created there; any other event must be the one selected there.
Replayed == stack[replayed + 1].sel

ReplayMatches ==
  /\ HasNext(program, pc, Replayed.tid)
  /\ LET e == Announced(program, pc, Replayed.tid)
     IN  IF Replayed.type = "THREAD_CREATE"
         THEN Creates(e) /\ Replayed.aux = NewThread(pc) /\ Replayed.aux \notin threads
         ELSE SameEvent(e, Replayed)

ReplayEvent ==
  /\ phase = "replay"
  /\ replayed < Len(stack) - 1
  /\ ReplayMatches
  /\ pc'       = Permit(program, pc, Announced(program, pc, Replayed.tid))
  /\ AddToTable(Announced(program, pc, Replayed.tid))
  /\ replayed' = replayed + 1
  /\ UNCHANGED <<program, stack, phase, errors, outcomes, reported>>

\* The prefix is replayed: every event pending in the top state must be
\* announced again.
PendingMatch ==
  \A e \in PendingIn(Top.p) : /\ HasNext(program, pc, e.tid)
                              /\ SameEvent(e, Announced(program, pc, e.tid))

ReplayEnd ==
  /\ phase = "replay"
  /\ replayed = Len(stack) - 1
  /\ PendingMatch
  /\ phase' = "backtrack"
  /\ UNCHANGED <<program, pc, threads, stack, replayed, errors, outcomes, reported>>

\* An assertion of next_state fails.
Abort ==
  /\ CanStep
  /\ ~StateAsserts(Top, Chosen)
  /\ phase' = "aborted"
  /\ UNCHANGED <<program, pc, threads, stack, replayed, errors, outcomes, reported>>

Next ==
  \/ ExploreStep \/ BacktrackStep \/ FirstRunEnd \/ ExploreEnd
  \/ Finish \/ NextRun \/ ReplayEvent \/ ReplayEnd \/ Abort

\* The scheduler is one thread that never waits for anything but the process
\* it has just given a permit.
Spec == Init /\ [][Next]_vars /\ WF_vars(Next)

----------------------------------------------------------------------------
(* Properties.                                                             *)

StateRecord(st) ==
  /\ PendingIn(st.p) \subseteq [type : EventTypes, tid : Threads, obj : Int, aux : Int]
  /\ st.mutexes  \in [Mutexes -> Threads \cup {Free, Absent}]
  /\ st.locksets \in [Threads -> (SUBSET Mutexes) \cup {NoLockset}]
  /\ IsClockVectorList(st.clocks)

TypeOK ==
  /\ DOMAIN program = Bodies
  /\ DOMAIN pc = 0 .. NewThread(pc) - 1
  /\ \A t \in DOMAIN pc : pc[t].body \in Bodies /\ pc[t].done \in 0 .. Len(program[pc[t].body])
  /\ phase    \in Phases
  /\ replayed \in 0 .. Len(stack)
  /\ errors   \in 0 .. MaxErrors
  /\ \A k \in 1 .. Len(stack) : StateRecord(stack[k])

\* A backtrack point can be explored and is worth it: it is enabled in its
\* state, nothing equivalent was explored from there (it does not sleep), and
\* whatever was explored sleeps (the assertions at scheduler.cc:735-739 and
\* 898 at the moment of insertion; here at every later moment as well).
BacktrackSetsConsistent ==
  \A k \in 1 .. Len(stack) :
    /\ stack[k].backtrack \subseteq Executable(stack[k])
    /\ stack[k].done \subseteq stack[k].sleepset

\* The replay of a prefix never meets an event other than the one executed
\* there before (the assertions at scheduler.cc:861, 878 and 887).
ReplayFaithful ==
  phase = "replay"
    => IF replayed < Len(stack) - 1 THEN ReplayMatches ELSE PendingMatch

\* The thread table, reset when a run starts and filled by next_state and by
\* the replay (next_state.cc:156, scheduler.cc:815 and 854), and the clock
\* vectors of the state reached list the threads the restarted process has.
ThreadTableAgrees ==
  /\ threads = DOMAIN pc
  /\ phase # "replay" => DOMAIN Top.clocks = threads

\* The threads created along the stack, in order: [creator, id].
Creations == [k \in {j \in 1 .. Len(stack) : Sel(j).type = "THREAD_CREATE"} |->
                [creator |-> Sel(k).tid, id |-> Sel(k).aux]]

\* Each thread but the first two is created by the creator of the thread before
\* it or by that thread itself.
ChainOfCreations(n) ==
  \A k, j \in DOMAIN Creations :
    Creations[k].id = Creations[j].id + 1 /\ Creations[k].id <= n
      => Creations[k].creator \in {Creations[j].creator, Creations[j].id}

\* Thread t has created another on the way to state k.
HasCreated(k, t) ==
  \E j \in 1 .. k - 1 : Sel(j).type = "THREAD_CREATE" /\ Sel(j).tid = t

\* A vector has an entry for its own thread, so that the events of the thread
\* are counted, exactly as long as the creations form a chain: a vector grows
\* by one entry per creation of its own thread (clock_vector.cc:233).  A thread
\* that starts without its entry can only get it by creating threads itself.
OwnEntryOfChains ==
  \A k \in 1 .. Len(stack) : \A t \in DOMAIN stack[k].clocks :
    LET own == t \in DOMAIN stack[k].clocks[t]
    IN  /\ ChainOfCreations(t) => own
        /\ own => ChainOfCreations(t) \/ HasCreated(k, t)

\* What operator[] asserts of every access (clock_vector.cc:73), for the
\* accesses that do not use it.
WithinWidth ==
  \A t \in DOMAIN Top.clocks : t \in DOMAIN Top.clocks[t]

\* No two runs explore equivalent executions: that is what the sleep sets,
\* kept over all the pops and restarts, are for.
NoRepeatedTrace ==
  [][(phase = "explore" /\ phase' = "decide" /\ Top.p.enabled = {})
        => Outcome \notin outcomes]_vars

\* The path the scheduler believes the process to have taken.
Path == [k \in 1 .. Len(stack) |->
          [pending |-> PendingIn(stack[k].p),
           sel     |-> IF k = Len(stack) THEN NoEvent ELSE Sel(k)]]

Turns == INSTANCE TurnBased WITH ops <- program, stack <- Path

\* The exploration only goes where a program whose threads take turns can go:
\* the pending events of every state, kept by increments over executions, pops
\* and restarts, are those of the program's text after as many operations of
\* each thread as were selected on the way.
TakesTurns == Turns!Spec

UsesRwlocks ==
  \E b \in Bodies : \E i \in DOMAIN program[b] : program[b][i].type \in RwlockTypes

\* The exploration of a finite program ends, and unless the program uses
\* read-write locks it does not end in a failed assertion of next_state.
Termination == <>(phase = "done" \/ (phase = "aborted" /\ UsesRwlocks))
=============================================================================
