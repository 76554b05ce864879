# Verification of Inspect / Source-DPOR

Inspect is a runtime model checker for C programs that use pthreads. The
program under test is linked against wrappers that stop it before every visible
operation; a scheduler in another process decides which thread goes on, and
explores the interleavings with source-set dynamic partial-order reduction and
sleep sets (`Scheduler::SourceDPOR`). This directory holds TLA+ models of the
scheduler, of its protocol with the program under test and of what POSIX
promises of the operations, TLC configurations that check them, and proofs
about one run of the scheduler, about the whole exploration and about the
protocol.

Paths and line numbers are those of the repository's root.

## 1. The system

The repository has no documentation and no tests; the statements the code makes
about itself are its comments and assertions.

| Component | State it keeps | Operations | Correct when |
|---|---|---|---|
| Events (`inspect_event.*`) | type, thread, object, second operand | `dependent`, `can_disable`, `can_enable`, `==` | the relations describe what the operations really do to one another |
| Program state (`program_state.cc`, `scheduler_object_table.cc`, `lockset.cc`, `transition_set.cc`) | enabled and disabled events, owners of mutexes, state of read-write locks, lock set of each thread | `update_enabled_set`, `update_disabled_set`, `add_transition`, `execute_transition`, `acquire`, `release` | an event is enabled exactly when POSIX lets it go on; lock sets agree with owners; no assertion fails |
| One step (`next_state.cc`, `state.cc`) | one `State`: the program state, sleep set, done set, backtrack set, clocks, selected event | `next_state` | one pending event per thread; sleeping events stay enabled; creation is one step |
| Exploration (`scheduler.cc`, `state_stack.cc`) | the stack of states, error count | `run`, `monitor_first_run`, `SourceDPOR`, `update_backtrack_SourceDPOR`, `backtrack_SourceDPOR_helper`, `return_min` | every behaviour is explored up to the order of independent events, none twice; deadlocks are reported; the replay finds the process where the stack says it is; it ends |
| Clock vectors (`clock_vector.cc`) | a vector per thread, of a width of its own | `must_happen_before`, `is_concurrent_with`, `add_thread` | they order what the program orders and nothing else; every access is inside a vector |
| Thread table (`thread_info.cc`) | the threads of the running process | `reset`, `add_thread` | it lists the threads of the process and of the clocks, in every run |
| Scheduler's sockets (`event_buffer.cc`) | a socket per thread, at most one event per thread | `get_event`, `collect_events`, `approve` | an event is never overwritten, a permit goes to the thread that waits for it; the program appears as threads that take turns |
| Wrappers (`inspect_pthread.cc`, `object_table.cc`) | tables of thread ids, object ids and sockets, shared by the threads of the program | one wrapper per pthread function | ids mean the same on both sides and in every run; no deadlock with the scheduler |
| Context-bounded exploration (`scheduler.cc:953-1306`) | the same stack, a bound, the preemptions before each state | `context_bound_SourceDPOR`, `update_backtrack_context_bound_SourceDPOR` and its helper | no run exceeds the bound, what lies within it is explored; it ends |
| Data-race report (`program_state.cc:227`, `transition_set.cc:124`, `scheduler.cc:892`) | — | `check_race`, `get_race_event` | what is printed is a race of the program, and a program with a race gets a report |

Sockets (`inspect_util.cc`), settings and the main program are plumbing. The
event relation graph and the first DPOR (`standard_update_backtrack_info`) are
compiled and never called; `scheduler_new.cc`, `symmetry.cc` and
`inspect_mutex.cc` are in no target of the Makefile. `.svn/` holds older copies.

How the parts interact. A thread of the program sends an event over its own
socket and blocks until the permit comes back. The scheduler's `next_state`
executes an enabled event on its picture of the program, sends the permit, and
waits for the next event of the same thread. A creation takes five messages on
two sockets inside one `next_state`. At the end of a run the scheduler pops its
stack to the deepest state with a backtrack point, kills the process, starts a
new one, and replays the prefix by sending the permits the stack remembers;
during a replay it does not wait between permits, so several threads of the
program run at once.

What is hard to test: the enabled set is maintained by increments; wake-up rules
of condition variables and read-write locks; sleep sets over pops and restarts;
races that are only visible after several runs; the order of the messages of a
creation; ids of threads and objects that depend on who comes first; threads of
the program that run concurrently during a replay; a `pthread_t` that is used
again; a main that ends before its threads; lost wake-ups; a deadlock in the
first run. `PROJECT.json` lists these at their lines.

## 2. The modules

| Module | Models | Used by |
|---|---|---|
| `InspectEvent` | the event and the three relations | all |
| `ProgramState` | the operations of the program state, as operators on values | all |
| `SchedulerRun` | one run: `next_state` on any correct pthread program | `MC_SchedulerRun`, proofs |
| `Pthreads` | the abstract specification of a run: what POSIX allows | `MC_SchedulerRun` |
| `TurnBased` | the abstract specification of the protocol: a program whose threads take turns | `Handshake`, `SourceDPOR` |
| `ProgramStateLemmas` | lemmas about the operators of `ProgramState` | all proofs |
| `SchedulerRunProofs`, `SchedulerRunSync` | theorems about `SchedulerRun`: pending and sleeping events; mutexes and lock sets, joins, read-write locks, the order of independent events | |
| `SchedulerRunRefinement` | `SchedulerRun` implements `Pthreads`, for any threads and objects | |
| `ClockVectors` | clock vectors, as operators | `SourceDPOR` |
| `SourceDPOR` | the whole exploration of given programs | `MC_SourceDPOR`, `ContextBound`, proofs |
| `SourceDPORProofs` | theorems about `SourceDPOR` | |
| `SourceDPORRefinement` | `SourceDPOR` implements `TurnBased`, for any programs | |
| `ContextBound` | the exploration with a bound on preemptions, on the state and the restarts of `SourceDPOR` | `MC_ContextBound`, proofs |
| `ContextBoundProofs` | where the bounded race search leaves the stack, for any programs and bound | |
| `Handshake` | wrappers, sockets and scheduler's end, message by message | `MC_Handshake`, proofs |
| `HandshakeProofs` | theorems about `Handshake`, for any threads, programs and runs | |
| `MC_*` | programs, the reference definition of all executions, refinements | runs |

Definitions carry the names of the code. `map` in `PROJECT.json` gives for each
of them the lines it stands for. A definition that starts with "Mutant:" is not
part of the model: it is a plausible bug, and putting it in the place of the
definition after it makes a property fail.

**SchedulerRun.** State: `enabled`, `disabled`, `mutexes`, `rwlocks`, `locksets`,
`sleepset` of the top `State`, the number of threads, and whether an assertion
failed: those of `execute_transition`, of `add_transition` (the object of an announced
event is in its table) and of `Locksets::add_thread`. Actions: `ExecuteEvent`,
`ExecuteEnd`, `ExecuteCreate`, the three ways through `next_state`, and `Abort`. The program under test is not a given program
but every program: after each event its thread announces any event a correct
program may announce (`Legal`), with the event sequences of the wrappers (a
`pthread_cond_wait` is `MUTEX_UNLOCK`, `COND_WAIT`, `MUTEX_LOCK`). The
exploration is any exploration: any enabled event that does not sleep is
executed, and any set of the others may have been explored before.

**Pthreads.** No enabled set: an operation may be performed when its objects
allow it, a wait releases its mutex and starts in one step, a signal releases
one waiter. `SchedulerRun` refines it (`RefinesPthreads`, in
`MC_SchedulerRun`) with `pending <- enabled ∪ disabled` and
`waiting <- the disabled COND_WAIT events`.

**TurnBased.** What the protocol promises to the exploration. Its state is a path:
the events pending in each state and the one executed from there. `Execute` lets
the thread of a pending event move past its operation (a join only when the
other thread has ended), `Cut` goes back to an earlier state, `Boot` starts. The
pending events of a state are computed from the program's text and from how often
each thread has moved, never carried along. No process, socket, permit, message
or restart is to be seen. `Handshake` implements it (`ImplementsTurns`, with
the states the scheduler has completed as the path), and `SourceDPOR` only takes
paths of it (`TakesTurns`): the two modules meet there, and the direct picture
of the program that `SourceDPOR` uses is what the messages of `Handshake` add up
to.

**SourceDPOR.** State: the program chosen, a straight-line body per thread, any
of which may create the threads of other bodies; which bodies the threads of the
running process have and how far they are (`pc`: a thread has its id from the
order of creation, as in the code); the thread table (`threads`); the stack with
all fields of `State` that the exploration reads; the phase of the scheduler;
history variables with the executions explored (`outcomes`) and the data races
printed (`reported`). Actions: a step of the first run or of a later one with
its race analysis (`ExploreStep`), the step at a backtrack point, which has none
but looks for data races (`BacktrackStep`), the ends of runs, `NextRun` (pops,
reset of the thread table and restart), `ReplayEvent`, `ReplayEnd`, `Finish`,
`Abort`. `MC_SourceDPOR` defines the reference: all maximal executions of a
program, by search over all interleavings with the rules of POSIX for mutexes,
read-write locks, condition variables and joins, up to the order of dependent
events (`AllTraces`), and the pairs of conflicting accesses that can meet
(`DataRaces`). `StepsOfSchedulerRun` shows that each step is one of
`SchedulerRun`, so what is proved of a run holds on every branch.

**ClockVectors.** A vector is a function on `0 .. width - 1`. `AddThread` widens
the creator's vector by one and gives the new thread a copy; an entry that does
not exist is not stored (`Store`) and reads as nothing to compare (`Entry`): the
code writes and reads past the end there.

**ContextBound.** Extends `SourceDPOR` and shares its variables, ends of runs,
pops and replays. A later run prefers the thread of the last event
(`Preferred`), wakes a sleeping event when nothing else is left (`Awake`), stops
at the bound (`WithinBound`), and has a race search of its own
(`BoundedRace`, one race per thread) whose helper adds two points: at the race
(`AddPoint`) and where the thread was switched to before it
(`AddBlockPoint`). The walk down the stack to that place can leave it
(`RunsPastTheBottom`). The first run looks for races the same way
(`FirstRunStep`), but runs on whatever the bound, lowest thread first.

**Handshake.** State of the process: the position of each thread in its program
and inside the wrapper (`pc`, `step`), its `pthread_t` (`handle`), the object
and thread tables with their counters, whether the process still runs; the
connections and the messages on them; state of the scheduler: stack (pending
events, mutex and lock tables), event buffer, whether `get_event` has had a
`LOCAL_INFO`, socket index, and which `get_event` it is in (`mode`). One action
per critical section of a wrapper and per message. Programs use every operation
the wrappers announce. A `pthread_create` may return any `pthread_t` that is
free, in particular that of a thread just joined whose id is still in the table
(`NewHandles`, `JoinThread`, `RemoveJoined`). The process exits with main or
with a thread that calls `exit` (`ExitProcess`) and its connections are shut; a
permit for one of them fails (`PermitFails`), and where the scheduler has
dropped the connection the pointer left in `tid2socket` is a dangling one, so
that the permit may be lost, reach another thread or fail (`Approve`): what the
build does there is left open. Which event is executed and where the next run
branches off is left open as well. The assertions on the kind of a creation's
messages (`THREAD_START` at `next_state.cc:133`, `THREAD_PRE_CREATE`) stop the
scheduler here; those of its mutex and lock tables are the matter of
`SchedulerRun`.

## 3. The runs

All passing runs check the complete state space of their instance. `CHECK_DEADLOCK
FALSE` stands where a run, an exploration or a program under test really ends.

| Run | Instance | Shows |
|---|---|---|
| `run_sync` | 3 threads, 1 mutex, 1 condition variable, 1 object | one event per thread, exact enabling of locks and joins, lock sets agree with owners, events that `dependent` calls independent lead to the same state in either order, sleeping events enabled, exact deadlock test, no failed assertion, refinement of `Pthreads` |
| `run_rwlock` | 3 threads, 1 read-write lock | no writer forgotten, refinement of `Pthreads`: the assertions stop exactly what POSIX forbids |
| `dpor_explore` | pairs of bodies of one or two accesses to 2 objects, children against main, critical sections mixed with accesses, 3 children with nested locks on 2 mutexes, 3 children with a read-write lock, 1 or 2 waiters and 1 or 2 wake-ups on a condition variable with the mutex held or not, creations in a tree and in a chain; max_errors 3 | backtrack and done sets consistent; the path is one of threads that take turns; thread table, clocks and process agree; replay faithful; only real executions and real data races, no execution twice; all executions for `Simple`; deadlocks counted once, and reported exactly when there is one; each step is a step of `SchedulerRun`; the exploration ends, and not in a failed assertion unless there is a read-write lock |
| `context_bound` | the families of `CompleteForSimple` and `DeadlocksReported`, 3 children of one or two accesses, children against main, also against a main that goes on, readers and a writer, creations by children; bound 1 | no execution with more than one preemption in a later run; with two children all those within the bound; deadlocks within it; the walk leaves the stack only where main ran on; the exploration ends although it wakes sleeping events |
| `handshake` | 4 threads, 3 addresses, 2 runs; programs that register their objects first, use every kind of operation, use a `pthread_t` again, create threads from two threads at once; and programs that read unknown objects in two threads, have a symmetry point, announce two `LOCAL_INFO` in a row, end main first, or exit in another thread | one outstanding event per thread, permits as expected, ids agree, quiescence whenever the scheduler chooses; for proper programs: refinement of `TurnBased`, faithful replay, no failed assertion, no mutual waiting |

Runs that find a violation, each of one property that a comment or an assertion
of the code states (details and quotes in `findings`):

| Run | What it shows |
|---|---|
| `rwlock_writer` | the first of two readers to unlock wakes a writer; its acquisition would fail `assert(status == RWLS_IDLE)` |
| `first_run_deadlock` | a program that always deadlocks is explored without a report |
| `clock_of_main` | main's race with a child it has just created is not reversed: its clock is read before it ticks |
| `backtrack_step` | the step at a backtrack point is not analysed, one of three orders is missed |
| `vector_width` | main creates two threads, the first of which creates a third: its clock vector has no entry for it, `timestamps[tid]++` writes past the end |
| `notdep` | direct dependence stands for happens-before in `notdep`, an order is missed |
| `replay_object_ids` | object ids change in a replay, `assert(event == state->sel_event)` fails |

Some properties have a precondition because the code needs it:

- `JoinEnabledExactly` holds while no new thread starts by joining its creator
  (`ChildJoinsCreator = FALSE`): the new thread's first event is added before
  its creator's next one (`next_state.cc:149,170`), and such a join finds the
  creator without an event and is enabled at once. With `TRUE` TLC finds it.
- `IndependentCommute` is not stated for three kinds of events. An unlock of a
  read-write lock wakes the acquisitions of it without a look at the lock, so the
  order of events on it matters where `dependent` says it does not (`rwlock_writer`
  shows what follows). New threads are numbered in the order of their creation.
  And a signal is independent of the event that comes before a wait for it, the
  unlock inside `pthread_cond_wait`, though it comes too early in one of the two
  orders (`Signals`): this is one reason why `DeadlocksReported` asks for
  signals given with the mutex held.
- In `Handshake` three classes of programs are told apart, by definitions on
  their text. `Orderly`: every thread is joined before main ends and none exits
  (`JoinsAll`), and no thread is created while another thread joins one
  (`JoinsApart`). Without the first, a replay meets connections of a process that is gone (`Unjoined`, in the
  run). Without the second, the id of a joined thread is still in the table when
  its `pthread_t` is given to a new one, which a replay can come to though the
  first run did not (`JoinsBeside`; not in the run because of its size): two
  threads get one id and the replay's assertion or one of a wrapper fails.
- `Proper`: orderly, main adds every object while it is alone, initialising or
  registering it only as the first thing (`RegistersFirst`), no object is used
  before it is added or after it is destroyed (`UsesAdded`), and no `LOCAL_INFO` follows another one at once
  (`RepeatsInfo`). `inspect_obj_read` checks and adds in two
  critical sections (`inspect_pthread.cc:133`), and ids are given in the order
  of arrival: with `NoProcessAbort` stated for all programs of the run, two
  reads of one unknown object in a replay fail the assertion at
  `object_table.cc:165`. A use before the addition or after the removal fails the
  assertion of `get_obj_id` (`object_table.cc:103`) by the program's own fault. `get_event` takes one `LOCAL_INFO` out of the way
  (`event_buffer.cc:246`); the second is handed out as an operation, and
  `semantic_equal` asserts on it in a replay (`inspect_event.cc:665`).
- `Visible`: proper and without symmetry points, for `Termination` and
  `ImplementsTurns`. `init_symm_point` (`inspect_event.cc:323`) sets no type, the
  event is invalid on arrival, and scheduler and thread wait for one another. A
  write to an object not yet known is an operation nobody sees
  (`inspect_pthread.cc:168`); in a proper program only main makes such writes,
  and always the same ones, so they are left out of the turns (`Unseen`).
- `OwnEntryOfChains` says when the clocks are sound: while the creations form a
  chain (each new thread is created by the creator of the one before it or by
  that thread itself), every thread's vector has an entry for the thread. Off the
  chain a thread starts without its entry and only gets it by creating threads
  itself. That it never gets it, which holds up to four threads, is false with
  five: a thread off the chain that creates one widens its own vector.
- `DeadlocksReported` is about programs ordered by mutexes: one or two critical
  sections or nested locks each, or waits that are signalled with the mutex held.
  Signals without the mutex (`Unheld`) can hide a deadlock: a signal is
  independent of the release of the mutex before the wait (`inspect_event.cc:486`),
  and the order in which it is lost is not explored.
- `RacesFound` is about children of one access. Behind a lock, in a longer body or
  after a creation by a child a race can go unreported, because races are looked
  for only in states runs backtrack to.
- `CompleteForSimple` is `Complete` on the class `Simple`. Outside it three
  independent causes lose executions: `clock_of_main`, `backtrack_step` and
  `notdep`.
- `BoundedComplete` is about programs of two children. With three it fails: the
  bounded search takes one race per thread and leaves the others
  (`tid_done`, `scheduler.cc:1084`). It also fails for children against main,
  for the reason `clock_of_main` shows.
- `BoundedDeadlocks` is about programs whose children have one access, one
  critical section or nested locks, or wait for a signal given with the mutex
  held; with longer bodies of three children a deadlock within the bound can be missed.
- `BoundedComplete` and `BoundedDeadlocks` ask for a bound of at least 1; TLC finds
  no error with 2 either. With 0 both fail: a race adds its event to
  its own state only if `context_switches` is below the bound
  (`scheduler.cc:1009`), also where the event preempts nobody, so that two
  children of one access each are run in one order only.
- `SearchStaysInStack` has an exception, `MainRanOn`, because the code fails there.
  Only main's first events are a block that reaches the bottom of the stack. If
  main creates a thread, does two things of its own, and the second of them races with
  the thread, the walk of `scheduler.cc:1017` reaches NULL and reads `temp->next`,
  already in the first run. The first thing main does after the creation is
  not concerned: its race is hidden by the clocks, as in `clock_of_main`. The
  family `MainGoesOn` has both, and `BoundedTermination` lets the scheduler die
  in programs whose main runs on like this (`MainRunsOn`) and in no other without
  read-write locks.
- `NoRepeatedTrace` is a property of the unbounded exploration only: the bounded
  one wakes sleeping events and repeats executions.

Bounds. Three threads are the fewest for a wake-up to have a choice (two waiters
and a signaller, two readers and a writer) and for a race between two threads to
have a bystander; the explorations have main and up to three children, the fewest
for two threads that create threads. One mutex
and one condition variable suffice for the rules of one object, since no rule
relates two; nested locks and the deadlocks need the second mutex. Two accesses
per thread are the fewest for a race whose reversal uncovers another. Two runs of
`Handshake` are the fewest with a replay, and every state of every first run is
the target of one. A bound of one preemption is
the smallest that lets a run be preempted and stops another one. `MaxThreads` and
`MaxRuns` are the only bounds on counters; `MaxErrors` and `Bound` are settings
of the program.

Fairness. The scheduler is one thread that always has something to do or waits
for the process it has just permitted; `SourceDPOR` and `ContextBound` assume
weak fairness of their next-state relations and nothing more. `Handshake`
assumes that the scheduler and the threads together do not stop while one of
them can go on: every behaviour of an instance is finite, so no assumption on
the order of threads is needed. No liveness is claimed of `SchedulerRun`, whose
program may run for ever.

## 4. The proofs

The theorems hold for any number of threads, mutexes, condition variables,
read-write locks and objects (`ConstantsAssumption`), those about the exploration
for any set of programs as well (`ExplorerAssumption`: `Programs` is any set
of well-formed programs, `IsProgram`), and those about the protocol for any
set of programs and any `MaxRuns` (`HandshakeAssumption`: a program is a sequence
of operations for each thread that ends with the thread's end, creates and joins a
thread once at most, and joins only what is created). No theorem needs a bound of
a run.

### A run

| Theorem | Hypothesis |
|---|---|
| `TypeCorrect`, `OnePendingHolds`, `SleepsetEnabledHolds`, `DeadlockTestExactHolds` | |
| `LockEnabledExactlyHolds`, `LocksetsAgreeHolds`, `IndependentCommuteHolds` | |
| `OnlyRwlocksAbortHolds`, an action property: the only assertions of `execute_transition`, `add_transition` and the lock sets that fail are those of read-write locks | |
| `NoAbortHolds` | `Rwlocks = {}` |
| `WriterNotForgottenHolds` | |
| `JoinEnabledExactlyHolds` | `~ChildJoinsCreator` |
| `RefinesPthreadsHolds` | `~ChildJoinsCreator` |

Both hypotheses are those of the runs: with a child that joins its creator TLC
finds `JoinEnabledExactly` false, and with read-write locks the run
`rwlock_writer` shows the assertion that fails.

- `Inv == TypeOK /\ OnePending /\ ThreadsKnown /\ SleepsetEnabled` is the basis.
  `OnePending` alone is not inductive: a creation adds an event of the new
  thread, and only because no pending event has an id of a thread not yet created
  (`ThreadsKnown`) has that thread none. `SleepsetEnabled` rests on a fact about
  the relations, not on the sets: an event that e blocks (`can_disable`) is
  dependent with it (`DisablingRaces`), so it is awake by the time it leaves
  the enabled set.
- `MutexInv` adds that the program's pending events use mutexes correctly
  (`MutexUse`: an owner unlocks, an initialisation or destruction is alone), that
  acquisitions are enabled exactly while the mutex is free (`LockExact`), that
  owners exist (`OwnersKnown`), that lock sets and owners agree, that a thread
  has no lock set before its start (`StartsUnlocked`), and that a thread not yet
  created has none (`ComingUnlocked`, the assertion of `Locksets::add_thread`). None of them is inductive
  without the others: an unlock wakes the right events only because it is the
  owner's, it is the owner's when it is executed because nothing in between
  could release the mutex, and lock sets survive a creation because the new
  thread's id owns nothing.
- `IndependentCommuteHolds` follows from `MutexInv`. Two enabled events on one
  mutex that change its owner can only be two acquisitions, which are dependent;
  so independent events change owners of different mutexes, and each changes the
  lock set of its own thread only. The enabled
  events are compared event by event: an acquisition is enabled exactly while its
  mutex is free in the end (`LockExact`, kept by executing and by announcing); a
  join is woken by the end it waits for, whichever end comes first; a wait is
  woken if one of the two signals it, and two signals wake the same waiters in
  either order. What is announced after one event may not depend on the other,
  which is why creations and `Signals` are left out.
- `JoinInv` adds that joined threads exist (`JoinsKnown`) and that joins are enabled
  exactly when the thread has no pending event (`JoinExact`).
- `RwlockInv` adds that only initialised locks are acquired (`RwlockUse`) and that
  a writer waiting for an idle lock is not alone (`NotForgotten`). A destruction
  must not meet a waiter, which is why the use of the locks is part of it.

`RefinesPthreadsHolds` maps each action to an action of `Pthreads` or a stutter.
Besides the invariants it needs that executing an event ends only the waits that
a signal or broadcast ends (`ExecutingWaits`) and that an event that is enabled
may be performed (`JoinInv` for joins, `MutexInv` for locks; for read-write locks
the assertions of the code are exactly what POSIX asks).

### The exploration

`TypeCorrect`, `BacktrackSetsConsistentHolds`, `ReplayFaithfulHolds`,
`ThreadTableAgreesHolds`, `CreationsAcceptedHolds` (the assertions of
both `add_thread`, of the thread table and of the lock sets, hold of every
creation), `OwnEntryOfChainsHolds` and the refinement
`TakesTurnsHolds`, none with a hypothesis.

The difficulty is that the stack holds states of processes that no longer exist,
and that pops, restarts and replays move between them. The inductive invariant
`Inv` of `SourceDPORProofs` says that there is a history (`History`): a sequence
of processes, one for each state of the stack, the first one just started, each
next one what the previous one becomes by the permit for the event selected
in its state (`Linked`), and each a process the state tells the truth about
(`GoodState`); and the process that runs is the one at the place of the stack
where the scheduler is (`Where`). A pop cuts the history, a restart goes to its
first process, a replay walks along it, and an exploration step appends to it.
Three further parts are needed: a state gone back to has a backtrack point and one
that is new has none, or `Chosen` would not be an enabled event; nothing
sleeps in the first run; and `errors` is below its limit while the
exploration goes on, or the counter would leave its type.

`GoodState` says of a state that what is pending is what the process announces
and that its joins are enabled exactly when the thread has ended (`PendingRight`),
that it has one clock vector per thread, that a thread not yet created has no lock
set, and that its backtrack points are
enabled and do not sleep. That a thread's creation comes before its join, and that
no two threads run one body, comes from the program (`ProgramFacts`); it is
carried to the process by `IsProcess`.

`TakesTurnsHolds` rests on the same history. `TurnBased` computes the process of
a state from the path, by a recursive function over the events executed; the
lemma `ProcReached` shows by induction over the stack, with the least place at
which the two differ, that it is the process of the history. An exploration step
is then `Execute` (`ExtendsExecute`), a restart after a pop is `Cut`
(`NextRunCuts`), and the rest stutters.

`OwnEntryOfChainsHolds` needs a second invariant, `ClocksRight`: the clock vectors of
each state are those of the state below after the event remembered there, and a
creation remembered is of the thread after the last one. The rest is about
one stack: the widths of the vectors tell where the chain is (`WidthsTell`), by
induction over the stack. No vector has entries for threads that do not exist;
one has entries for all of them exactly if its thread carries the chain on, and
the new thread's own entry is there exactly if its creator's vector was such a
full one.

### The bounded exploration

`SearchStaysInStackHolds`, without a hypothesis: where the walk leaves the stack,
main has run on (`MainRanOn`).

The invariant of `SourceDPOR` is of no use here, since the bounded exploration
wakes events it has explored. `WalkInv` is about the clocks instead. It says of every
stack, whatever was popped or restarted, that the event remembered in a state was
pending there, in the first state main's; that as long as main has run alone its
clock counts its events and knows of nothing else (`MainClock`); and that a thread
main has created alone keeps for ever the count main had (`ChildClock`), because
vectors are never joined and only grow by entries of others (`CountsRemain`).
A walk that leaves the stack means that one thread has run everything
(`OneThreadRan`), so it is main. If the event before the race had created the other thread, that
thread's count would equal main's at the race, and the code would take the two as
ordered.

### The protocol

| Theorem | Hypothesis |
|---|---|
| `OrderlyInvariant`: the inductive invariant itself | `Orderly` |
| `IdsAgree`, `PermitsAreExpected`: `ThreadIdsAgree` and `PermitsExpected` | `Orderly`, in the properties |
| `EventsOutstanding`: `OneOutstanding`, the assertion `!has_event` of `collect_events` | `Orderly` |
| `ThreadAssertsNeverFail`: a thread in use, created or joined is in the table | `Orderly` |
| `PermitsReachThreads`: a permit the scheduler may send has an open connection while the process runs | `Orderly` |
| `NoAbort`: `NoProcessAbort`, no assertion of a wrapper fails | `Proper`, in the property |

The hypotheses are on the text of the program and are those of the run; section
3 says for each of their parts what happens to a program without it, and what
shows it. `ThreadAssertsHold` and `PermitsReach`, stated in `HandshakeProofs`, are
the parts of `NoProcessAbort` and of `PermitEvent`'s failure that need no more than
`Orderly`.

The difficulty is that during a replay the threads of the process run
concurrently with one another and with the scheduler, so that almost nothing
can be said of two threads at once, and that a table lookup is right only if
several threads have done their parts. The invariant has two halves.

- `ProcessInv` is about the process alone, whatever the scheduler does. It says
  by the program's text and the positions of the threads which threads exist,
  which have been joined and who has an id: a thread has one from when it or
  its creator, whichever comes first, has inserted it (`Numbered`) until its
  joiner has removed it. The pthread_t of threads not joined differ. What makes
  the tables right although a pthread_t is used again is that the step at which
  one can be given away (the join has returned, the id is still in the table)
  and a creation exclude one another: `JoinsApart` speaks of the program's
  order, and by the invariant that order is that of the steps.
- `ChannelInv` follows the one token of a blocked thread: its event on the
  socket, in the buffer, or in the hands of the scheduler (pending in the top
  state of the stack, being matched in a replay, or kept between two messages of
  a creation), or its permit on the way back. It says that there is one at most
  (none for a symmetry point, which is lost), that it carries the thread's id,
  that `tid2socket`, once it is set, leads back to the thread, and that while the
  process runs only threads at their end have their connections shut. The
  states of the stack below the top have one event per thread as well (`StackRight`),
  since a restart makes one of them the top; what restarts with an empty table of
  sockets is `Starting`.

The steps of the process disturb the first half by one thread at a time
(`RunStays`, `AloneStays`, `RemovalStays`), and the token only by putting it down or taking it up
(`AnnouncingKeeps`, `PermittedKeeps`); the steps of the scheduler leave the
process alone and move one token (`TokenMoves`, `TakenKeeps`).

`NoAbort` adds `ObjectInv`: an address is in the table of objects exactly if main
has added it and not destroyed it (`ObjectsRight`), while main has created nobody
it is alone (`MainFirst`), and only it can find an address unknown
(`AddsAlone`). That the uses of an object are over when it is destroyed comes
from the joins, and so needs the first half of the invariant (`ThreadsRemain`,
`UsesAlive`).

### Beside the proofs

The inductive invariants were checked with TLC as well: those of `SchedulerRun` on
the complete instances of `run_sync` and `run_rwlock`, that of `SourceDPOR`
on programs with nested creations and with two writes per thread, that of
`ContextBound` on the programs of `context_bound`, that of
`Handshake` on the programs of `handshake`.

Only model-checked:

- Liveness (`Termination`, `BoundedTermination`), which is out of the prover's reach.
- The properties of `MC_SourceDPOR` and `MC_ContextBound` that compare with the
  reference executions: the reference is recursive, and what it computes
  needs induction over data. Completeness and `NoRepeatedTrace` are statements
  about the whole search, not about its states.
- `StepsOfSchedulerRun`: that a step of the exploration is one of `SchedulerRun`
  is true of programs that use their locks correctly, which the programs of the
  run do and `IsProgram` does not ask for.
- `BoundRespected`: a backtrack event is executed without looking at the bound. The
  bound is kept because no such event ends an execution beyond it, which is
  checked for the programs of the run (with bounds 0 and 2 as well), not proved.
- Of `Handshake`, `TypeOK`, whose range of object ids (`ObjectIds`) is right for programs
  of a few operations only; `PendingAnnounced`, `ReplayFaithful` and
  `ImplementsTurns`, which compare the states of the stack with a process that is gone or
  not yet there: they need a history of the stack, as `SourceDPORProofs` has, whose processes are
  determined only up to the order in which concurrent threads took their steps.

## 5. Not modelled

- Semaphore and CAS events (no wrapper announces them), try and timed operations
  (their wrappers are `assert(false)`), cancellation (the wrapper announces the
  end of the calling thread, which goes on).
- Local states: `LOCAL_BINARY`, snapshots and the state-capturing socket. They
  are labels no decision of the scheduler depends on.
- The accept timeout of the first connection (`event_buffer.cc:211`): nothing is
  retried, and real time has no place in these models. Sockets are reliable
  queues until they are shut; framing and byte order are left out.
- The process that a run cut at its bound leaves behind (`scheduler.cc:1273`):
  its sockets are closed by the reset before the next run.
- Recursive acquisition of a read lock (`scheduler_object_table.cc:323`), which
  the programs of `SchedulerRun` do not do.
- Predicates of condition variables, and values of shared objects: a thread's
  operations do not depend on what it reads.
- Symmetry (`symmetry.cc` is not built, symmetry points never reach the
  scheduler), the event relation graph and the earlier DPOR (never called).
- What is printed, other than the data races.

## 6. Plan

1. `ReplayFaithful` and `ImplementsTurns` of `Handshake` as theorems: a history of
   the stack whose processes agree with the running one in everything but the
   steps of threads between a permit and the next announcement.
2. `ContextBound` with the process that outlives a run
   cut at its bound.
