------------------------------ MODULE Handshake ------------------------------
(***************************************************************************)
(* The protocol between the scheduler and the threads of the program under *)
(* test: the wrappers (inspect_pthread.cc) with the tables they share      *)
(* (object_table.cc), one socket per thread, and the scheduler's end of    *)
(* the sockets (event_buffer.cc) as next_state and the replay of           *)
(* SourceDPOR use it.                                                      *)
(*                                                                         *)
(* A thread announces each visible operation and waits for a permit; the   *)
(* scheduler permits an operation and waits for what its thread announces  *)
(* next.  While it replays a prefix it does not wait: several threads run  *)
(* between two permits then.  The process exits with its main thread,      *)
(* whatever the others do.                                                 *)
(*                                                                         *)
(* Which event the scheduler executes, when a run is over and where the    *)
(* next one branches off is the exploration's business (SourceDPOR); here  *)
(* any enabled event, any moment and any earlier state will do.            *)
(***************************************************************************)
EXTENDS ProgramState, Sequences, FiniteSets

CONSTANTS
  MaxThreads,   \* threads of a program, main included
  Addresses,    \* addresses of shared objects, mutexes, condition variables, locks
  Programs,     \* programs under test: thread -> sequence of operations
  MaxRuns       \* bound on the runs of an exploration

Threads == 0 .. MaxThreads - 1

\* "at" is the address the operation works on or NoId; "aux" the address of
\* the condition variable, or the thread it creates or joins, or NoId.
\* OBJ_REG is no visible operation; LOCAL_INFO and SYMM_POINT are announced, but
\* the scheduler keeps them to itself.  inspect_cond_wait announces three events
\* one after the other: programs spell it MUTEX_UNLOCK, COND_WAIT, MUTEX_LOCK.
Op(type, at, aux) == [type |-> type, at |-> at, aux |-> aux]

OpTypes == MutexTypes \cup CondTypes \cup RwlockTypes \cup ObjectTypes
             \cup {"THREAD_START", "THREAD_PRE_CREATE", "THREAD_JOIN", "THREAD_END"}
             \cup {"OBJ_REG", "LOCAL_INFO", "SYMM_POINT", "EXIT"}

\* What a body ends with: its thread returns, or ends the process.
EndTypes == {"THREAD_END", "EXIT"}

Operation == [type : OpTypes, at : Addresses \cup {NoId}, aux : Addresses \cup Threads \cup {NoId}]

\* The operations on the object at an address, and those that name a thread.
AddressTypes == MutexTypes \cup RwlockTypes \cup ObjectTypes \cup {"OBJ_REG"}
NamingTypes  == {"THREAD_PRE_CREATE", "THREAD_JOIN"}

\* A thread begins and ends once.  It is created and joined once at most, if it
\* is joined it is created, and main is neither.
ASSUME HandshakeAssumption ==
  /\ MaxThreads \in Nat \ {0}
  /\ MaxRuns \in Nat \ {0}
  /\ Addresses \subseteq Nat \ {0}
  /\ \A prog \in Programs :
       /\ prog \in [Threads -> Seq(Operation)]
       /\ \A t \in Threads : Len(prog[t]) > 0 /\ \A i \in 1 .. Len(prog[t]) :
            /\ prog[t][i].type = "THREAD_START" <=> i = 1
            /\ prog[t][i].type \in EndTypes     <=> i = Len(prog[t])
            /\ prog[t][i].type \in CondTypes    => prog[t][i].aux \in Addresses
            /\ prog[t][i].type \in AddressTypes => prog[t][i].at \in Addresses
            /\ prog[t][i].type \in NamingTypes  => prog[t][i].aux \in Threads \ {0}
       /\ \A t, u \in Threads : \A i \in 1 .. Len(prog[t]), j \in 1 .. Len(prog[u]) :
            /\ prog[t][i].type \in NamingTypes
            /\ prog[t][i].type = prog[u][j].type /\ prog[t][i].aux = prog[u][j].aux
            => t = u /\ i = j
       /\ \A t \in Threads : \A i \in 1 .. Len(prog[t]) :
            prog[t][i].type = "THREAD_JOIN" =>
              \E u \in Threads : \E j \in 1 .. Len(prog[u]) :
                prog[u][j].type = "THREAD_PRE_CREATE" /\ prog[u][j].aux = prog[t][i].aux

VARIABLES
  \* The process under test.
  program,    \* the program it runs
  pc,         \* the operation each thread is at
  step,       \* where in the wrapper of that operation the thread is
  handle,     \* the pthread_t of each thread, NoId before it is created
  objects,    \* g_object_index: address -> object id, NoId if there is none
  nextObj,    \* ObjectIndex::next_obj_id
  tids,       \* g_thread_index: pthread_t -> thread id, NoId if there is none
  nextTid,    \* ThreadIndex::next_tid
  status,     \* the process runs, has exited, or an assertion of it failed
  \* The sockets.
  link,       \* state of the connection of each thread
  toSched,    \* events on their way to the scheduler
  toThread,   \* permits on their way to each thread
  \* The scheduler.
  stack,      \* state_stack: [p, mutexes, rwlocks, sel]
  buffer,     \* EventBuffer::buffer, the valid events
  informed,   \* the current call of get_event has had a LOCAL_INFO
  socketOf,   \* SchedulerSocketIndex::tid2socket, NoId where there is none
  mode,       \* which call of get_event the scheduler is in
  kept,       \* after_post of next_state
  done,       \* states of the stack replayed
  unmatched,  \* pending events of the top state not yet compared
  runs        \* run_counter

objectTable == <<objects, nextObj>>
threadTable == <<tids, nextTid>>
process   == <<program, pc, step, handle, objectTable, threadTable, status>>
channels  == <<link, toSched, toThread>>
events    == <<buffer, informed>>
scheduler == <<stack, events, socketOf, mode, kept, done, unmatched, runs>>
vars      == <<process, channels, scheduler>>

Steps == {"none", "call", "add", "read", "permit", "create", "insert", "post",
          "created", "join", "remove", "ended", "joined"}
Links == {"none", "backlog", "open", "shut", "removed"}
Modes == {"boot", "idle", "next", "after_post", "start", "first", "replay",
          "replay_post", "replay_start", "match", "end", "aborted"}

\* Bound: no program adds more objects than twice its addresses.
ObjectIds == 1 .. 2 * Cardinality(Addresses)

----------------------------------------------------------------------------
(* The wrappers.                                                           *)

Here(t) == program[t][pc[t]]

\* Thread t can take the step s of a wrapper.
Runs(t, s) == status = "running" /\ step[t] = s

\* Thread t is about to perform an operation of one of these types.
Calls(t, types) == Runs(t, "call") /\ Here(t).type \in types

\* The addresses an operation works on, and the one it adds or must know.
InitTypes      == {"MUTEX_INIT", "COND_INIT", "RWLOCK_INIT"}
AddressesOf(o) == ({o.at} \cup IF o.type \in CondTypes THEN {o.aux} ELSE {}) \ {NoId}
AddressOf(o)   == IF o.type \in CondTypes THEN o.aux ELSE o.at

Known(a) == objects[a] # NoId

\* ObjectIndex::add: ids are not given twice.
AddObject(a) ==
  /\ objects' = [objects EXCEPT ![a] = nextObj]
  /\ nextObj' = nextObj + 1

\* The id g_thread_index has for a thread, and whether it has one.
IdOf(t)       == IF handle[t] = NoId THEN NoId ELSE tids[handle[t]]
Registered(t) == IdOf(t) # NoId

\* Mutant: the lookup of ThreadIndex::insert is left out.
InsertThreadAgain(h) ==
  /\ tids'    = [tids EXCEPT ![h] = nextTid]
  /\ nextTid' = nextTid + 1

\* ThreadIndex::insert: the parent and the new thread both call it; the second
\* call finds the id the first one gave.
InsertThread(h) ==
  IF tids[h] # NoId THEN UNCHANGED threadTable
  ELSE /\ tids'    = [tids EXCEPT ![h] = nextTid]
       /\ nextTid' = nextTid + 1

\* ThreadIndex::remove_by_thread_id.
RemoveThread(h) == tids' = [tids EXCEPT ![h] = NoId] /\ UNCHANGED nextTid

\* SocketIndex::self_register: thread t connects to the scheduler, which has
\* the connection in its backlog until it accepts it.
Register(t) == link' = [link EXCEPT ![t] = "backlog"]

\* The event of the operation thread t is at.
EventOf(t) ==
  LET o == Here(t)
  IN  Ev(CASE o.type = "SYMM_POINT" -> "UNKNOWN"
           [] o.type = "EXIT"       -> "THREAD_END"
           [] OTHER                 -> o.type,
         IdOf(t),
         IF o.at = NoId THEN NoId ELSE objects[o.at],
         CASE o.type = "THREAD_JOIN" -> IdOf(o.aux)
           [] o.type \in CondTypes   -> objects[o.aux]
           [] OTHER                  -> NoId)

Announce(t, e) == toSched' = [toSched EXCEPT ![t] = Append(@, e)]
GoTo(t, s)     == step'    = [step EXCEPT ![t] = s]

Return(t) ==
  /\ pc'   = [pc EXCEPT ![t] = @ + 1]
  /\ step' = [step EXCEPT ![t] = "call"]

\* inspect_main_start and inspect_thread_start.
StartThread(t) ==
  /\ Calls(t, {"THREAD_START"})
  /\ InsertThread(handle[t])
  /\ Register(t)
  /\ Announce(t, Ev("THREAD_START", tids'[handle[t]], NoId, NoId))
  /\ GoTo(t, "permit")
  /\ UNCHANGED <<program, pc, handle, objectTable, status, toThread, scheduler>>

\* inspect_obj_reg.
RegisterObject(t) ==
  /\ Calls(t, {"OBJ_REG"})
  /\ ~Known(Here(t).at)
  /\ AddObject(Here(t).at)
  /\ Return(t)
  /\ UNCHANGED <<program, handle, threadTable, status, channels, scheduler>>

\* Mutant: inspect_obj_read does not look whether it knows the object.
CheckObjectAdds(t) ==
  /\ Calls(t, {"OBJ_READ"})
  /\ GoTo(t, "add")
  /\ UNCHANGED <<program, pc, handle, objectTable, threadTable, status, channels, scheduler>>

\* inspect_obj_read: is_member, then perhaps add, then get_obj_id, each a
\* critical section of its own.
CheckObject(t) ==
  /\ Calls(t, {"OBJ_READ"})
  /\ GoTo(t, IF Known(Here(t).at) THEN "read" ELSE "add")
  /\ UNCHANGED <<program, pc, handle, objectTable, threadTable, status, channels, scheduler>>

AddUnknown(t) ==
  /\ Runs(t, "add")
  /\ ~Known(Here(t).at)
  /\ AddObject(Here(t).at)
  /\ GoTo(t, "read")
  /\ UNCHANGED <<program, pc, handle, threadTable, status, channels, scheduler>>

ReadObject(t) ==
  /\ Runs(t, "read")
  /\ Registered(t)
  /\ Announce(t, EventOf(t))
  /\ GoTo(t, "permit")
  /\ UNCHANGED <<program, pc, handle, objectTable, threadTable, status, link, toThread, scheduler>>

\* inspect_obj_write of an unknown object: not a visible operation.
WriteUnseen(t) ==
  /\ Calls(t, {"OBJ_WRITE"})
  /\ ~Known(Here(t).at)
  /\ Return(t)
  /\ UNCHANGED <<program, handle, objectTable, threadTable, status, channels, scheduler>>

\* The operations whose wrapper asserts that it knows the object.
UseTypes == {"MUTEX_LOCK", "MUTEX_UNLOCK", "COND_WAIT", "COND_SIGNAL", "RWLOCK_DESTROY",
             "RWLOCK_RDLOCK", "RWLOCK_WRLOCK", "RWLOCK_UNLOCK", "COND_DESTROY"}

KnowsObject(t) == Known(AddressOf(Here(t)))

\* inspect_obj_write, inspect_mutex_lock and _unlock, the three parts of
\* inspect_cond_wait, inspect_cond_signal and the wrappers of read-write locks.
UseObject(t) ==
  /\ Calls(t, UseTypes \cup {"OBJ_WRITE"})
  /\ KnowsObject(t)
  /\ Registered(t)
  /\ Announce(t, EventOf(t))
  /\ GoTo(t, "permit")
  /\ UNCHANGED <<program, pc, handle, objectTable, threadTable, status, link, toThread, scheduler>>

\* inspect_mutex_init, inspect_cond_init and inspect_rwlock_init.
InitObject(t) ==
  /\ Calls(t, InitTypes)
  /\ ~Known(AddressOf(Here(t)))
  /\ Registered(t)
  /\ AddObject(AddressOf(Here(t)))
  /\ Announce(t, IF Here(t).type = "COND_INIT" THEN Ev("COND_INIT", IdOf(t), NoId, nextObj)
                 ELSE Ev(Here(t).type, IdOf(t), nextObj, NoId))
  /\ GoTo(t, "permit")
  /\ UNCHANGED <<program, pc, handle, threadTable, status, link, toThread, scheduler>>

\* inspect_mutex_destroy: the mutex leaves the table before the scheduler knows.
DestroyMutex(t) ==
  /\ Calls(t, {"MUTEX_DESTROY"})
  /\ Known(Here(t).at)
  /\ Registered(t)
  /\ objects' = [objects EXCEPT ![Here(t).at] = NoId]
  /\ Announce(t, EventOf(t))
  /\ GoTo(t, "permit")
  /\ UNCHANGED <<program, pc, handle, nextObj, threadTable, status, link, toThread, scheduler>>

\* inspect_thread_end, inspect_exit, inspect_symmetry_point, inspect_local_info,
\* inspect_cond_broadcast, inspect_thread_join and inspect_thread_create up to
\* the first permit.
CallTypes == {"THREAD_END", "EXIT", "SYMM_POINT", "LOCAL_INFO", "COND_BROADCAST", "THREAD_JOIN",
              "THREAD_PRE_CREATE"}

AnnounceCall(t) ==
  /\ Calls(t, CallTypes)
  /\ Registered(t)
  /\ Here(t).type = "THREAD_JOIN" => Registered(Here(t).aux)
  /\ Announce(t, EventOf(t))
  /\ GoTo(t, "permit")
  /\ UNCHANGED <<program, pc, handle, objectTable, threadTable, status, link, toThread, scheduler>>

\* The permit a blocked thread waits for.
Expected(t) ==
  CASE step[t] = "created"     -> "THREAD_POST_CREATE"
    [] Here(t).type = "EXIT"   -> "THREAD_END"
    [] OTHER                   -> Here(t).type

HasPermit(t) == step[t] \in {"permit", "created"} /\ toThread[t] # <<>>

\* The permit arrives and the wrapper goes on or returns.  A thread that ends
\* closes its socket; only inspect_main_end removes its id as well.
ReceivePermit(t) ==
  /\ status = "running"
  /\ HasPermit(t)
  /\ Head(toThread[t]) = Expected(t)
  /\ toThread' = [toThread EXCEPT ![t] = Tail(@)]
  /\ CASE Expected(t) = "THREAD_PRE_CREATE" ->
            GoTo(t, "create") /\ UNCHANGED <<pc, link, threadTable>>
       [] Expected(t) = "THREAD_JOIN"       ->
            GoTo(t, "join") /\ UNCHANGED <<pc, link, threadTable>>
       [] Expected(t) = "THREAD_END"        ->
            /\ GoTo(t, "ended")
            /\ link' = [link EXCEPT ![t] = "shut"]
            /\ IF t = 0 /\ Here(t).type = "THREAD_END" THEN RemoveThread(handle[t]) ELSE UNCHANGED threadTable
            /\ UNCHANGED pc
       [] OTHER -> Return(t) /\ UNCHANGED <<link, threadTable>>
  /\ UNCHANGED <<program, handle, objectTable, status, toSched, scheduler>>

\* The process is gone: its sockets are shut.
ShutSockets == [u \in Threads |-> IF link[u] \in {"backlog", "open"} THEN "shut" ELSE link[u]]

\* main returns, or a thread calls exit: the process exits with all its threads.
ExitProcess(t) ==
  /\ Runs(t, "ended")
  /\ t = 0 \/ Here(t).type = "EXIT"
  /\ status' = "exited"
  /\ link'   = ShutSockets
  /\ UNCHANGED <<program, pc, step, handle, objectTable, threadTable, toSched, toThread, scheduler>>

\* The pthread_t values pthread_create may give: one of a thread that has been
\* joined, or one not used before (one stands for all of these).
NewHandles ==
  LET used   == {handle[u] : u \in Threads}
      inUse  == {handle[u] : u \in {v \in Threads : step[v] \notin {"none", "joined"}}}
      unused == Threads \ used
  IN  (used \ (inUse \cup {NoId}))
        \cup {h \in unused : \A g \in unused : h <= g}

\* inspect_thread_create: pthread_create, and from here on the new thread runs.
CreateThread(t) ==
  /\ Runs(t, "create")
  /\ \E h \in NewHandles : handle' = [handle EXCEPT ![Here(t).aux] = h]
  /\ pc'   = [pc EXCEPT ![Here(t).aux] = 1]
  /\ step' = [step EXCEPT ![Here(t).aux] = "call", ![t] = "insert"]
  /\ UNCHANGED <<program, objectTable, threadTable, status, channels, scheduler>>

\* Its two accesses to the table of threads: insert and get_thread_id.
InsertCreated(t) ==
  /\ Runs(t, "insert")
  /\ InsertThread(handle[Here(t).aux])
  /\ GoTo(t, "post")
  /\ UNCHANGED <<program, pc, handle, objectTable, status, channels, scheduler>>

AnnounceCreated(t) ==
  /\ Runs(t, "post")
  /\ Registered(Here(t).aux)
  /\ Announce(t, Ev("THREAD_POST_CREATE", IdOf(t), NoId, IdOf(Here(t).aux)))
  /\ GoTo(t, "created")
  /\ UNCHANGED <<program, pc, handle, objectTable, threadTable, status, link, toThread, scheduler>>

\* inspect_thread_join: pthread_join, and from here on the pthread_t may be
\* given to another thread.
JoinThread(t) ==
  /\ Runs(t, "join")
  /\ step[Here(t).aux] = "ended" /\ Here(Here(t).aux).type = "THREAD_END"
  /\ step' = [step EXCEPT ![Here(t).aux] = "joined", ![t] = "remove"]
  /\ UNCHANGED <<program, pc, handle, objectTable, threadTable, status, channels, scheduler>>

\* Mutant: the id of the joined thread is left in the table.
RemoveJoinedNot(t) ==
  /\ Runs(t, "remove")
  /\ Return(t)
  /\ UNCHANGED <<program, handle, objectTable, threadTable, status, channels, scheduler>>

\* Only then is the thread removed from the table.
RemoveJoined(t) ==
  /\ Runs(t, "remove")
  /\ RemoveThread(handle[Here(t).aux])
  /\ Return(t)
  /\ UNCHANGED <<program, handle, objectTable, status, channels, scheduler>>

\* The assertions of the wrappers about threads: a thread in use is in the table
\* (object_table.cc:298,371), the permit is the expected one.
ThreadAsserts(t) ==
  /\ Calls(t, OpTypes \ {"THREAD_START", "OBJ_REG", "OBJ_READ", "OBJ_WRITE"}) \/ step[t] = "read"
       => Registered(t)
  /\ Calls(t, {"OBJ_WRITE"}) /\ Known(Here(t).at) => Registered(t)
  /\ Calls(t, {"THREAD_JOIN"}) \/ step[t] = "post" => Registered(Here(t).aux)
  /\ HasPermit(t) => Head(toThread[t]) = Expected(t)

\* Those about objects: one is added once (object_table.cc:165), one in use is
\* known (inspect_pthread.cc:494 and its like).
ObjectAsserts(t) ==
  /\ Calls(t, InitTypes \cup {"OBJ_REG"}) => ~Known(AddressOf(Here(t)))
  /\ step[t] = "add" => ~Known(Here(t).at)
  /\ Calls(t, UseTypes) => KnowsObject(t)
  /\ Calls(t, {"MUTEX_DESTROY"}) => Known(Here(t).at)

WrapperAsserts(t) == ThreadAsserts(t) /\ ObjectAsserts(t)

ProcessAborts(t) ==
  /\ status = "running"
  /\ ~WrapperAsserts(t)
  /\ status' = "aborted"
  /\ link' = ShutSockets
  /\ UNCHANGED <<program, pc, step, handle, objectTable, threadTable, toSched, toThread, scheduler>>

RunThread(t) ==
  \/ StartThread(t) \/ RegisterObject(t) \/ CheckObject(t) \/ AddUnknown(t)
  \/ ReadObject(t) \/ WriteUnseen(t) \/ UseObject(t) \/ InitObject(t)
  \/ DestroyMutex(t) \/ AnnounceCall(t) \/ ReceivePermit(t) \/ CreateThread(t)
  \/ InsertCreated(t) \/ AnnounceCreated(t) \/ JoinThread(t) \/ RemoveJoined(t)
  \/ ExitProcess(t) \/ ProcessAborts(t)

----------------------------------------------------------------------------
(* The scheduler's end of the sockets (event_buffer.cc).                   *)

Top == stack[Len(stack)]

\* The scheduler executes the event it has just permitted, or replays one.
Fresh  == {"next", "after_post", "start", "first"}
Replay == {"replay", "replay_post", "replay_start"}

Selected == IF mode \in Fresh THEN stack[Len(stack) - 1].sel ELSE stack[done + 1].sel

\* The pending events are compared in the order of the hash maps, the enabled
\* ones first.
NextToMatch ==
  IF unmatched \cap Top.p.enabled # {} THEN First(unmatched \cap Top.p.enabled)
                                       ELSE First(unmatched)

\* The thread whose event the current call of get_event waits for.
Wanted ==
  CASE mode \in {"next", "after_post", "replay", "replay_post"} -> Selected.tid
    [] mode \in {"start", "first", "replay_start"}             -> Selected.aux
    [] mode = "match"                                          -> NextToMatch.tid

\* The scheduler is in a call of get_event.  A call of collect_events goes
\* through all connections that are readable, so that it may take more than the
\* event waited for.
Waits == mode \in Fresh \cup Replay \cup {"match"}

\* SchedulerSocketIndex::update: the first event that names a thread ties the
\* id of that thread to the connection it came from.
UpdateSocket(e, t) == [socketOf EXCEPT ![e.tid] = IF @ = NoId THEN t ELSE @]

\* collect_events: a connection is accepted, an event is received, or a
\* connection that was shut is dropped, while tid2socket keeps it.  An UNKNOWN
\* event is not valid, so the buffer has no event of its thread.
Accept(t) ==
  /\ Waits
  /\ link[t] = "backlog"
  /\ link' = [link EXCEPT ![t] = "open"]
  /\ UNCHANGED <<process, toSched, toThread, scheduler>>

Receive(t) ==
  /\ Waits
  /\ link[t] \in {"open", "shut"}
  /\ toSched[t] # <<>>
  /\ LET e == Head(toSched[t])
     IN  /\ buffer'   = IF e.type = "UNKNOWN" THEN buffer ELSE Insert(buffer, e)
         /\ socketOf' = UpdateSocket(e, t)
  /\ toSched' = [toSched EXCEPT ![t] = Tail(@)]
  /\ UNCHANGED <<process, link, toThread, stack, informed, mode, kept, done, unmatched, runs>>

HangUp(t) ==
  /\ Waits
  /\ link[t] = "shut"
  /\ toSched[t] = <<>>
  /\ link' = [link EXCEPT ![t] = "removed"]
  /\ UNCHANGED <<process, toSched, toThread, scheduler>>

\* Mutant: get_event leaves the event in the buffer.
TakeKeeps(e) ==
  /\ e \in buffer /\ e.tid = Wanted
  /\ e.type = "LOCAL_INFO" => informed
  /\ informed' = FALSE
  /\ UNCHANGED buffer

\* EventBuffer::get_event returns: with any event but a first LOCAL_INFO.
Take(e) ==
  /\ e \in buffer /\ e.tid = Wanted
  /\ e.type = "LOCAL_INFO" => informed
  /\ buffer' = buffer \ {e}
  /\ informed' = FALSE

\* Mutant: the permit is one of the event the state remembers.
ApproveSelected(e) ==
  LET Permit(t) == toThread' = [toThread EXCEPT ![t] =
                                  Append(@, IF mode = "replay" THEN Selected.type ELSE e.type)]
  IN  CASE link[socketOf[e.tid]] = "open"    -> Permit(socketOf[e.tid])
        [] link[socketOf[e.tid]] = "removed" -> UNCHANGED toThread
        [] OTHER                             -> FALSE

\* EventBuffer::approve.  A permit on a connection that is shut is an error
\* (PermitFails).  Where the connection has been dropped, tid2socket has a
\* pointer to a deleted socket: the permit is lost, reaches a thread that has
\* got the descriptor since, or is an error.
Approve(e) ==
  LET Permit(t) == toThread' = [toThread EXCEPT ![t] = Append(@, e.type)]
      socket    == link[socketOf[e.tid]]
  IN  \/ socket = "open" /\ Permit(socketOf[e.tid])
      \/ /\ socket = "removed"
         /\ \/ UNCHANGED toThread
            \/ \E t \in Threads : link[t] = "open" /\ Permit(t)

\* The first LOCAL_INFO of a call of get_event is permitted at once.
TakeInfo(e) ==
  /\ Waits
  /\ e \in buffer /\ e.tid = Wanted
  /\ e.type = "LOCAL_INFO" /\ ~informed
  /\ Approve(e)
  /\ buffer' = buffer \ {e}
  /\ informed' = TRUE
  /\ UNCHANGED <<process, link, toSched, stack, socketOf, mode, kept, done, unmatched, runs>>

----------------------------------------------------------------------------
(* next_state.                                                             *)

NoEvent == Ev("UNKNOWN", NoId, NoId, NoId)

Entry(p, mutexes, rwlocks) ==
  [p |-> p, mutexes |-> mutexes, rwlocks |-> rwlocks, sel |-> NoEvent]

FirstEntry(e) ==
  Entry([enabled |-> {e}, disabled |-> {}],
        [m \in ObjectIds |-> Absent], [l \in ObjectIds |-> RwAbsent])

\* The first state of the exploration, or the first event of a replay.
FirstEvent ==
  /\ mode = "boot"
  /\ link[0] = "backlog"
  /\ toSched[0] # <<>>
  /\ LET e == Head(toSched[0])
     IN  /\ socketOf' = UpdateSocket(e, 0)
         /\ IF stack = <<>>
            THEN /\ stack' = <<FirstEntry(e)>>
                 /\ mode' = "idle"
                 /\ UNCHANGED <<toThread, done, unmatched>>
            ELSE /\ toThread' = [toThread EXCEPT ![0] = Append(@, e.type)]
                 /\ done' = 1
                 /\ IF Len(stack) > 2 THEN mode' = "replay" /\ UNCHANGED unmatched
                                      ELSE mode' = "match"  /\ unmatched' = PendingIn(Top.p)
                 /\ UNCHANGED stack
  /\ link'    = [link EXCEPT ![0] = "open"]
  /\ toSched' = [toSched EXCEPT ![0] = Tail(@)]
  /\ UNCHANGED <<process, events, kept, runs>>

\* next_state up to the permit.
PermitEvent(e) ==
  /\ mode = "idle"
  /\ e \in Top.p.enabled
  /\ stack' = Append([stack EXCEPT ![Len(stack)].sel = e],
                     Entry(AfterExecuting(Top.p, e), ExecuteMutexes(Top.mutexes, e),
                           ExecuteRwlocks(Top.rwlocks, e)))
  /\ Approve(e)
  /\ mode' = IF e.type = "THREAD_END" THEN "idle" ELSE "next"
  /\ UNCHANGED <<process, link, toSched, events, socketOf, kept, done, unmatched, runs>>

AddToTop(added) ==
  LET Add(p, e) == AddTransition(p, Top.mutexes, Top.rwlocks, e)
      p == IF Len(added) = 1 THEN Add(Top.p, added[1])
                             ELSE Add(Add(Top.p, added[1]), added[2])
  IN  stack' = [stack EXCEPT ![Len(stack)].p = p]

\* The thread has announced its next operation.
TakeNext(e) ==
  /\ mode = "next"
  /\ Take(e)
  /\ e.type # "THREAD_POST_CREATE"
  /\ AddToTop(<<e>>)
  /\ mode' = "idle"
  /\ UNCHANGED <<process, link, toSched, toThread, socketOf, kept, done, unmatched, runs>>

\* The thread has created another one, which an assertion expects after the
\* permit of a creation only: the creation, the start of the new thread and its
\* first operation belong to the step.
TakePostCreate(e) ==
  /\ mode = "next"
  /\ Take(e)
  /\ e.type = "THREAD_POST_CREATE"
  /\ IF Selected.type = "THREAD_PRE_CREATE"
     THEN /\ Approve(e)
          /\ stack' = [stack EXCEPT ![Len(stack) - 1].sel =
                          Ev("THREAD_CREATE", e.tid, NoId, e.aux)]
          /\ mode'  = "after_post"
     ELSE mode' = "aborted" /\ UNCHANGED <<toThread, stack>>
  /\ UNCHANGED <<process, link, toSched, socketOf, kept, done, unmatched, runs>>

TakeAfterPost(e) ==
  /\ mode = "after_post"
  /\ Take(e)
  /\ kept' = e
  /\ mode' = "start"
  /\ UNCHANGED <<process, link, toSched, toThread, stack, socketOf, done, unmatched, runs>>

\* Mutant: the start of the new thread is not permitted.
TakeStartUnapproved(e) ==
  /\ mode = "start"
  /\ Take(e)
  /\ mode' = "first"
  /\ UNCHANGED <<process, link, toSched, toThread, stack, socketOf, kept, done, unmatched, runs>>

\* The new thread's first event: an assertion expects its start.
TakeStart(e) ==
  /\ mode = "start"
  /\ Take(e)
  /\ IF e.type = "THREAD_START" THEN Approve(e) /\ mode' = "first"
                               ELSE mode' = "aborted" /\ UNCHANGED toThread
  /\ UNCHANGED <<process, link, toSched, stack, socketOf, kept, done, unmatched, runs>>

\* Mutant: the creator's next operation is not added.
TakeFirstOnly(e) ==
  /\ mode = "first"
  /\ Take(e)
  /\ AddToTop(<<e>>)
  /\ mode' = "idle"
  /\ kept' = NoEvent
  /\ UNCHANGED <<process, link, toSched, toThread, socketOf, done, unmatched, runs>>

\* The first operation of the new thread is added before the creator's next one.
TakeFirst(e) ==
  /\ mode = "first"
  /\ Take(e)
  /\ AddToTop(<<e, kept>>)
  /\ mode' = "idle"
  /\ kept' = NoEvent
  /\ UNCHANGED <<process, link, toSched, toThread, socketOf, done, unmatched, runs>>

----------------------------------------------------------------------------
(* The exploration: the next run and its replay (SourceDPOR).              *)

\* A program that has not started yet.
Booting ==
  [ pc       |-> [t \in Threads |-> 1],
    step     |-> [t \in Threads |-> IF t = 0 THEN "call" ELSE "none"],
    handle   |-> [t \in Threads |-> IF t = 0 THEN 0 ELSE NoId],
    objects  |-> [a \in Addresses |-> NoId],
    tids     |-> [h \in Threads |-> NoId],
    link     |-> [t \in Threads |-> "none"],
    channel  |-> [t \in Threads |-> <<>>] ]

FreshProcess ==
  /\ pc' = Booting.pc           /\ step' = Booting.step  /\ handle' = Booting.handle
  /\ objects' = Booting.objects /\ nextObj' = 1
  /\ tids' = Booting.tids       /\ nextTid' = 0
  /\ status' = "running"        /\ link' = Booting.link
  /\ toSched' = Booting.channel /\ toThread' = Booting.channel

\* EventBuffer::reset: the connections are closed and forgotten.
ResetBuffer ==
  /\ buffer'   = {}
  /\ informed' = FALSE
  /\ socketOf' = [i \in Threads |-> NoId]

\* A run is over.  The stack is cut back to a state with another thread to run,
\* what is left of the process is killed and a new one is started.
Restart(k) ==
  /\ mode = "idle"
  /\ runs < MaxRuns
  /\ k \in 2 .. Len(stack) - 1
  /\ \E e \in stack[k].p.enabled : e.tid # stack[k].sel.tid
  /\ stack' = SubSeq(stack, 1, k)
  /\ FreshProcess
  /\ ResetBuffer
  /\ mode' = "boot"
  /\ done' = 0
  /\ runs' = runs + 1
  /\ UNCHANGED <<program, kept, unmatched>>

\* The exploration is over; what is left of the process is killed.
Finish ==
  /\ mode = "idle"
  /\ mode'   = "end"
  /\ status' = "exited"
  /\ UNCHANGED <<program, pc, step, handle, objectTable, threadTable, channels,
                 stack, events, socketOf, kept, done, unmatched, runs>>

\* Mutant: the last state of the stack is replayed as well.
StateReplayedTop ==
  /\ done' = done + 1
  /\ IF done + 1 < Len(stack) THEN mode' = "replay" /\ UNCHANGED unmatched
                              ELSE mode' = "match"  /\ unmatched' = PendingIn(Top.p)

\* The replay goes on with the next state of the stack.
StateReplayed ==
  /\ done' = done + 1
  /\ IF done + 1 < Len(stack) - 1 THEN mode' = "replay" /\ UNCHANGED unmatched
                                  ELSE mode' = "match"  /\ unmatched' = PendingIn(Top.p)

\* The comparison of two events; for a LOCAL_INFO it ends in an assertion
\* (semantic_equal).
Equal(e, f) == e.type # "LOCAL_INFO" /\ SameEvent(e, f)

\* The assertion that the event is the one the state remembers.
ReplayEvent(e) ==
  /\ mode = "replay"
  /\ Selected.type # "THREAD_CREATE"
  /\ Take(e)
  /\ IF Equal(e, Selected) THEN Approve(e) /\ StateReplayed
                     ELSE mode' = "aborted" /\ UNCHANGED <<toThread, done, unmatched>>
  /\ UNCHANGED <<process, link, toSched, stack, socketOf, kept, runs>>

\* Of a creation nothing is compared.  The first event permitted is the
\* creation, the second one the end of it, the third one the start of the child.
ReplayCreate(e) ==
  /\ mode = "replay"
  /\ Selected.type = "THREAD_CREATE"
  /\ Take(e)
  /\ Approve(e)
  /\ mode' = "replay_post"
  /\ UNCHANGED <<process, link, toSched, stack, socketOf, kept, done, unmatched, runs>>

\* Mutant: the end of the creation is not waited for.
ReplayPostSkipped(e) ==
  /\ mode = "replay_post"
  /\ mode' = "replay_start"
  /\ UNCHANGED <<process, channels, stack, events, socketOf, kept, done, unmatched, runs>>

ReplayPost(e) ==
  /\ mode = "replay_post"
  /\ Take(e)
  /\ Approve(e)
  /\ mode' = "replay_start"
  /\ UNCHANGED <<process, link, toSched, stack, socketOf, kept, done, unmatched, runs>>

ReplayStart(e) ==
  /\ mode = "replay_start"
  /\ Take(e)
  /\ Approve(e)
  /\ StateReplayed
  /\ UNCHANGED <<process, link, toSched, stack, socketOf, kept, runs>>

\* The events pending in the last state are awaited and compared.
MatchEvent(e) ==
  /\ mode = "match"
  /\ Take(e)
  /\ IF Equal(NextToMatch, e)
     THEN /\ unmatched' = unmatched \ {NextToMatch}
          /\ mode' = IF unmatched = {NextToMatch} THEN "idle" ELSE "match"
     ELSE mode' = "aborted" /\ UNCHANGED unmatched
  /\ UNCHANGED <<process, link, toSched, toThread, stack, socketOf, kept, done, runs>>

\* The scheduler is about to permit the event e.
AboutToPermit(e) ==
  \/ mode = "idle" /\ e \in Top.p.enabled
  \/ /\ Waits
     /\ e \in buffer /\ e.tid = Wanted
     /\ \/ e.type = "LOCAL_INFO" /\ ~informed
        \/ /\ mode = "next" /\ e.type = "THREAD_POST_CREATE"
           /\ Selected.type = "THREAD_PRE_CREATE"
        \/ mode = "start" /\ e.type = "THREAD_START"
        \/ mode \in {"replay_post", "replay_start"}
        \/ mode = "replay" /\ (Selected.type = "THREAD_CREATE" \/ Equal(e, Selected))

\* The permit cannot be sent.  next_state catches the exception and returns
\* NULL, which StateStack::push refuses with an assertion; anywhere else nothing
\* catches it.
PermitFails(e) ==
  /\ AboutToPermit(e)
  /\ link[socketOf[e.tid]] \in {"shut", "removed"}
  /\ mode' = "aborted"
  /\ UNCHANGED <<process, channels, stack, events, socketOf, kept, done, unmatched, runs>>

----------------------------------------------------------------------------
Init ==
  /\ program \in Programs
  /\ pc = Booting.pc           /\ step = Booting.step  /\ handle = Booting.handle
  /\ objects = Booting.objects /\ nextObj = 1
  /\ tids = Booting.tids       /\ nextTid = 0
  /\ status = "running"        /\ link = Booting.link
  /\ toSched = Booting.channel /\ toThread = Booting.channel
  /\ stack = <<>>
  /\ buffer = {}
  /\ informed = FALSE
  /\ socketOf = [i \in Threads |-> NoId]
  /\ mode = "boot"
  /\ kept = NoEvent
  /\ done = 0
  /\ unmatched = {}
  /\ runs = 1

TakeEvent(e) ==
  \/ TakeInfo(e) \/ TakeNext(e) \/ TakePostCreate(e) \/ TakeAfterPost(e)
  \/ TakeStart(e) \/ TakeFirst(e) \/ ReplayEvent(e) \/ ReplayCreate(e)
  \/ ReplayPost(e) \/ ReplayStart(e) \/ MatchEvent(e) \/ PermitFails(e)

Next ==
  \/ \E t \in Threads : RunThread(t) \/ Accept(t) \/ Receive(t) \/ HangUp(t)
  \/ FirstEvent
  \/ \E e \in IF mode = "idle" THEN Top.p.enabled ELSE {} : PermitEvent(e) \/ PermitFails(e)
  \/ \E e \in buffer : TakeEvent(e)
  \/ \E k \in 2 .. Len(stack) : Restart(k)
  \/ Finish

Spec     == Init /\ [][Next]_vars

\* The scheduler and the threads of the process do not stop while one of them
\* can go on.
FairSpec == Spec /\ WF_vars(Next)

----------------------------------------------------------------------------
(* The programs the protocol is made for.                                  *)

Positions(prog, types) ==
  UNION {{<<t, i>> : i \in {j \in 1 .. Len(prog[t]) : prog[t][j].type \in types}} :
           t \in Threads}

\* main, before it creates a thread.
Early(prog, i) == \A j \in 1 .. i : prog[0][j].type # "THREAD_PRE_CREATE"

\* Where main adds an address to the table of objects.
AddTypes == InitTypes \cup {"OBJ_REG", "OBJ_READ"}

Adds(prog, a) ==
  {i \in 1 .. Len(prog[0]) :
     Early(prog, i) /\ prog[0][i].type \in AddTypes /\ AddressOf(prog[0][i]) = a}

\* It adds its objects, or at least reads them, before there is a second
\* thread, and initialises or registers none it has added.
RegistersFirst(prog) ==
  /\ \A x \in Positions(prog, OpTypes) :
       (x[1] = 0 /\ Early(prog, x[2]))
         \/ \A a \in AddressesOf(prog[x[1]][x[2]]) : Adds(prog, a) # {}
  /\ \A x \in Positions(prog, InitTypes \cup {"OBJ_REG"}) : \A y \in Positions(prog, AddTypes) :
       AddressOf(prog[x[1]][x[2]]) = AddressOf(prog[y[1]][y[2]]) =>
         x[1] = 0 /\ Early(prog, x[2]) /\ (y[1] = 0 => x[2] <= y[2])

Creations(prog)     == Positions(prog, {"THREAD_PRE_CREATE"})
JoinsOf(prog, u)    == {y \in Positions(prog, {"THREAD_JOIN"}) : prog[y[1]][y[2]].aux = u}
CreatedAt(prog, x)  == prog[x[1]][x[2]].aux

\* Thread t joins thread u before it comes to the position x.
JoinedBefore(prog, u, x) == \E y \in JoinsOf(prog, u) : y[1] = x[1] /\ y[2] < x[2]

\* It uses no object before it has added it, and none it has destroyed: main
\* destroys a mutex when the threads that use it are joined.
UsesAdded(prog) ==
  /\ \A x \in Positions(prog, UseTypes \cup {"MUTEX_DESTROY"}) :
       x[1] = 0 /\ Early(prog, x[2]) => \E i \in Adds(prog, AddressOf(prog[0][x[2]])) : i < x[2]
  /\ \A d \in Positions(prog, {"MUTEX_DESTROY"}) :
       /\ d[1] = 0
       /\ \A x \in Positions(prog, OpTypes) \ {d} : prog[0][d[2]].at \in AddressesOf(prog[x[1]][x[2]]) =>
            (x[1] = 0 /\ x[2] < d[2]) \/ JoinedBefore(prog, x[1], d)

\* Every thread is joined, by its creator or by one that has joined its
\* creator, and no other thread than main exits: main ends last.
JoinsAll(prog) ==
  /\ \A x \in Positions(prog, {"EXIT"}) : x[1] = 0
  /\ \A x \in Creations(prog) : \E y \in JoinsOf(prog, CreatedAt(prog, x)) :
       (y[1] = x[1] /\ y[2] > x[2]) \/ JoinedBefore(prog, x[1], y)

\* No thread is created while another thread joins one: a creation and a join
\* are in order if one thread makes both, if the joining thread has joined the
\* creating one or does so, or if the thread created is the joining or the
\* joined one.
JoinsApart(prog) ==
  \A x \in Creations(prog) : \A u \in Threads : \A y \in JoinsOf(prog, u) :
    {x[1], CreatedAt(prog, x)} \cap {y[1], u} # {} \/ JoinedBefore(prog, x[1], y)

\* Two LOCAL_INFO in a row: the scheduler takes the second for an operation.
RepeatsInfo(prog) ==
  \E x, y \in Positions(prog, {"LOCAL_INFO"}) : y[1] = x[1] /\ y[2] = x[2] + 1

\* A symmetry point is announced without a type: the scheduler never sees it.
PassesSymmetryPoint(prog) == Positions(prog, {"SYMM_POINT"}) # {}

OrderlyPrograms == {prog \in Programs : JoinsAll(prog) /\ JoinsApart(prog)}

ProperPrograms  == {prog \in OrderlyPrograms :
                      RegistersFirst(prog) /\ UsesAdded(prog) /\ ~RepeatsInfo(prog)}

VisiblePrograms == {prog \in ProperPrograms : ~PassesSymmetryPoint(prog)}

\* Threads come and go as the tables of threads and sockets need it.
Orderly == program \in OrderlyPrograms

\* Moreover the ids of objects do not depend on the order threads arrive in.
Proper == program \in ProperPrograms

\* Moreover the scheduler sees every operation it is to order.
Visible == program \in VisiblePrograms

----------------------------------------------------------------------------
(* What the scheduler is to see of it.                                     *)

\* A write nobody sees: main makes it before it has added the object.
Unseen(t, i) ==
  /\ t = 0 /\ program[t][i].type = "OBJ_WRITE"
  /\ \A j \in Adds(program, program[t][i].at) : i < j

\* The id an object gets, by the order in which main adds them.
FirstAdd(a) == CHOOSE i \in Adds(program, a) : \A j \in Adds(program, a) : i <= j
ObjectId(a) ==
  IF a = NoId THEN NoId
  ELSE Cardinality({b \in Addresses : Adds(program, b) # {} /\ FirstAdd(b) <= FirstAdd(a)})

\* The operations of a thread as TurnBased has them.
Operations(t) ==
  LET visible == SelectSeq([i \in 1 .. Len(program[t]) |-> i],
                   LAMBDA i : /\ program[t][i].type \notin {"OBJ_REG", "LOCAL_INFO"}
                              /\ ~Unseen(t, i)
                              /\ program[t][i].type = "THREAD_START" => t = 0)
      Seen(o) == [type |-> IF o.type = "EXIT" THEN "THREAD_END" ELSE o.type,
                  obj  |-> ObjectId(o.at),
                  aux  |-> IF o.type \in CondTypes THEN ObjectId(o.aux) ELSE o.aux]
  IN  [i \in 1 .. Len(visible) |-> Seen(program[t][visible[i]])]

\* The states the scheduler has completed.
Completed ==
  LET n == IF mode \in Fresh THEN Len(stack) - 1 ELSE Len(stack)
  IN  [k \in 1 .. n |-> [pending |-> PendingIn(stack[k].p),
                         sel     |-> IF k = n THEN NoEvent ELSE stack[k].sel]]

Turns == INSTANCE TurnBased WITH
  ops   <- [t \in Threads |-> Operations(t)],
  stack <- Completed

----------------------------------------------------------------------------
(* Properties.                                                             *)

SchedulerEvents == [type : EventTypes \cup {"THREAD_POST_CREATE", "UNKNOWN", "LOCAL_INFO"},
                    tid  : Threads \cup {NoId},
                    obj  : {NoId} \cup ObjectIds,
                    aux  : Threads \cup ObjectIds \cup {NoId}]

\* Every variable keeps its type.
TypeOK ==
  /\ DOMAIN program = Threads
  /\ \A t \in Threads : pc[t] \in 1 .. Len(program[t])
  /\ step \in [Threads -> Steps]
  /\ handle \in [Threads -> Threads \cup {NoId}]
  /\ objects \in [Addresses -> {NoId} \cup ObjectIds]
  /\ tids \in [Threads -> Threads \cup {NoId}]
  /\ nextObj \in Nat \ {0} /\ nextTid \in 0 .. MaxThreads
  /\ status \in {"running", "exited", "aborted"}
  /\ link \in [Threads -> Links]
  /\ \A t \in Threads : \A i \in DOMAIN toSched[t] : toSched[t][i] \in SchedulerEvents
  /\ \A t \in Threads : \A i \in DOMAIN toThread[t] :
       toThread[t][i] \in EventTypes \cup {"THREAD_POST_CREATE", "LOCAL_INFO"}
  /\ \A k \in DOMAIN stack :
       /\ stack[k].p.enabled \cup stack[k].p.disabled \cup {stack[k].sel} \subseteq SchedulerEvents
       /\ stack[k].mutexes \in [ObjectIds -> {Free, Absent} \cup Threads]
  /\ buffer \cup unmatched \cup {kept} \subseteq SchedulerEvents
  /\ informed \in BOOLEAN
  /\ socketOf \in [Threads -> Threads \cup {NoId}]
  /\ mode \in Modes
  /\ done \in Nat /\ (done = 0 \/ done < Len(stack))
  /\ runs \in 1 .. MaxRuns

\* Nobody announces a second event before the first one has been taken out of
\* the buffer: assert(!has_event(event.thread_id)) of collect_events.
OneOutstanding ==
  \A t \in Threads :
    /\ Len(toSched[t]) <= 1
    /\ toSched[t] # <<>> => ~Alive(buffer, toSched[t][1].tid)

\* A permit on its way is the one its thread waits for, in every run and also
\* while the scheduler replays: assert(permit == ..._PERM) of every wrapper.
PermitsExpected ==
  status = "running" =>
    \/ \A t \in Threads :
         toThread[t] # <<>> => /\ step[t] \in {"permit", "created"}
                               /\ toThread[t] = <<Expected(t)>>
    \/ ~Orderly

\* The process and the scheduler mean the same thread by a thread id, although
\* parent and child race to insert it and a pthread_t is used again once its
\* thread is joined: no two threads share an id, the events on their way carry
\* the id their sender has, and permits for it go to the socket of the thread
\* that has it.
Present(t) == step[t] \notin {"none", "joined"} /\ IdOf(t) # NoId

ThreadIdsAgree ==
  \/ \A t \in Threads : Present(t) =>
       /\ \A u \in Threads \ {t} : Present(u) => IdOf(u) # IdOf(t)
       /\ toSched[t] # <<>> => toSched[t][1].tid = IdOf(t)
       /\ toSched[t] # <<>> /\ toSched[t][1].type = "THREAD_POST_CREATE"
            => toSched[t][1].aux = IdOf(Here(t).aux)
       /\ socketOf[IdOf(t)] \in {t, NoId}
  \/ ~Orderly

\* Whenever the scheduler chooses, the process is quiescent and the pending
\* events of the top state are exactly the operations its threads are blocked
\* at: nothing else runs, except a thread on its way out.
Ending(t) == toThread[t] = <<"THREAD_END">>

\* A mutex about to be destroyed has left the table, and with it its id.
Lasting(S) == {e \in S : e.type # "MUTEX_DESTROY"}

PendingAnnounced ==
  mode = "idle" /\ status # "aborted" =>
    LET live == {t \in Threads : step[t] \notin {"none", "ended", "joined"} /\ ~Ending(t)}
    IN  \/ /\ \A t \in live : step[t] = "permit" /\ toThread[t] = <<>> /\ toSched[t] = <<>>
           /\ {e.tid : e \in PendingIn(Top.p)} = {IdOf(t) : t \in live}
           /\ Lasting(PendingIn(Top.p)) = Lasting({EventOf(t) : t \in live})
        \/ ~Orderly

\* The assertions of the replay, assert(event == state->sel_event) and
\* assert(event == event2) of SourceDPOR: they never fail.
ReplayAsserts == mode # "aborted"

\* The replay of a prefix brings the process of a proper program back to the
\* state remembered, although its threads run concurrently in a replay: ids of
\* threads and objects and the order of their events come out the same.  Nor is
\* a permit sent to a thread that is gone (next_state.cc:107).
ReplayFaithful == ReplayAsserts \/ ~Proper

\* No wrapper stops such a program on an assertion of its own.
NoProcessAbort == status # "aborted" \/ ~Proper

\* To the exploration a proper program is one whose threads take turns: the
\* pending events of each state it completes are those of the program's text,
\* after as many operations of each thread as it has selected, and never
\* depend on how the process got there.
ImplementsTurns ==
  [][Completed' # Completed /\ Visible => Turns!Next]_vars

\* The exploration of such a program comes to its end, unless it has symmetry
\* points: the scheduler and the threads never wait for one another.
Termination == Visible => <>(mode = "end")
=============================================================================
