--------------------------- MODULE HandshakeProofs ---------------------------
(***************************************************************************)
(* Theorems about Handshake for any number of threads and any set of       *)
(* programs, where the program is an Orderly one.                          *)
(*                                                                         *)
(* The invariant has two halves.  ProcessInv is about the process alone:   *)
(* which threads exist and which are joined is told by how far the program *)
(* is, the pthread_t of running threads differ, and the table of threads   *)
(* has an id for exactly those that have come far enough.  ChannelInv      *)
(* follows the one event or permit that a blocked thread has: on its       *)
(* socket, in the buffer, in the hands of the scheduler, or on its way     *)
(* back.                                                                   *)
(***************************************************************************)
EXTENDS Handshake, ProgramStateLemmas, FiniteSetTheorems

----------------------------------------------------------------------------
(* The process.                                                            *)

\* The i-th operation of thread t creates thread u.
Creates(t, i, u) ==
  i \in 1 .. Len(program[t]) /\ program[t][i].type = "THREAD_PRE_CREATE" /\ program[t][i].aux = u
\* Or joins it.
Joins(t, i, u) ==
  i \in 1 .. Len(program[t]) /\ program[t][i].type = "THREAD_JOIN" /\ program[t][i].aux = u

\* Thread t has come past its i-th operation, or is at one of the steps S of it.
Past(t, i, S) == step[t] # "none" /\ (i < pc[t] \/ (i = pc[t] /\ step[t] \in S))

\* pthread_create has returned.
AfterCreate == {"insert", "post", "created"}
\* And the creator has inserted the new thread.
AfterInsert == {"post", "created"}

\* A thread whose pthread_t no other thread has.
Live(t) == step[t] \notin {"none", "joined"}

\* A thread that has inserted itself.
Started(t)  == step[t] # "none" /\ ~(pc[t] = 1 /\ step[t] = "call")
\* One that its creator has inserted.
Inserted(t) == \E c \in Threads : \E i \in 1 .. Len(program[c]) :
                 Creates(c, i, t) /\ Past(c, i, AfterInsert)
\* Either of them: it has been given an id.
Numbered(t) == Started(t) \/ Inserted(t)

\* Where a thread may be at which operation.
StepsFit ==
  \A t \in Threads :
    /\ step[t] \in AfterCreate \cup {"create"} => Here(t).type = "THREAD_PRE_CREATE"
    /\ step[t] \in {"join", "remove"}           => Here(t).type = "THREAD_JOIN"
    /\ step[t] \in {"ended", "joined"}          => Here(t).type \in EndTypes
    /\ step[t] \in {"add", "read"}              => Here(t).type = "OBJ_READ"

\* The types of the process; the types of object ids are not needed.
ProcessTypes ==
  /\ program \in Programs
  /\ pc \in [Threads -> Nat] /\ \A t \in Threads : pc[t] \in 1 .. Len(program[t])
  /\ step \in [Threads -> Steps]
  /\ handle \in [Threads -> Threads \cup {NoId}]
  /\ tids \in [Threads -> Nat \cup {NoId}]
  /\ nextTid \in Nat
  /\ objects \in [Addresses -> Int]
  /\ nextObj \in Int

\* A thread exists once its creator is past pthread_create.
CreatedRight ==
  \A c, u \in Threads : \A i \in 1 .. Len(program[c]) :
    Creates(c, i, u) => (step[u] # "none" <=> Past(c, i, AfterCreate))
\* It is joined once the joining thread is past pthread_join.
JoinedRight ==
  \A t, u \in Threads : \A i \in 1 .. Len(program[t]) :
    Joins(t, i, u) => (step[u] = "joined" <=> Past(t, i, {"remove"}))

\* Running threads have a pthread_t each, and one about to be removed from the
\* table is not used again.
HandlesApart ==
  /\ \A t \in Threads : Live(t) => handle[t] \in Threads
  /\ \A t, u \in Threads : Live(t) /\ Live(u) /\ handle[t] = handle[u] => t = u
  /\ \A t, u \in Threads :
       step[t] = "remove" /\ Live(u) => handle[u] # handle[Here(t).aux]

\* What the table of threads has: ids given once, for running threads and those
\* about to be removed.
TidsRight ==
  /\ \A h \in Threads : tids[h] # NoId =>
       /\ tids[h] < nextTid
       /\ \E u \in Threads : /\ handle[u] = h
                             /\ Live(u) \/ \E t \in Threads : step[t] = "remove" /\ Here(t).aux = u
  /\ \A g, h \in Threads : tids[g] # NoId /\ tids[g] = tids[h] => g = h

\* main at its end leaves the table; every other running thread is in it exactly
\* if it was inserted.  As many ids are given as threads were.
NumbersRight ==
  /\ \A t \in Threads : Live(t) => (t = 0 /\ step[t] = "ended") \/ (Registered(t) <=> Numbered(t))
  /\ nextTid = Cardinality({t \in Threads : Numbered(t)})

\* The invariant of the process.
ProcessInv ==
  /\ ProcessTypes /\ StepsFit /\ CreatedRight /\ JoinedRight
  /\ HandlesApart /\ TidsRight /\ NumbersRight

----------------------------------------------------------------------------
(* The sockets and the scheduler.                                          *)

\* A thread that waits for a permit.
Blocked(t) == step[t] \in {"permit", "created"}

\* The types of events.
EventKinds == EventTypes \cup {"THREAD_POST_CREATE", "UNKNOWN", "LOCAL_INFO"}
\* An event, the ids of objects being any integers.
Events     == [type : EventKinds, tid : Nat \cup {NoId}, obj : Int, aux : Int]

\* What the table of read-write locks has of one.
RwStatuses == {"ABSENT", "RWLS_IDLE", "RWLS_READING", "RWLS_WRITING"}
\* The states of the stack.
StackStates ==
  [p       : PairsOver(Events),
   mutexes : [ObjectIds -> Threads \cup {Free, Absent}],
   rwlocks : [ObjectIds -> [status : RwStatuses, readers : SUBSET Threads,
                            writer : Threads \cup {NoId}]],
   sel     : Events]

\* The types of the sockets and the scheduler.
SchedulerTypes ==
  /\ status \in {"running", "exited", "aborted"}
  /\ link \in [Threads -> Links]
  /\ toSched \in [Threads -> Seq(Events)]
  /\ toThread \in [Threads -> Seq(EventKinds \cup {"SYMM_POINT"})]
  /\ stack \in Seq(StackStates)
  /\ \A k \in 1 .. Len(stack) : OnePer(stack[k].p)
  /\ buffer \subseteq Events
  /\ kept \in Events
  /\ socketOf \in [Threads -> Threads \cup {NoId}]
  /\ mode \in Modes
  /\ mode # "boot" => stack # <<>>

\* The event a blocked thread has announced.
IsAnnouncement(t, e) ==
  /\ e.tid = IdOf(t) /\ e.tid # NoId
  /\ e.type = IF Here(t).type = "SYMM_POINT" THEN "UNKNOWN" ELSE Expected(t)
  /\ step[t] = "created" => e.aux = IdOf(Here(t).aux)

\* An event on its way is the announcement of a thread that waits.
EventsRight ==
  \A t \in Threads : toSched[t] # <<>> =>
    /\ Blocked(t) /\ toThread[t] = <<>>
    /\ toSched[t] = <<toSched[t][1]>> /\ IsAnnouncement(t, toSched[t][1])
\* A permit on its way is the one its thread waits for.
PermitsRight ==
  \A t \in Threads : toThread[t] # <<>> => Blocked(t) /\ toThread[t] = <<Expected(t)>>

\* The sockets are those of the threads.
SocketsRight ==
  /\ \A i \in Threads : socketOf[i] # NoId => i < nextTid
  /\ \A t \in Threads : Present(t) => socketOf[IdOf(t)] \in {t, NoId}

\* With the scheduler: its thread waits and has nothing else on its way.
Parked(e) ==
  /\ e.tid \in Threads /\ socketOf[e.tid] \in Threads
  /\ LET t == socketOf[e.tid]
     IN  /\ Blocked(t) /\ IdOf(t) = e.tid
         /\ toSched[t] = <<>> /\ toThread[t] = <<>>
         /\ e.type = Expected(t)

\* The events the scheduler will permit without looking at the buffer again.
Held ==
  CASE mode \in {"idle", "next", "after_post"} -> PendingIn(Top.p)
    [] mode \in {"start", "first"}             -> PendingIn(Top.p) \cup {kept}
    [] mode = "match"                          -> PendingIn(Top.p) \ unmatched
    [] OTHER                                   -> {}

\* Each event is in one place, and is the only one of its thread.
TokensRight ==
  /\ \A e \in buffer \cup Held : Parked(e)
  /\ \A e, f \in buffer \cup Held : e.tid = f.tid => e = f
  /\ buffer \cap Held = {}
  /\ mode \in {"start", "first"} => kept \notin PendingIn(Top.p)

\* A thread whose connection was shut while the process runs is on its way out.
LinksRight ==
  /\ status = "running" => \A t \in Threads :
       link[t] \in {"shut", "removed"} => step[t] \in {"ended", "joined"}
  /\ status # "running" /\ mode # "end" => \A t \in Threads : link[t] \notin {"backlog", "open"}

\* Before its first event main is at its start.
BootRight ==
  mode = "boot" => buffer = {} /\ pc[0] = 1 /\ step[0] \in {"call", "permit"} /\ toThread[0] = <<>>

\* The invariant of the sockets and the scheduler.
ChannelInv ==
  /\ SchedulerTypes /\ EventsRight /\ PermitsRight /\ SocketsRight
  /\ TokensRight /\ LinksRight /\ BootRight

\* The invariant.
Inv == ProcessInv /\ ChannelInv

----------------------------------------------------------------------------
(* Orderly programs.                                                       *)

\* A program begins, ends and names threads as HandshakeAssumption says.
LEMMA ProgramShape ==
  ASSUME program \in Programs
  PROVE  /\ program \in [Threads -> Seq(Operation)]
         /\ \A t \in Threads : \A i \in 1 .. Len(program[t]) :
              /\ program[t][i] \in Operation
              /\ program[t][i].type = "THREAD_START" <=> i = 1
              /\ program[t][i].type \in EndTypes     <=> i = Len(program[t])
              /\ program[t][i].type \in CondTypes    => program[t][i].aux \in Addresses
              /\ program[t][i].type \in NamingTypes  => program[t][i].aux \in Threads \ {0}
         /\ \A t \in Threads : Len(program[t]) \in Nat \ {0}
<1>1. program \in [Threads -> Seq(Operation)]
  BY HandshakeAssumption
<1>2. \A t \in Threads : program[t] \in Seq(Operation)
  BY <1>1
<1>3. \A t \in Threads : Len(program[t]) \in Nat /\ \A i \in 1 .. Len(program[t]) : program[t][i] \in Operation
  BY <1>2
<1> QED
  BY <1>1, <1>3, HandshakeAssumption

\* No thread is created twice, or by main's creator, and none joined twice.
LEMMA NamedOnce ==
  ASSUME program \in Programs, NEW t \in Threads, NEW u \in Threads, NEW i, NEW j, NEW v
  PROVE  /\ Creates(t, i, v) => v \in Threads \ {0}
         /\ Joins(t, i, v)   => v \in Threads \ {0}
         /\ Creates(t, i, v) /\ Creates(u, j, v) => t = u /\ i = j
         /\ Joins(t, i, v) /\ Joins(u, j, v)     => t = u /\ i = j
<1>1. Creates(t, i, v) \/ Joins(t, i, v) => v \in Threads \ {0}
  BY ProgramShape DEF Creates, Joins, NamingTypes
<1>2. ASSUME i \in 1 .. Len(program[t]), j \in 1 .. Len(program[u]),
             program[t][i].type \in NamingTypes, program[t][i].type = program[u][j].type,
             program[t][i].aux = program[u][j].aux
      PROVE  t = u /\ i = j
  BY <1>2, HandshakeAssumption
<1> QED
  BY <1>1, <1>2 DEF Creates, Joins, NamingTypes

\* A thread that is joined has been created.
LEMMA JoinedIsCreated ==
  ASSUME program \in Programs, NEW t \in Threads, NEW i, NEW u, Joins(t, i, u)
  PROVE  \E c \in Threads : \E j \in 1 .. Len(program[c]) : Creates(c, j, u)
BY ProgramShape, HandshakeAssumption DEF Creates, Joins

\* The members of Positions.
LEMMA PositionsAre ==
  ASSUME NEW types, NEW t \in Threads, NEW i \in 1 .. Len(program[t]), program[t][i].type \in types
  PROVE  <<t, i>> \in Positions(program, types)
BY DEF Positions

\* And back.
LEMMA PositionsOnly ==
  ASSUME NEW types, NEW x \in Positions(program, types)
  PROVE  \E t \in Threads : \E i \in 1 .. Len(program[t]) :
           x = <<t, i>> /\ program[t][i].type \in types
BY DEF Positions

\* In an orderly program every thread created is joined, by its creator or by
\* one that has joined its creator; a creation and a join have one thread in
\* common or are in order; and only main exits.
LEMMA OrderlyProgram ==
  ASSUME Orderly
  PROVE  /\ program \in Programs
         /\ \A c, u \in Threads : \A i \in 1 .. Len(program[c]) : Creates(c, i, u) =>
              \E t \in Threads : \E j \in 1 .. Len(program[t]) :
                /\ Joins(t, j, u)
                /\ (t = c /\ j > i) \/ \E k \in 1 .. Len(program[t]) : k < j /\ Joins(t, k, c)
         /\ \A c, d, t, u \in Threads : \A i \in 1 .. Len(program[c]), j \in 1 .. Len(program[t]) :
              Creates(c, i, d) /\ Joins(t, j, u) =>
                \/ {c, d} \cap {t, u} # {}
                \/ \E k \in 1 .. Len(program[t]) : k < j /\ Joins(t, k, c)
         /\ \A t \in Threads : \A i \in 1 .. Len(program[t]) : program[t][i].type = "EXIT" => t = 0
<1>1. program \in Programs /\ JoinsAll(program) /\ JoinsApart(program)
  BY DEF Orderly, OrderlyPrograms
<1>2. ASSUME NEW u \in Threads, NEW y \in JoinsOf(program, u)
      PROVE  \E t \in Threads : \E j \in 1 .. Len(program[t]) : y = <<t, j>> /\ Joins(t, j, u)
  BY <1>2, PositionsOnly DEF JoinsOf, Joins
<1>3. ASSUME NEW c \in Threads, NEW t \in Threads, NEW j \in 1 .. Len(program[t]),
             JoinedBefore(program, c, <<t, j>>)
      PROVE  \E k \in 1 .. Len(program[t]) : k < j /\ Joins(t, k, c)
  <2>1. PICK y \in JoinsOf(program, c) : y[1] = t /\ y[2] < j
    BY <1>3 DEF JoinedBefore
  <2>2. \E v \in Threads : \E k \in 1 .. Len(program[v]) : y = <<v, k>> /\ Joins(v, k, c)
    BY <1>2
  <2> QED
    BY <2>1, <2>2
<1>4. ASSUME NEW c \in Threads, NEW u \in Threads, NEW i \in 1 .. Len(program[c]), Creates(c, i, u)
      PROVE  \E t \in Threads : \E j \in 1 .. Len(program[t]) :
               /\ Joins(t, j, u)
               /\ (t = c /\ j > i) \/ \E k \in 1 .. Len(program[t]) : k < j /\ Joins(t, k, c)
  <2>1. <<c, i>> \in Creations(program) /\ CreatedAt(program, <<c, i>>) = u
    BY <1>4, PositionsAre DEF Creations, CreatedAt, Creates
  <2>2. PICK y \in JoinsOf(program, u) : (y[1] = c /\ y[2] > i) \/ JoinedBefore(program, c, y)
    BY <1>1, <2>1 DEF JoinsAll
  <2>3. \E t \in Threads : \E j \in 1 .. Len(program[t]) : y = <<t, j>> /\ Joins(t, j, u)
    BY <1>2
  <2> QED
    BY <1>3, <2>2, <2>3
<1>5. ASSUME NEW c \in Threads, NEW d \in Threads, NEW t \in Threads, NEW u \in Threads,
             NEW i \in 1 .. Len(program[c]), NEW j \in 1 .. Len(program[t]),
             Creates(c, i, d), Joins(t, j, u)
      PROVE  \/ {c, d} \cap {t, u} # {}
             \/ \E k \in 1 .. Len(program[t]) : k < j /\ Joins(t, k, c)
  <2>1. <<c, i>> \in Creations(program) /\ CreatedAt(program, <<c, i>>) = d
    BY <1>5, PositionsAre DEF Creations, CreatedAt, Creates
  <2>2. <<t, j>> \in JoinsOf(program, u)
    BY <1>5, PositionsAre DEF JoinsOf, Joins
  <2>3. {c, d} \cap {t, u} # {} \/ JoinedBefore(program, c, <<t, j>>)
    BY <1>1, <2>1, <2>2 DEF JoinsApart
  <2> QED
    BY <1>3, <2>3
<1>6. ASSUME NEW t \in Threads, NEW i \in 1 .. Len(program[t]), program[t][i].type = "EXIT"
      PROVE  t = 0
  <2>1. <<t, i>> \in Positions(program, {"EXIT"})
    BY <1>6, PositionsAre
  <2> QED
    BY <1>1, <2>1 DEF JoinsAll
<1> QED
  BY <1>1, <1>4, <1>5, <1>6

----------------------------------------------------------------------------
(* Threads come and go in order.                                           *)

\* A thread in the wrapper of a creation, or of a join, is at one.
LEMMA AtOperation ==
  ASSUME ProcessTypes, StepsFit, NEW t \in Threads
  PROVE  /\ pc[t] \in 1 .. Len(program[t]) /\ Here(t) \in Operation
         /\ step[t] \in AfterCreate \cup {"create"} =>
              /\ Creates(t, pc[t], Here(t).aux)
              /\ Here(t).aux \in Threads \ {0}
         /\ step[t] \in {"join", "remove"} =>
              /\ Joins(t, pc[t], Here(t).aux)
              /\ Here(t).aux \in Threads \ {0}
<1>1. pc[t] \in 1 .. Len(program[t]) /\ Here(t) \in Operation
  BY ProgramShape DEF ProcessTypes, Here
<1> QED
  BY <1>1, ProgramShape DEF ProcessTypes, StepsFit, Creates, Joins, Here, NamingTypes

\* A new thread is not joined while its creator is not done with it, and does
\* not exist before pthread_create.
LEMMA ChildStays ==
  ASSUME ProcessInv, Orderly, NEW c \in Threads, step[c] \in AfterCreate \cup {"create"}
  PROVE  /\ step[Here(c).aux] # "joined"
         /\ step[Here(c).aux] = "none" <=> step[c] = "create"
<1> DEFINE u == Here(c).aux
           i == pc[c]
<1>1. i \in 1 .. Len(program[c]) /\ i \in Nat /\ Creates(c, i, u) /\ u \in Threads
  BY AtOperation DEF ProcessInv, ProcessTypes
<1>2. step[u] = "none" <=> step[c] = "create"
  BY <1>1 DEF ProcessInv, CreatedRight, Past, AfterCreate
<1>3. ASSUME step[u] = "joined"
      PROVE  FALSE
  <2>1. \E t \in Threads : \E j \in 1 .. Len(program[t]) :
          /\ Joins(t, j, u)
          /\ (t = c /\ j > i) \/ \E k \in 1 .. Len(program[t]) : k < j /\ Joins(t, k, c)
    BY <1>1, OrderlyProgram
  <2>2. PICK t \in Threads : \E j \in 1 .. Len(program[t]) :
          /\ Joins(t, j, u)
          /\ (t = c /\ j > i) \/ \E k \in 1 .. Len(program[t]) : k < j /\ Joins(t, k, c)
    BY <2>1
  <2>3. PICK j \in 1 .. Len(program[t]) :
          /\ Joins(t, j, u)
          /\ (t = c /\ j > i) \/ \E k \in 1 .. Len(program[t]) : k < j /\ Joins(t, k, c)
    BY <2>2
  <2>4. Past(t, j, {"remove"}) /\ pc[t] \in Nat
    BY <1>1, <1>3, <2>3 DEF ProcessInv, JoinedRight, ProcessTypes
  <2>5. step[t] # "none" /\ j <= pc[t]
    BY <2>4 DEF Past
  <2>6. PICK k \in 1 .. Len(program[t]) : k < j /\ Joins(t, k, c)
    BY <1>1, <2>3, <2>4, <2>5
  <2>7. Past(t, k, {"remove"})
    BY <2>4, <2>5, <2>6 DEF Past
  <2>8. step[c] = "joined"
    BY <2>6, <2>7 DEF ProcessInv, JoinedRight
  <2> QED
    BY <2>8 DEF AfterCreate
<1> QED
  BY <1>2, <1>3

\* No thread is created while the pthread_t of a joined one is still in the table.
LEMMA CreateApart ==
  ASSUME ProcessInv, Orderly, NEW c \in Threads, step[c] = "create",
         NEW t \in Threads, step[t] = "remove"
  PROVE  FALSE
<1> DEFINE d == Here(c).aux
           u == Here(t).aux
           i == pc[c]
           j == pc[t]
<1>1. i \in 1 .. Len(program[c]) /\ Creates(c, i, d) /\ d \in Threads
  BY AtOperation DEF ProcessInv
<1>2. j \in 1 .. Len(program[t]) /\ j \in Nat /\ Joins(t, j, u) /\ u \in Threads
  BY AtOperation DEF ProcessInv, ProcessTypes
<1>3. step[u] = "joined"
  BY <1>2 DEF ProcessInv, JoinedRight, Past
<1>4. step[d] = "none"
  BY ChildStays
<1>5. {c, d} \cap {t, u} = {}
  BY <1>3, <1>4
<1>6. PICK k \in 1 .. Len(program[t]) : k < j /\ Joins(t, k, c)
  BY <1>1, <1>2, <1>5, OrderlyProgram
<1>7. step[c] = "joined"
  BY <1>2, <1>6 DEF ProcessInv, JoinedRight, Past
<1> QED
  BY <1>7

----------------------------------------------------------------------------
(* Steps of the process.                                                   *)

\* Thread t goes from one step of a wrapper to another one, on the same side of
\* the steps S.
LEMMA MovesPast ==
  ASSUME ProcessTypes, program' = program, pc' = pc, NEW t \in Threads, NEW s \in Steps,
         step' = [step EXCEPT ![t] = s], step[t] # "none", s # "none",
         NEW S, step[t] \in S <=> s \in S,
         NEW c \in Threads, NEW i \in Nat
  PROVE  Past(c, i, S)' <=> Past(c, i, S)
BY DEF ProcessTypes, Past

\* Or it returns from one of them.
LEMMA ReturnsPast ==
  ASSUME ProcessTypes, program' = program, NEW t \in Threads, step[t] # "none", Return(t),
         NEW S, "call" \notin S,
         NEW c \in Threads, NEW i \in Nat, c = t /\ i = pc[t] => step[t] \in S
  PROVE  Past(c, i, S)' <=> Past(c, i, S)
BY DEF ProcessTypes, Past, Return

\* A step that creates and joins no thread and removes none from the table.
SameThreads ==
  /\ program' = program /\ handle' = handle
  /\ \A t \in Threads : /\ step'[t] = "none"   <=> step[t] = "none"
                        /\ step'[t] = "joined" <=> step[t] = "joined"
                        /\ step'[t] = "remove" <=> step[t] = "remove"
                        /\ step[t]  = "remove" => pc'[t] = pc[t]
  /\ step[0] = "ended" => step'[0] = "ended"
  /\ \A c, u \in Threads : \A i \in 1 .. Len(program[c]) :
       /\ Creates(c, i, u) => (Past(c, i, AfterCreate)' <=> Past(c, i, AfterCreate))
       /\ Joins(c, i, u)   => (Past(c, i, {"remove"})' <=> Past(c, i, {"remove"}))

\* It leaves alone what ProcessInv says of the threads.
LEMMA ThreadsStay ==
  ASSUME ProcessInv, SameThreads
  PROVE  /\ CreatedRight' /\ JoinedRight' /\ HandlesApart'
         /\ \A t \in Threads : Live(t)' <=> Live(t)
         /\ \A t \in Threads : step[t] = "remove" => Here(t)' = Here(t)
<1>1. /\ \A c, u, i : Creates(c, i, u)' <=> Creates(c, i, u)
      /\ \A c, u, i : Joins(c, i, u)' <=> Joins(c, i, u)
  BY DEF SameThreads, Creates, Joins
<1>2. CreatedRight' /\ JoinedRight'
  BY <1>1 DEF SameThreads, ProcessInv, CreatedRight, JoinedRight
<1>3. \A t \in Threads : step[t] = "remove" => Here(t)' = Here(t)
  BY DEF SameThreads, Here
<1>4. \A t \in Threads : Live(t)' <=> Live(t)
  BY DEF SameThreads, Live
<1>5. HandlesApart'
  BY <1>3, <1>4 DEF SameThreads, ProcessInv, HandlesApart
<1> QED
  BY <1>2, <1>3, <1>4, <1>5

\* And, if it inserts none, of the table.
LEMMA TablesStay ==
  ASSUME ProcessInv, SameThreads, tids' = tids, nextTid' = nextTid,
         ProcessTypes', StepsFit',
         \A t \in Threads : Numbered(t)' <=> Numbered(t)
  PROVE  ProcessInv'
<1>1. TidsRight'
  BY ThreadsStay DEF SameThreads, ProcessInv, TidsRight
<1>2. \A t \in Threads : Registered(t)' <=> Registered(t)
  BY DEF SameThreads, Registered, IdOf
<1>3. NumbersRight'
  <2>1. {t \in Threads : Numbered(t)}' = {t \in Threads : Numbered(t)}
    OBVIOUS
  <2> QED
    BY <1>2, <2>1, ThreadsStay DEF SameThreads, ProcessInv, NumbersRight
<1> QED
  BY <1>1, <1>3, ThreadsStay DEF ProcessInv

\* A thread that has no id yet gets the next one.
LEMMA InsertKeeps ==
  ASSUME ProcessInv, SameThreads, ProcessTypes', StepsFit',
         NEW u \in Threads, Live(u), ~(u = 0 /\ step[u] = "ended"), tids[handle[u]] = NoId,
         tids' = [tids EXCEPT ![handle[u]] = nextTid], nextTid' = nextTid + 1,
         \A t \in Threads : Numbered(t)' <=> Numbered(t) \/ t = u
  PROVE  ProcessInv'
<1> DEFINE h == handle[u]
           S == {t \in Threads : Numbered(t)}
<1>1. h \in Threads /\ h # NoId /\ nextTid \in Nat /\ nextTid # NoId
  BY DEF ProcessInv, HandlesApart, ProcessTypes, Threads, NoId
<1>2. \A t \in Threads : Live(t) => handle[t] \in Threads /\ (handle[t] = h => t = u)
  BY DEF ProcessInv, HandlesApart
<1>3. TidsRight'
  <2>1. tids' \in [Threads -> Nat \cup {NoId}] /\ tids'[h] = nextTid
        /\ \A g \in Threads \ {h} : tids'[g] = tids[g]
    BY <1>1 DEF ProcessInv, ProcessTypes
  <2>2. ASSUME NEW g \in Threads, tids'[g] # NoId
        PROVE  ( /\ tids[g] < nextTid
                 /\ \E v \in Threads : /\ handle[v] = g
                                       /\ Live(v) \/ \E t \in Threads : step[t] = "remove" /\ Here(t).aux = v )'
    <3>1. CASE g = h
      BY <3>1, <2>1, <1>1, ThreadsStay DEF SameThreads
    <3>2. CASE g # h
      <4>1. tids[g] # NoId /\ tids'[g] = tids[g] /\ tids[g] \in Nat
        BY <2>1, <2>2, <3>2 DEF ProcessInv, ProcessTypes
      <4> QED
        BY <4>1, <1>1, ThreadsStay DEF SameThreads, ProcessInv, TidsRight
    <3> QED
      BY <3>1, <3>2
  <2>3. \A g \in Threads : tids[g] # NoId => tids[g] \in Nat /\ tids[g] < nextTid
    BY DEF ProcessInv, ProcessTypes, TidsRight
  <2>4. ASSUME NEW f \in Threads, NEW g \in Threads, tids'[f] # NoId, tids'[f] = tids'[g]
        PROVE  f = g
    BY <1>1, <2>1, <2>3, <2>4 DEF ProcessInv, TidsRight
  <2>5. \A g, f \in Threads : tids'[g] # NoId /\ tids'[g] = tids'[f] => g = f
    BY <2>4
  <2> QED
    BY <2>2, <2>5 DEF TidsRight
<1>4. \A t \in Threads : Live(t) => (Registered(t)' <=> Registered(t) \/ t = u)
  BY <1>1, <1>2 DEF SameThreads, Registered, IdOf, ProcessInv, ProcessTypes
<1>5. ~Numbered(u)
  BY <1>1 DEF ProcessInv, NumbersRight, Registered, IdOf
<1>6. NumbersRight'
  <2>1. {t \in Threads : Numbered(t)}' = S \cup {u}
    OBVIOUS
  <2>2. IsFiniteSet(Threads)
    BY HandshakeAssumption, FS_Interval DEF Threads
  <2>3. IsFiniteSet(S) /\ u \notin S
    BY <1>5, <2>2, FS_Subset
  <2>4. Cardinality(S \cup {u}) = Cardinality(S) + 1
    BY <2>3, FS_AddElement
  <2> QED
    BY <1>4, <2>1, <2>4, ThreadsStay DEF SameThreads, ProcessInv, NumbersRight
<1> QED
  BY <1>3, <1>6, ThreadsStay DEF ProcessInv

\* Thread t goes from one step of the wrapper to another.
LEMMA MoveKeeps ==
  ASSUME ProcessInv, program' = program, handle' = handle, pc' = pc,
         NEW t \in Threads, NEW s \in Steps \ {"none", "joined", "remove", "call"},
         step' = [step EXCEPT ![t] = s], ProcessTypes', StepsFit',
         step[t] \notin {"none", "joined", "remove", "ended"},
         s \in AfterCreate <=> step[t] \in AfterCreate
  PROVE  /\ SameThreads
         /\ \A u \in Threads : Started(u)' <=> Started(u) \/ u = t
         /\ (s \in AfterInsert <=> step[t] \in AfterInsert)
              => \A u \in Threads : Inserted(u)' <=> Inserted(u)
<1>1. pc \in [Threads -> Nat] /\ step \in [Threads -> Steps] /\ program \in Programs
      /\ \A u \in Threads : Len(program[u]) \in Nat
  BY ProgramShape DEF ProcessInv, ProcessTypes
<1>2. ASSUME NEW c \in Threads, NEW i \in 1 .. Len(program[c])
      PROVE  /\ Past(c, i, AfterCreate)' <=> Past(c, i, AfterCreate)
             /\ Past(c, i, {"remove"})' <=> Past(c, i, {"remove"})
             /\ (s \in AfterInsert <=> step[t] \in AfterInsert)
                  => (Past(c, i, AfterInsert)' <=> Past(c, i, AfterInsert))
  <2>1. i \in Nat
    BY <1>1
  <2> QED
    BY <2>1, MovesPast DEF ProcessInv
<1>3. SameThreads
  BY <1>1, <1>2 DEF SameThreads
<1>4. \A u \in Threads : Started(u)' <=> Started(u) \/ u = t
  BY <1>1 DEF Started
<1>5. ASSUME s \in AfterInsert <=> step[t] \in AfterInsert, NEW u \in Threads
      PROVE  Inserted(u)' <=> Inserted(u)
  BY <1>2, <1>5 DEF Inserted, Creates
<1> QED
  BY <1>3, <1>4, <1>5

\* Thread t returns from the wrapper.
LEMMA ReturnKeeps ==
  ASSUME ProcessInv, program' = program, handle' = handle,
         NEW t \in Threads, Return(t), pc[t] # 1 \/ step[t] # "call", ProcessTypes', StepsFit',
         step[t] \in {"call", "permit"} => Here(t).type \notin NamingTypes,
         step[t] \in {"call", "permit", "created"}
  PROVE  /\ SameThreads
         /\ \A u \in Threads : Numbered(u)' <=> Numbered(u)
<1>1. pc \in [Threads -> Nat] /\ step \in [Threads -> Steps] /\ program \in Programs
      /\ \A u \in Threads : Len(program[u]) \in Nat
      /\ pc[t] \in 1 .. Len(program[t])
  BY ProgramShape DEF ProcessInv, ProcessTypes
<1>2. Here(t).type # "THREAD_JOIN"
  BY AtOperation DEF ProcessInv, NamingTypes, StepsFit, AfterCreate
<1>3. ASSUME NEW c \in Threads, NEW u, NEW i \in 1 .. Len(program[c])
      PROVE  /\ Creates(c, i, u) => /\ Past(c, i, AfterCreate)' <=> Past(c, i, AfterCreate)
                                    /\ Past(c, i, AfterInsert)' <=> Past(c, i, AfterInsert)
             /\ Joins(c, i, u)   => (Past(c, i, {"remove"})' <=> Past(c, i, {"remove"}))
  <2>1. i \in Nat
    BY <1>1
  <2>2. CASE c # t \/ i # pc[t]
    BY <1>1, <2>1, <2>2, ReturnsPast DEF ProcessInv, AfterCreate, AfterInsert
  <2>3. CASE c = t /\ i = pc[t]
    <3>1. ~Joins(c, i, u)
      BY <1>2, <2>3 DEF Joins, Here
    <3>2. Creates(c, i, u) => step[t] = "created"
      BY <2>3 DEF Creates, Here, NamingTypes
    <3>3. step[t] = "created" => step[t] \in AfterCreate /\ step[t] \in AfterInsert
      BY DEF AfterCreate, AfterInsert
    <3>4. "call" \notin AfterCreate /\ "call" \notin AfterInsert
      BY DEF AfterCreate, AfterInsert
    <3> QED
      BY <1>1, <2>1, <3>1, <3>2, <3>3, <3>4, ReturnsPast DEF ProcessInv
  <2> QED
    BY <2>2, <2>3
<1>4. \A u \in Threads : Started(u)' <=> Started(u)
  BY <1>1 DEF Started, Return
<1>5. SameThreads
  BY <1>1, <1>3 DEF SameThreads, Return
<1>6. \A u \in Threads : Inserted(u)' <=> Inserted(u)
  BY <1>3 DEF Inserted, Creates
<1> QED
  BY <1>4, <1>5, <1>6 DEF Numbered

\* Where the step s of a wrapper belongs.
Fits(s, o) ==
  /\ s \in AfterCreate \cup {"create"} => o.type = "THREAD_PRE_CREATE"
  /\ s \in {"join", "remove"}           => o.type = "THREAD_JOIN"
  /\ s \in {"ended", "joined"}          => o.type \in EndTypes
  /\ s \in {"add", "read"}              => o.type = "OBJ_READ"

\* The types, and where threads are, after a move.
LEMMA MoveTypes ==
  ASSUME ProcessTypes, StepsFit, program' = program, handle' = handle, pc' = pc,
         tids' \in [Threads -> Nat \cup {NoId}], nextTid' \in Nat,
         objects' \in [Addresses -> Int], nextObj' \in Int,
         NEW t \in Threads, NEW s \in Steps, step' = [step EXCEPT ![t] = s], Fits(s, Here(t))
  PROVE  ProcessTypes' /\ StepsFit'
<1>1. ProcessTypes'
  BY DEF ProcessTypes
<1>2. \A u \in Threads : Here(u)' = Here(u) /\ step'[u] = IF u = t THEN s ELSE step[u]
  BY DEF ProcessTypes, Here
<1>3. StepsFit'
  BY <1>2 DEF StepsFit, Fits
<1> QED
  BY <1>1, <1>3

\* And after a return.
LEMMA ReturnTypes ==
  ASSUME ProcessTypes, StepsFit, program' = program, handle' = handle,
         tids' \in [Threads -> Nat \cup {NoId}], nextTid' \in Nat,
         objects' \in [Addresses -> Int], nextObj' \in Int,
         NEW t \in Threads, Return(t), Here(t).type \notin EndTypes
  PROVE  ProcessTypes' /\ StepsFit'
<1>1. program \in Programs /\ pc[t] \in 1 .. Len(program[t]) /\ Len(program[t]) \in Nat
  BY ProgramShape DEF ProcessTypes
<1>2. pc[t] + 1 \in 1 .. Len(program[t]) /\ pc[t] + 1 \in Nat
  BY <1>1, ProgramShape DEF Here
<1>3. "call" \in Steps
  BY DEF Steps
<1>4. ProcessTypes'
  BY <1>2, <1>3 DEF ProcessTypes, Return
<1>5. \A u \in Threads \ {t} : Here(u)' = Here(u) /\ step'[u] = step[u]
  BY DEF ProcessTypes, Here, Return
<1>6. step'[t] = "call"
  BY DEF ProcessTypes, Return
<1>7. StepsFit'
  BY <1>5, <1>6 DEF StepsFit, AfterCreate
<1> QED
  BY <1>4, <1>7

\* A move that leaves the table of threads alone.
LEMMA PlainMove ==
  ASSUME ProcessInv, program' = program, handle' = handle, pc' = pc,
         tids' = tids, nextTid' = nextTid,
         objects' \in [Addresses -> Int], nextObj' \in Int,
         NEW t \in Threads, NEW s \in Steps \ {"none", "joined", "remove", "call"},
         step' = [step EXCEPT ![t] = s], Fits(s, Here(t)),
         step[t] \notin {"none", "joined", "remove", "ended"},
         step[t] = "call" => pc[t] # 1 \/ Numbered(t),
         s \in AfterCreate <=> step[t] \in AfterCreate,
         s \in AfterInsert <=> step[t] \in AfterInsert
  PROVE  ProcessInv'
<1>1. ProcessTypes' /\ StepsFit'
  BY MoveTypes DEF ProcessInv, ProcessTypes
<1>2. /\ SameThreads
      /\ \A u \in Threads : Started(u)' <=> Started(u) \/ u = t
      /\ \A u \in Threads : Inserted(u)' <=> Inserted(u)
  BY <1>1, MoveKeeps
<1>3. Numbered(t)
  BY DEF Numbered, Started
<1>4. \A u \in Threads : Numbered(u)' <=> Numbered(u)
  BY <1>2, <1>3 DEF Numbered
<1> QED
  BY <1>1, <1>2, <1>4, TablesStay

\* And a return that does.
LEMMA PlainReturn ==
  ASSUME ProcessInv, program' = program, handle' = handle, tids' = tids, nextTid' = nextTid,
         objects' \in [Addresses -> Int], nextObj' \in Int,
         NEW t \in Threads, Return(t), Here(t).type \notin EndTypes,
         pc[t] # 1 \/ step[t] # "call",
         step[t] \in {"call", "permit"} => Here(t).type \notin NamingTypes,
         step[t] \in {"call", "permit", "created"}
  PROVE  ProcessInv'
<1>1. ProcessTypes' /\ StepsFit'
  BY ReturnTypes DEF ProcessInv, ProcessTypes
<1>2. /\ SameThreads
      /\ \A u \in Threads : Numbered(u)' <=> Numbered(u)
  BY <1>1, ReturnKeeps
<1> QED
  BY <1>1, <1>2, TablesStay

\* A thread past its first operation is in the wrapper of another one.
LEMMA NotAtStart ==
  ASSUME ProcessInv, NEW t \in Threads, Here(t).type # "THREAD_START"
  PROVE  pc[t] # 1
BY ProgramShape DEF ProcessInv, ProcessTypes, Here

----------------------------------------------------------------------------
(* The operations of the wrappers keep the tables right.                   *)

\* ObjectIndex::add keeps the type of the table of objects.
LEMMA AddObjectType ==
  ASSUME ProcessInv, NEW a, AddObject(a)
  PROVE  objects' \in [Addresses -> Int] /\ nextObj' \in Int
<1>1. objects \in [Addresses -> Int] /\ nextObj \in Int
  BY DEF ProcessInv, ProcessTypes
<1>2. objects' \in [Addresses -> Int]
  BY <1>1 DEF AddObject
<1>3. nextObj' \in Int
  BY <1>1 DEF AddObject
<1> QED
  BY <1>2, <1>3

\* The operations that concern no other thread.
LEMMA ObjectStepsKeep ==
  ASSUME ProcessInv, NEW t \in Threads,
         \/ RegisterObject(t) \/ CheckObject(t) \/ AddUnknown(t) \/ ReadObject(t)
         \/ WriteUnseen(t) \/ UseObject(t) \/ InitObject(t) \/ DestroyMutex(t) \/ AnnounceCall(t)
  PROVE  ProcessInv'
<1> USE DEF process, objectTable, threadTable, GoTo, Calls, Runs, Steps, AfterCreate, AfterInsert
<1>1. objects \in [Addresses -> Int] /\ nextObj \in Int /\ NoId \in Int
  BY DEF ProcessInv, ProcessTypes, NoId
<1>2. ASSUME NEW s \in {"add", "read", "permit"}, step' = [step EXCEPT ![t] = s],
             s # "permit" => Here(t).type = "OBJ_READ"
      PROVE  Fits(s, Here(t))
  BY <1>2 DEF Fits
<1>3. CASE RegisterObject(t)
  <2>1. Here(t).type \notin EndTypes \cup NamingTypes \cup {"THREAD_START"}
    BY <1>3 DEF RegisterObject, EndTypes, NamingTypes
  <2>2. objects' \in [Addresses -> Int] /\ nextObj' \in Int
    BY <1>1, <1>3, AddObjectType DEF RegisterObject
  <2> QED
    BY <1>3, <2>1, <2>2, NotAtStart, PlainReturn DEF RegisterObject
<1>4. CASE CheckObject(t)
  <2>1. Here(t).type = "OBJ_READ" /\ step[t] = "call"
    BY <1>4 DEF CheckObject
  <2> QED
    BY <1>1, <1>2, <1>4, <2>1, NotAtStart, PlainMove DEF CheckObject
<1>5. CASE AddUnknown(t)
  <2>1. Here(t).type = "OBJ_READ" /\ step[t] = "add"
    BY <1>5 DEF AddUnknown, ProcessInv, StepsFit
  <2>2. objects' \in [Addresses -> Int] /\ nextObj' \in Int
    BY <1>1, <1>5, AddObjectType DEF AddUnknown
  <2> QED
    BY <1>2, <1>5, <2>1, <2>2, NotAtStart, PlainMove DEF AddUnknown
<1>6. CASE ReadObject(t)
  BY <1>1, <1>2, <1>6, PlainMove DEF ReadObject
<1>7. CASE WriteUnseen(t)
  <2>1. Here(t).type \notin EndTypes \cup NamingTypes \cup {"THREAD_START"}
    BY <1>7 DEF WriteUnseen, EndTypes, NamingTypes
  <2> QED
    BY <1>1, <1>7, <2>1, NotAtStart, PlainReturn DEF WriteUnseen
<1>8. CASE UseObject(t) \/ InitObject(t) \/ DestroyMutex(t) \/ AnnounceCall(t)
  <2>1. Here(t).type # "THREAD_START" /\ step[t] = "call"
    BY <1>8 DEF UseObject, UseTypes, InitObject, InitTypes, DestroyMutex, AnnounceCall, CallTypes
  <2>2. objects' \in [Addresses -> Int] /\ nextObj' \in Int
    BY <1>1, <1>8 DEF UseObject, InitObject, DestroyMutex, AnnounceCall, AddObject
  <2>3. step' = [step EXCEPT ![t] = "permit"] /\ pc' = pc /\ program' = program /\ handle' = handle
        /\ tids' = tids /\ nextTid' = nextTid
    BY <1>8 DEF UseObject, InitObject, DestroyMutex, AnnounceCall
  <2> QED
    BY <1>2, <2>1, <2>2, <2>3, NotAtStart, PlainMove
<1> QED
  BY <1>3, <1>4, <1>5, <1>6, <1>7, <1>8

\* A thread that starts has an id afterwards.
LEMMA StartKeeps ==
  ASSUME ProcessInv, NEW t \in Threads, StartThread(t)
  PROVE  ProcessInv'
<1> USE DEF process, objectTable, threadTable, GoTo, Calls, Runs
<1>1. /\ program' = program /\ handle' = handle /\ pc' = pc
      /\ objects' = objects /\ nextObj' = nextObj
      /\ step' = [step EXCEPT ![t] = "permit"] /\ step[t] = "call"
      /\ InsertThread(handle[t])
  BY DEF StartThread
<1>2. /\ "permit" \in Steps \ {"none", "joined", "remove", "call"}
      /\ step[t] \notin {"none", "joined", "remove", "ended"}
      /\ "permit" \notin AfterCreate /\ step[t] \notin AfterCreate
      /\ "permit" \notin AfterInsert /\ step[t] \notin AfterInsert
      /\ Fits("permit", Here(t))
  BY <1>1 DEF Steps, AfterCreate, AfterInsert, Fits
<1>3. objects \in [Addresses -> Int] /\ nextObj \in Int
      /\ tids \in [Threads -> Nat \cup {NoId}] /\ nextTid \in Nat
  BY DEF ProcessInv, ProcessTypes
<1>4. Live(t) /\ handle[t] \in Threads
  BY <1>1 DEF Live, ProcessInv, HandlesApart
<1>5. CASE tids[handle[t]] # NoId
  <2>1. Numbered(t)
    BY <1>1, <1>4, <1>5 DEF ProcessInv, NumbersRight, Registered, IdOf, NoId, Threads
  <2>2. tids' = tids /\ nextTid' = nextTid
    BY <1>1, <1>5 DEF InsertThread
  <2> QED
    BY <1>1, <1>2, <1>3, <2>1, <2>2, PlainMove
<1>6. CASE tids[handle[t]] = NoId
  <2>1. tids' = [tids EXCEPT ![handle[t]] = nextTid] /\ nextTid' = nextTid + 1
    BY <1>1, <1>6 DEF InsertThread
  <2>2. tids' \in [Threads -> Nat \cup {NoId}]
    BY <1>3, <2>1
  <2>3. nextTid' \in Nat
    BY <1>3, <2>1
  <2>4. ProcessTypes' /\ StepsFit'
    BY <1>1, <1>2, <1>3, <2>2, <2>3, MoveTypes DEF ProcessInv
  <2>5. SameThreads /\ \A u \in Threads : Numbered(u)' <=> Numbered(u) \/ u = t
    BY <1>1, <1>2, <2>4, MoveKeeps DEF Numbered
  <2> QED
    BY <1>1, <1>4, <1>6, <2>1, <2>4, <2>5, InsertKeeps
<1> QED
  BY <1>5, <1>6

\* main leaves the table at its end.
LEMMA MainEndKeeps ==
  ASSUME ProcessInv, 0 \in Threads, step[0] = "permit", Here(0).type \in EndTypes,
         program' = program, pc' = pc, handle' = handle, objects' = objects, nextObj' = nextObj,
         step' = [step EXCEPT ![0] = "ended"], RemoveThread(handle[0])
  PROVE  ProcessInv'
<1> DEFINE main == handle[0]
<1>1. /\ "ended" \in Steps \ {"none", "joined", "remove", "call"}
      /\ "ended" \notin AfterCreate /\ step[0] \notin AfterCreate
      /\ "ended" \notin AfterInsert /\ step[0] \notin AfterInsert
      /\ step[0] \notin {"none", "joined", "remove", "ended"}
      /\ Fits("ended", Here(0))
  BY DEF Steps, AfterCreate, AfterInsert, Fits
<1>2. tids' = [tids EXCEPT ![main] = NoId] /\ nextTid' = nextTid
  BY DEF RemoveThread
<1>3. objects \in [Addresses -> Int] /\ nextObj \in Int
      /\ tids \in [Threads -> Nat \cup {NoId}] /\ nextTid \in Nat
  BY DEF ProcessInv, ProcessTypes
<1>4. tids' \in [Threads -> Nat \cup {NoId}]
  BY <1>2, <1>3
<1>5. ProcessTypes' /\ StepsFit'
  BY <1>1, <1>2, <1>3, <1>4, MoveTypes DEF ProcessInv
<1>6. /\ SameThreads
      /\ \A u \in Threads : Started(u)' <=> Started(u) \/ u = 0
      /\ \A u \in Threads : Inserted(u)' <=> Inserted(u)
  BY <1>1, <1>5, MoveKeeps
<1>7. \A u \in Threads : Numbered(u)' <=> Numbered(u)
  BY <1>6 DEF Numbered, Started
<1>8. Live(0) /\ main \in Threads /\ \A u \in Threads : Live(u) /\ handle[u] = main => u = 0
  BY DEF Live, ProcessInv, HandlesApart
<1>9. TidsRight'
  <2>1. \A g \in Threads : tids'[g] # NoId => g # main /\ tids'[g] = tids[g]
    BY <1>2, <1>3
  <2> QED
    BY <1>2, <1>6, <2>1, ThreadsStay DEF SameThreads, ProcessInv, TidsRight
<1>10. \A u \in Threads \ {0} : Live(u) => (Registered(u)' <=> Registered(u))
  BY <1>2, <1>3, <1>6, <1>8 DEF SameThreads, Registered, IdOf
<1>11. NumbersRight'
  <2>1. {u \in Threads : Numbered(u)}' = {u \in Threads : Numbered(u)}
    BY <1>7
  <2>2. step'[0] = "ended"
    BY DEF ProcessInv, ProcessTypes
  <2> QED
    BY <1>2, <1>6, <1>7, <1>10, <2>1, <2>2, ThreadsStay DEF SameThreads, ProcessInv, NumbersRight
<1> QED
  BY <1>5, <1>6, <1>9, <1>11, ThreadsStay DEF ProcessInv

\* The permit lets a thread go on, and main or another thread end.
LEMMA ReceiveKeeps ==
  ASSUME ProcessInv, NEW t \in Threads, ReceivePermit(t)
  PROVE  ProcessInv'
<1> USE DEF objectTable, threadTable, GoTo
<1>1. /\ program' = program /\ handle' = handle /\ objects' = objects /\ nextObj' = nextObj
      /\ step[t] \in {"permit", "created"}
  BY DEF ReceivePermit, HasPermit
<1>2. objects \in [Addresses -> Int] /\ nextObj \in Int
  BY DEF ProcessInv, ProcessTypes
<1>3. step[t] \notin {"none", "joined", "remove", "ended", "call"}
  BY <1>1
<1>4. ASSUME Expected(t) \in {"THREAD_PRE_CREATE", "THREAD_JOIN", "THREAD_END"}
      PROVE  /\ step[t] = "permit"
             /\ Expected(t) \in NamingTypes => Here(t).type = Expected(t)
             /\ Expected(t) = "THREAD_END" => Here(t).type \in EndTypes
             /\ step[t] \notin AfterCreate /\ step[t] \notin AfterInsert
  <2>1. step[t] = "created" => Here(t).type = "THREAD_PRE_CREATE"
    BY DEF ProcessInv, StepsFit, AfterCreate
  <2>2. step[t] = "created" => Expected(t) = "THREAD_POST_CREATE"
    BY <2>1 DEF Expected
  <2>3. step[t] = "permit"
    BY <1>1, <1>4, <2>2
  <2> QED
    BY <1>4, <2>3 DEF Expected, EndTypes, NamingTypes, AfterCreate, AfterInsert
<1>5. CASE Expected(t) \in NamingTypes
  <2>1. PICK s \in {"create", "join"} :
          /\ step' = [step EXCEPT ![t] = s]
          /\ Expected(t) = IF s = "create" THEN "THREAD_PRE_CREATE" ELSE "THREAD_JOIN"
          /\ pc' = pc /\ tids' = tids /\ nextTid' = nextTid
    BY <1>5 DEF ReceivePermit, NamingTypes
  <2>2. s \in Steps \ {"none", "joined", "remove", "call"} /\ s \notin AfterCreate /\ s \notin AfterInsert
    BY DEF Steps, AfterCreate, AfterInsert
  <2>3. Fits(s, Here(t))
    BY <1>4, <1>5, <2>1 DEF Fits, NamingTypes, AfterCreate
  <2> QED
    BY <1>1, <1>2, <1>3, <1>4, <1>5, <2>1, <2>2, <2>3, PlainMove DEF NamingTypes
<1>6. CASE Expected(t) = "THREAD_END"
  <2>1. /\ step' = [step EXCEPT ![t] = "ended"] /\ pc' = pc
        /\ IF t = 0 /\ Here(t).type = "THREAD_END" THEN RemoveThread(handle[t])
                                                   ELSE tids' = tids /\ nextTid' = nextTid
    BY <1>6 DEF ReceivePermit
  <2>2. CASE t = 0 /\ Here(t).type = "THREAD_END"
    BY <1>1, <1>4, <1>6, <2>1, <2>2, MainEndKeeps
  <2>3. CASE ~(t = 0 /\ Here(t).type = "THREAD_END")
    <3>1. "ended" \in Steps \ {"none", "joined", "remove", "call"} /\ "ended" \notin AfterCreate
          /\ "ended" \notin AfterInsert
      BY DEF Steps, AfterCreate, AfterInsert
    <3>2. Fits("ended", Here(t))
      BY <1>4, <1>6 DEF Fits, AfterCreate
    <3> QED
      BY <1>1, <1>2, <1>3, <1>4, <1>6, <2>1, <2>3, <3>1, <3>2, PlainMove
  <2> QED
    BY <2>2, <2>3
<1>7. CASE Expected(t) \notin NamingTypes \cup {"THREAD_END"}
  <2>1. Return(t) /\ tids' = tids /\ nextTid' = nextTid
    BY <1>7 DEF ReceivePermit, NamingTypes
  <2>2. step[t] = "permit" => Here(t).type \notin NamingTypes \cup EndTypes
    BY <1>7 DEF Expected, NamingTypes, EndTypes
  <2>3. step[t] = "created" => Here(t).type = "THREAD_PRE_CREATE"
    BY DEF ProcessInv, StepsFit, AfterCreate
  <2>4. Here(t).type \notin EndTypes
    BY <1>1, <2>2, <2>3 DEF EndTypes
  <2> QED
    BY <1>1, <1>2, <1>3, <2>1, <2>2, <2>4, PlainReturn
<1> QED
  BY <1>5, <1>6, <1>7

\* The creator inserts the new thread, unless that has inserted itself.
LEMMA InsertCreatedKeeps ==
  ASSUME ProcessInv, Orderly, NEW t \in Threads, InsertCreated(t)
  PROVE  ProcessInv'
<1> USE DEF process, objectTable, threadTable, GoTo, Runs
<1> DEFINE u == Here(t).aux
<1>1. /\ program' = program /\ handle' = handle /\ pc' = pc
      /\ objects' = objects /\ nextObj' = nextObj
      /\ step' = [step EXCEPT ![t] = "post"] /\ step[t] = "insert"
      /\ InsertThread(handle[u])
  BY DEF InsertCreated
<1>2. /\ "post" \in Steps \ {"none", "joined", "remove", "call"}
      /\ step[t] \notin {"none", "joined", "remove", "ended"}
      /\ "post" \in AfterCreate /\ step[t] \in AfterCreate
      /\ "post" \in AfterInsert /\ step[t] \notin AfterInsert
  BY <1>1 DEF Steps, AfterCreate, AfterInsert
<1>3. Here(t).type = "THREAD_PRE_CREATE" /\ Fits("post", Here(t))
  BY <1>1 DEF ProcessInv, StepsFit, AfterCreate, Fits
<1>4. Creates(t, pc[t], u) /\ u \in Threads \ {0} /\ pc[t] \in 1 .. Len(program[t])
  BY <1>2, AtOperation DEF ProcessInv
<1>5. Live(u) /\ handle[u] \in Threads
  BY <1>1, <1>2, <1>4, ChildStays DEF Live, ProcessInv, HandlesApart
<1>6. objects \in [Addresses -> Int] /\ nextObj \in Int
      /\ tids \in [Threads -> Nat \cup {NoId}] /\ nextTid \in Nat
  BY DEF ProcessInv, ProcessTypes
<1>7. tids' \in [Threads -> Nat \cup {NoId}]
  BY <1>1, <1>6 DEF InsertThread
<1>8. nextTid' \in Nat
  BY <1>1, <1>6 DEF InsertThread
<1>9. ProcessTypes' /\ StepsFit'
  BY <1>1, <1>2, <1>3, <1>6, <1>7, <1>8, MoveTypes DEF ProcessInv
<1>10. /\ SameThreads
       /\ \A v \in Threads : Started(v)' <=> Started(v)
  BY <1>1, <1>2, <1>9, MoveKeeps DEF Started
<1>11. ASSUME NEW v \in Threads
       PROVE  Inserted(v)' <=> Inserted(v) \/ v = u
  <2>1. ASSUME NEW c \in Threads, NEW i \in 1 .. Len(program[c])
        PROVE  Past(c, i, AfterInsert)' <=> Past(c, i, AfterInsert) \/ (c = t /\ i = pc[t])
    <3>1. pc \in [Threads -> Nat] /\ step \in [Threads -> Steps] /\ i \in Nat
      BY ProgramShape DEF ProcessInv, ProcessTypes
    <3> QED
      BY <1>1, <1>2, <3>1 DEF Past
  <2>2. \A c \in Threads : \A i \in 1 .. Len(program[c]) : Creates(c, i, v)' <=> Creates(c, i, v)
    BY <1>1 DEF Creates
  <2>3. \A c \in Threads : \A i \in 1 .. Len(program[c]) : Creates(c, i, v) /\ c = t /\ i = pc[t] => v = u
    BY <1>4 DEF Creates
  <2> QED
    BY <1>1, <1>4, <2>1, <2>2, <2>3 DEF Inserted
<1>12. \A v \in Threads : Numbered(v)' <=> Numbered(v) \/ v = u
  BY <1>10, <1>11 DEF Numbered
<1>13. CASE tids[handle[u]] # NoId
  <2>1. Numbered(u)
    BY <1>4, <1>5, <1>6, <1>13 DEF ProcessInv, NumbersRight, Registered, IdOf, NoId, Threads
  <2>2. tids' = tids /\ nextTid' = nextTid
    BY <1>1, <1>13 DEF InsertThread
  <2> QED
    BY <1>9, <1>10, <1>12, <2>1, <2>2, TablesStay
<1>14. CASE tids[handle[u]] = NoId
  <2>1. tids' = [tids EXCEPT ![handle[u]] = nextTid] /\ nextTid' = nextTid + 1
    BY <1>1, <1>14 DEF InsertThread
  <2> QED
    BY <1>4, <1>5, <1>9, <1>10, <1>12, <1>14, <2>1, InsertKeeps
<1> QED
  BY <1>13, <1>14

\* The creator announces the id of the new thread.
LEMMA AnnounceCreatedKeeps ==
  ASSUME ProcessInv, NEW t \in Threads, AnnounceCreated(t)
  PROVE  ProcessInv'
<1> USE DEF process, objectTable, threadTable, GoTo, Runs
<1>1. /\ program' = program /\ handle' = handle /\ pc' = pc
      /\ objects' = objects /\ nextObj' = nextObj /\ tids' = tids /\ nextTid' = nextTid
      /\ step' = [step EXCEPT ![t] = "created"] /\ step[t] = "post"
  BY DEF AnnounceCreated
<1>2. /\ "created" \in Steps \ {"none", "joined", "remove", "call"}
      /\ step[t] \notin {"none", "joined", "remove", "ended", "call"}
      /\ "created" \in AfterCreate /\ step[t] \in AfterCreate
      /\ "created" \in AfterInsert /\ step[t] \in AfterInsert
  BY <1>1 DEF Steps, AfterCreate, AfterInsert
<1>3. Fits("created", Here(t))
  BY <1>2 DEF ProcessInv, StepsFit, AfterCreate, Fits
<1>4. objects \in [Addresses -> Int] /\ nextObj \in Int
  BY DEF ProcessInv, ProcessTypes
<1> QED
  BY <1>1, <1>2, <1>3, <1>4, PlainMove

\* The pthread_t of a new thread is no running thread's.
LEMMA NewHandleIsNew ==
  ASSUME ProcessInv, NEW h \in NewHandles
  PROVE  h \in Threads /\ \A u \in Threads : Live(u) => handle[u] # h
<1>1. handle \in [Threads -> Threads \cup {NoId}]
  BY DEF ProcessInv, ProcessTypes
<1>2. \A u \in Threads : Live(u) => handle[u] \in {handle[v] : v \in {w \in Threads : step[w] \notin {"none", "joined"}}}
  BY DEF Live
<1> QED
  BY <1>1, <1>2 DEF NewHandles

\* pthread_create: the new thread has no id, even if its pthread_t was used before.
LEMMA CreateKeeps ==
  ASSUME ProcessInv, Orderly, NEW t \in Threads, CreateThread(t)
  PROVE  ProcessInv'
<1> USE DEF process, objectTable, threadTable, Runs
<1> DEFINE d == Here(t).aux
<1>1. PICK h \in NewHandles : handle' = [handle EXCEPT ![d] = h]
  BY DEF CreateThread
<1>2. /\ program' = program /\ objects' = objects /\ nextObj' = nextObj
      /\ tids' = tids /\ nextTid' = nextTid
      /\ step[t] = "create" /\ pc' = [pc EXCEPT ![d] = 1]
      /\ step' = [step EXCEPT ![d] = "call", ![t] = "insert"]
  BY DEF CreateThread
<1>3. h \in Threads /\ \A u \in Threads : Live(u) => handle[u] # h
  BY <1>1, NewHandleIsNew
<1>4. Creates(t, pc[t], d) /\ d \in Threads \ {0} /\ pc[t] \in 1 .. Len(program[t])
  BY <1>2, AtOperation DEF ProcessInv
<1>5. step[d] = "none" /\ d # t
  BY <1>2, ChildStays
<1>6. \A v \in Threads : step[v] # "remove"
  BY <1>2, CreateApart
<1>7. /\ program \in Programs /\ pc \in [Threads -> Nat] /\ step \in [Threads -> Steps]
      /\ handle \in [Threads -> Threads \cup {NoId}]
      /\ \A u \in Threads : Len(program[u]) \in Nat \ {0} /\ pc[u] \in 1 .. Len(program[u])
  BY ProgramShape DEF ProcessInv, ProcessTypes
<1>8. /\ pc' \in [Threads -> Nat] /\ step' \in [Threads -> Steps]
      /\ \A u \in Threads : pc'[u] = IF u = d THEN 1 ELSE pc[u]
      /\ \A u \in Threads : step'[u] = IF u = d THEN "call" ELSE IF u = t THEN "insert" ELSE step[u]
      /\ \A u \in Threads : handle'[u] = IF u = d THEN h ELSE handle[u]
      /\ handle' \in [Threads -> Threads \cup {NoId}]
  BY <1>1, <1>2, <1>3, <1>4, <1>5, <1>7 DEF Steps
<1>9. ProcessTypes'
  <2>1. \A u \in Threads : pc'[u] \in 1 .. Len(program'[u])
    BY <1>2, <1>7, <1>8
  <2> QED
    BY <1>2, <1>8, <2>1 DEF ProcessInv, ProcessTypes
<1>10. \A u \in Threads \ {d} : Here(u)' = Here(u)
  BY <1>2, <1>8 DEF Here
<1>11. StepsFit'
  <2>1. Here(t).type = "THREAD_PRE_CREATE"
    BY <1>2 DEF ProcessInv, StepsFit
  <2> QED
    BY <1>5, <1>8, <1>10, <2>1 DEF ProcessInv, StepsFit, AfterCreate
<1>12. ASSUME NEW c \in Threads, NEW i \in 1 .. Len(program[c])
       PROVE  /\ Past(c, i, AfterCreate)' <=> Past(c, i, AfterCreate) \/ (c = t /\ i = pc[t])
              /\ Past(c, i, AfterInsert)' <=> Past(c, i, AfterInsert)
              /\ Past(c, i, {"remove"})' <=> Past(c, i, {"remove"})
  <2>1. i \in Nat \ {0} /\ pc[t] \in Nat /\ pc[c] \in Nat
    BY <1>7
  <2>2. CASE c = d
    BY <1>5, <1>8, <2>1, <2>2 DEF Past, AfterCreate, AfterInsert
  <2>3. CASE c # d
    BY <1>2, <1>8, <2>1, <2>3 DEF Past, AfterCreate, AfterInsert
  <2> QED
    BY <2>2, <2>3
<1>13. \A c, u : \A i : (Creates(c, i, u)' <=> Creates(c, i, u)) /\ (Joins(c, i, u)' <=> Joins(c, i, u))
  BY <1>2 DEF Creates, Joins
<1>14. ASSUME NEW c \in Threads, NEW u \in Threads, NEW i \in 1 .. Len(program[c]), Creates(c, i, u)
       PROVE  u = d <=> (c = t /\ i = pc[t])
  <2>1. CASE u = d
    BY <1>4, <1>7, <1>14, <2>1, NamedOnce
  <2>2. CASE c = t /\ i = pc[t]
    BY <1>4, <1>14, <2>2 DEF Creates
  <2> QED
    BY <2>1, <2>2
<1>15. CreatedRight'
  <2>1. \A u \in Threads : step'[u] # "none" <=> step[u] # "none" \/ u = d
    BY <1>2, <1>8
  <2>2. ASSUME NEW c \in Threads, NEW u \in Threads, NEW i \in 1 .. Len(program[c]), Creates(c, i, u)
        PROVE  step'[u] # "none" <=> Past(c, i, AfterCreate)'
    <3>1. step[u] # "none" <=> Past(c, i, AfterCreate)
      BY <2>2 DEF ProcessInv, CreatedRight
    <3> QED
      BY <1>12, <1>14, <2>1, <2>2, <3>1
  <2> QED
    BY <1>2, <1>13, <2>2 DEF CreatedRight
<1>16. JoinedRight'
  <2>1. \A u \in Threads : step'[u] = "joined" <=> step[u] = "joined"
    BY <1>2, <1>5, <1>8
  <2> QED
    BY <1>2, <1>12, <1>13, <2>1 DEF ProcessInv, JoinedRight
<1>17. /\ \A u \in Threads : Live(u)' <=> Live(u) \/ u = d
       /\ \A u \in Threads : step'[u] # "remove"
       /\ ~Live(d)
  BY <1>2, <1>5, <1>6, <1>8 DEF Live
<1>18. HandlesApart'
  BY <1>3, <1>8, <1>17 DEF ProcessInv, HandlesApart
<1>19. TidsRight'
  BY <1>2, <1>6, <1>8, <1>17 DEF ProcessInv, TidsRight
<1>20. NumbersRight'
  <2>1. \A u \in Threads : Started(u)' <=> Started(u)
    BY <1>2, <1>5, <1>8 DEF Started
  <2>2. \A u \in Threads : Inserted(u)' <=> Inserted(u)
    BY <1>2, <1>12, <1>13 DEF Inserted
  <2>3. \A u \in Threads : Numbered(u)' <=> Numbered(u)
    BY <2>1, <2>2 DEF Numbered
  <2>4. ~Numbered(d)
    <3>1. ~Past(t, pc[t], AfterInsert)
      BY <1>2, <1>7 DEF Past, AfterInsert
    <3>2. ASSUME Inserted(d)
          PROVE  FALSE
      <4>1. PICK c \in Threads : \E i \in 1 .. Len(program[c]) : Creates(c, i, d) /\ Past(c, i, AfterInsert)
        BY <3>2 DEF Inserted
      <4>2. PICK i \in 1 .. Len(program[c]) : Creates(c, i, d) /\ Past(c, i, AfterInsert)
        BY <4>1
      <4> QED
        BY <1>4, <1>14, <3>1, <4>2
    <3> QED
      BY <1>5, <3>2 DEF Numbered, Started
  <2>5. tids[h] = NoId
    BY <1>3, <1>6 DEF ProcessInv, TidsRight
  <2>6. \A u \in Threads : IdOf(u)' = IF u = d THEN NoId ELSE IdOf(u)
    BY <1>2, <1>3, <1>4, <1>8, <2>5 DEF IdOf
  <2>8. \A u \in Threads : Registered(u)' <=> u # d /\ Registered(u)
    BY <2>6 DEF Registered
  <2>7. {u \in Threads : Numbered(u)}' = {u \in Threads : Numbered(u)}
    BY <2>3
  <2> QED
    <3>1. nextTid' = Cardinality({u \in Threads : Numbered(u)}')
      BY <1>2, <2>7 DEF ProcessInv, NumbersRight
    <3>2. ASSUME NEW u \in Threads, Live(u)'
          PROVE  (u = 0 /\ step'[u] = "ended") \/ (Registered(u)' <=> Numbered(u)')
      <4>1. CASE u = d
        BY <2>3, <2>4, <2>8, <4>1
      <4>2. CASE u # d
        <5>1. (u = 0 /\ step[u] = "ended") \/ (Registered(u) <=> Numbered(u))
          BY <1>17, <3>2, <4>2 DEF ProcessInv, NumbersRight
        <5>2. step[u] = "ended" => step'[u] = "ended"
          BY <1>2, <1>8, <4>2
        <5> QED
          BY <2>3, <2>8, <4>2, <5>1, <5>2
      <4> QED
        BY <4>1, <4>2
    <3> QED
      BY <3>1, <3>2 DEF NumbersRight
<1> QED
  BY <1>9, <1>11, <1>15, <1>16, <1>18, <1>19, <1>20 DEF ProcessInv

\* pthread_join: the joined thread waits to be removed from the table.
LEMMA JoinKeeps ==
  ASSUME ProcessInv, NEW t \in Threads, JoinThread(t)
  PROVE  ProcessInv'
<1> USE DEF process, objectTable, threadTable, Runs
<1>1. /\ program' = program /\ objects' = objects /\ nextObj' = nextObj /\ handle' = handle
      /\ tids' = tids /\ nextTid' = nextTid /\ pc' = pc
      /\ step[t] = "join" /\ step[Here(t).aux] = "ended"
      /\ step' = [step EXCEPT ![Here(t).aux] = "joined", ![t] = "remove"]
  BY DEF JoinThread
<1>2. PICK u \in Threads \ {t} : u = Here(t).aux /\ Joins(t, pc[t], u)
  BY <1>1, AtOperation DEF ProcessInv
<1>3. /\ program \in Programs /\ pc \in [Threads -> Nat] /\ step \in [Threads -> Steps]
      /\ pc[t] \in 1 .. Len(program[t])
      /\ \A v \in Threads : Len(program[v]) \in Nat \ {0}
  BY ProgramShape DEF ProcessInv, ProcessTypes
<1>4. /\ step' \in [Threads -> Steps]
      /\ \A v \in Threads : step'[v] = IF v = u THEN "joined" ELSE IF v = t THEN "remove" ELSE step[v]
  BY <1>1, <1>2, <1>3 DEF Steps
<1>5. ProcessTypes'
  BY <1>1, <1>4 DEF ProcessInv, ProcessTypes
<1>6. \A v \in Threads : Here(v)' = Here(v)
  BY <1>1 DEF Here
<1>7. StepsFit'
  <2>1. Here(t).type = "THREAD_JOIN" /\ Here(u).type \in EndTypes
    BY <1>1, <1>2 DEF ProcessInv, StepsFit
  <2> QED
    BY <1>4, <1>6, <2>1 DEF ProcessInv, StepsFit, AfterCreate
<1>8. ASSUME NEW c \in Threads, NEW i \in 1 .. Len(program[c])
      PROVE  /\ Past(c, i, AfterCreate)' <=> Past(c, i, AfterCreate)
             /\ Past(c, i, AfterInsert)' <=> Past(c, i, AfterInsert)
             /\ Past(c, i, {"remove"})' <=> Past(c, i, {"remove"}) \/ (c = t /\ i = pc[t])
  <2>1. i \in Nat \ {0} /\ pc[c] \in Nat
    BY <1>3
  <2>2. CASE c = u
    BY <1>1, <1>2, <1>4, <2>1, <2>2 DEF Past, AfterCreate, AfterInsert
  <2>3. CASE c = t
    BY <1>1, <1>2, <1>4, <2>1, <2>3 DEF Past, AfterCreate, AfterInsert
  <2>4. CASE c \notin {t, u}
    BY <1>1, <1>4, <2>1, <2>4 DEF Past, AfterCreate, AfterInsert
  <2> QED
    BY <2>2, <2>3, <2>4
<1>9. \A c, v, i : (Creates(c, i, v)' <=> Creates(c, i, v)) /\ (Joins(c, i, v)' <=> Joins(c, i, v))
  BY <1>1 DEF Creates, Joins
<1>10. CreatedRight'
  <2>1. \A v \in Threads : step'[v] = "none" <=> step[v] = "none"
    BY <1>1, <1>2, <1>4
  <2> QED
    BY <1>1, <1>8, <1>9, <2>1 DEF ProcessInv, CreatedRight
<1>11. JoinedRight'
  <2>1. \A v \in Threads : step'[v] = "joined" <=> step[v] = "joined" \/ v = u
    BY <1>1, <1>2, <1>4
  <2>2. ASSUME NEW c \in Threads, NEW v \in Threads, NEW i \in 1 .. Len(program[c]), Joins(c, i, v)
        PROVE  step'[v] = "joined" <=> Past(c, i, {"remove"})'
    <3>1. step[v] = "joined" <=> Past(c, i, {"remove"})
      BY <2>2 DEF ProcessInv, JoinedRight
    <3>2. v = u => c = t /\ i = pc[t]
      <4>1. v = u => Joins(t, pc[t], v)
        BY <1>2
      <4> QED
        BY <1>3, <2>2, <4>1, NamedOnce
    <3>3. c = t /\ i = pc[t] => v = u
      BY <1>2, <2>2 DEF Joins
    <3> QED
      BY <1>8, <2>1, <3>1, <3>2, <3>3
  <2> QED
    BY <1>1, <1>9, <2>2 DEF JoinedRight
<1>12. /\ \A v \in Threads : Live(v)' <=> Live(v) /\ v # u
       /\ Live(u) /\ Live(t)
       /\ \A v \in Threads : step'[v] = "remove" <=> step[v] = "remove" \/ v = t
  BY <1>1, <1>2, <1>4 DEF Live
<1>13. HandlesApart'
  <2>1. ASSUME NEW v \in Threads, NEW w \in Threads, step'[v] = "remove", Live(w)'
        PROVE  handle[w] # handle[Here(v).aux]
    <3>1. CASE v = t
      BY <1>2, <1>12, <2>1, <3>1 DEF ProcessInv, HandlesApart
    <3>2. CASE v # t
      BY <1>12, <2>1, <3>2 DEF ProcessInv, HandlesApart
    <3> QED
      BY <3>1, <3>2
  <2>2. /\ \A v \in Threads : Live(v)' => handle[v] \in Threads
        /\ \A v, w \in Threads : Live(v)' /\ Live(w)' /\ handle[v] = handle[w] => v = w
    BY <1>12 DEF ProcessInv, HandlesApart
  <2>3. \A v, w \in Threads : step'[v] = "remove" /\ Live(w)' => handle'[w] # handle'[Here(v)'.aux]
    BY <1>1, <1>6, <2>1
  <2> QED
    BY <1>1, <2>2, <2>3 DEF HandlesApart
<1>14. TidsRight'
  <2>1. ASSUME NEW w \in Threads, Live(w) \/ \E v \in Threads : step[v] = "remove" /\ Here(v).aux = w
        PROVE  (Live(w) \/ \E v \in Threads : step[v] = "remove" /\ Here(v).aux = w)'
    <3>1. CASE w = u
      BY <1>2, <1>6, <1>12, <3>1
    <3>2. CASE w # u
      BY <1>6, <1>12, <2>1, <3>2
    <3> QED
      BY <3>1, <3>2
  <2>2. handle' = handle /\ tids' = tids /\ nextTid' = nextTid
    BY <1>1
  <2>3. ASSUME NEW h \in Threads, tids[h] # NoId
        PROVE  ( /\ tids[h] < nextTid
                 /\ \E w \in Threads : /\ handle[w] = h
                                       /\ Live(w) \/ \E v \in Threads : step[v] = "remove" /\ Here(v).aux = w )'
    <3>1. PICK w \in Threads : /\ handle[w] = h
                               /\ Live(w) \/ \E v \in Threads : step[v] = "remove" /\ Here(v).aux = w
      BY <2>3 DEF ProcessInv, TidsRight
    <3>2. tids[h] < nextTid
      BY <2>3 DEF ProcessInv, TidsRight
    <3> QED
      BY <2>1, <2>2, <3>1, <3>2
  <2>4. \A g, h \in Threads : tids[g] # NoId /\ tids[g] = tids[h] => g = h
    BY DEF ProcessInv, TidsRight
  <2> QED
    BY <2>2, <2>3, <2>4 DEF TidsRight
<1>15. NumbersRight'
  <2>1. \A v \in Threads : Started(v)' <=> Started(v)
    BY <1>1, <1>2, <1>4 DEF Started
  <2>2. \A v \in Threads : Inserted(v)' <=> Inserted(v)
    BY <1>1, <1>8, <1>9 DEF Inserted
  <2>3. \A v \in Threads : Numbered(v)' <=> Numbered(v)
    BY <2>1, <2>2 DEF Numbered
  <2>4. \A v \in Threads : Registered(v)' <=> Registered(v)
    BY <1>1 DEF Registered, IdOf
  <2>5. {v \in Threads : Numbered(v)}' = {v \in Threads : Numbered(v)}
    BY <2>3
  <2>6. \A v \in Threads : Live(v)' /\ step[v] = "ended" => step'[v] = "ended"
    BY <1>1, <1>4, <1>12
  <2> QED
    BY <1>1, <1>12, <2>3, <2>4, <2>5, <2>6 DEF ProcessInv, NumbersRight
<1> QED
  BY <1>5, <1>7, <1>10, <1>11, <1>13, <1>14, <1>15 DEF ProcessInv

\* And is removed, whoever runs meanwhile.
LEMMA RemoveJoinedKeeps ==
  ASSUME ProcessInv, NEW t \in Threads, RemoveJoined(t)
  PROVE  ProcessInv'
<1> USE DEF process, objectTable, threadTable, Runs
<1>1. /\ program' = program /\ objects' = objects /\ nextObj' = nextObj /\ handle' = handle
      /\ step[t] = "remove" /\ RemoveThread(handle[Here(t).aux]) /\ Return(t)
  BY DEF RemoveJoined
<1>2. PICK u \in Threads : u = Here(t).aux /\ Joins(t, pc[t], u) /\ pc[t] \in 1 .. Len(program[t])
  BY <1>1, AtOperation DEF ProcessInv
<1>3. /\ program \in Programs /\ pc \in [Threads -> Nat] /\ step \in [Threads -> Steps]
      /\ tids \in [Threads -> Nat \cup {NoId}] /\ nextTid \in Nat
      /\ objects \in [Addresses -> Int] /\ nextObj \in Int
      /\ \A v \in Threads : Len(program[v]) \in Nat \ {0}
  BY ProgramShape DEF ProcessInv, ProcessTypes
<1>4. tids' = [tids EXCEPT ![handle[u]] = NoId] /\ nextTid' = nextTid
  BY <1>1, <1>2 DEF RemoveThread
<1>5. tids' \in [Threads -> Nat \cup {NoId}]
  BY <1>3, <1>4
<1>6. Here(t).type = "THREAD_JOIN"
  BY <1>1 DEF ProcessInv, StepsFit
<1>7. ProcessTypes' /\ StepsFit'
  BY <1>1, <1>3, <1>4, <1>5, <1>6, ReturnTypes DEF ProcessInv, EndTypes
<1>8. /\ \A v \in Threads : step'[v] = IF v = t THEN "call" ELSE step[v]
      /\ \A v \in Threads : pc'[v] = IF v = t THEN pc[v] + 1 ELSE pc[v]
      /\ \A v \in Threads : v # t => Here(v)' = Here(v)
  BY <1>1, <1>3 DEF Return, Here
<1>9. ASSUME NEW c \in Threads, NEW i \in 1 .. Len(program[c])
      PROVE  /\ program[c][i].type = "THREAD_PRE_CREATE"
                  => /\ Past(c, i, AfterCreate)' <=> Past(c, i, AfterCreate)
                     /\ Past(c, i, AfterInsert)' <=> Past(c, i, AfterInsert)
             /\ Past(c, i, {"remove"})' <=> Past(c, i, {"remove"})
  <2>1. i \in Nat \ {0} /\ pc[c] \in Nat
    BY <1>3
  <2>2. program[c][i].type = "THREAD_PRE_CREATE" => c # t \/ i # pc[t]
    BY <1>6 DEF Here
  <2>3. CASE c = t
    BY <1>1, <1>8, <2>1, <2>2, <2>3 DEF Past, AfterCreate, AfterInsert
  <2>4. CASE c # t
    BY <1>8, <2>4 DEF Past
  <2> QED
    BY <2>3, <2>4
<1>10. \A c, v, i : (Creates(c, i, v)' <=> Creates(c, i, v)) /\ (Joins(c, i, v)' <=> Joins(c, i, v))
  BY <1>1 DEF Creates, Joins
<1>11. /\ \A v \in Threads : step'[v] = "none"   <=> step[v] = "none"
       /\ \A v \in Threads : step'[v] = "joined" <=> step[v] = "joined"
       /\ \A v \in Threads : step'[v] = "ended"  <=> step[v] = "ended"
       /\ \A v \in Threads : step'[v] = "remove" <=> step[v] = "remove" /\ v # t
       /\ \A v \in Threads : Live(v)' <=> Live(v)
  BY <1>1, <1>8 DEF Live
<1>12. CreatedRight' /\ JoinedRight'
  <2>1. CreatedRight'
    BY <1>1, <1>9, <1>10, <1>11 DEF ProcessInv, CreatedRight, Creates
  <2>2. JoinedRight'
    BY <1>1, <1>9, <1>10, <1>11 DEF ProcessInv, JoinedRight
  <2> QED
    BY <2>1, <2>2
<1>13. HandlesApart'
  BY <1>1, <1>8, <1>11 DEF ProcessInv, HandlesApart
<1>14. TidsRight'
  <2>1. \A h \in Threads : tids'[h] # NoId => h # handle[u] /\ tids'[h] = tids[h]
    BY <1>3, <1>4
  <2>2. ASSUME NEW w \in Threads, handle[w] # handle[u],
               Live(w) \/ \E v \in Threads : step[v] = "remove" /\ Here(v).aux = w
        PROVE  (Live(w) \/ \E v \in Threads : step[v] = "remove" /\ Here(v).aux = w)'
    BY <1>2, <1>8, <1>11, <2>2
  <2>3. ASSUME NEW h \in Threads, tids'[h] # NoId
        PROVE  ( /\ tids[h] < nextTid
                 /\ \E w \in Threads : /\ handle[w] = h
                                       /\ Live(w) \/ \E v \in Threads : step[v] = "remove" /\ Here(v).aux = w )'
    BY <1>1, <1>4, <2>1, <2>2, <2>3 DEF ProcessInv, TidsRight
  <2> QED
    BY <2>1, <2>3 DEF ProcessInv, TidsRight
<1>15. NumbersRight'
  <2>1. \A v \in Threads : Started(v)' <=> Started(v)
    BY <1>1, <1>2, <1>3, <1>8 DEF Started
  <2>2. \A v \in Threads : Inserted(v)' <=> Inserted(v)
    BY <1>1, <1>9, <1>10 DEF Inserted, Creates
  <2>3. \A v \in Threads : Numbered(v)' <=> Numbered(v)
    BY <2>1, <2>2 DEF Numbered
  <2>4. \A v \in Threads : Live(v) => handle[v] \in Threads /\ handle[v] # handle[u]
    BY <1>1, <1>2 DEF ProcessInv, HandlesApart
  <2>5. \A v \in Threads : Live(v) => (Registered(v)' <=> Registered(v))
    BY <1>1, <1>3, <1>4, <2>4 DEF Registered, IdOf
  <2>6. {v \in Threads : Numbered(v)}' = {v \in Threads : Numbered(v)}
    BY <2>3
  <2> QED
    BY <1>4, <1>11, <2>3, <2>5, <2>6 DEF ProcessInv, NumbersRight
<1> QED
  BY <1>7, <1>12, <1>13, <1>14, <1>15 DEF ProcessInv

\* What the invariant of the process is about stays as it is.
LEMMA ProcessStays ==
  ASSUME ProcessInv,
         UNCHANGED <<program, pc, step, handle, objects, nextObj, tids, nextTid>>
  PROVE  ProcessInv'
<1>1. ProcessTypes'
  BY DEF ProcessInv, ProcessTypes
<1>2. StepsFit'
  BY DEF ProcessInv, StepsFit, Here
<1>3. SameThreads
  BY DEF SameThreads, Past
<1>4. \A t \in Threads : Numbered(t)' <=> Numbered(t)
  BY DEF Numbered, Started, Inserted, Creates, Past
<1> QED
  BY <1>1, <1>2, <1>3, <1>4, TablesStay

\* Every step of a thread.
LEMMA RunKeeps ==
  ASSUME ProcessInv, Orderly, NEW t \in Threads, RunThread(t)
  PROVE  ProcessInv'
<1>1. CASE ExitProcess(t) \/ ProcessAborts(t)
  BY <1>1, ProcessStays DEF ExitProcess, ProcessAborts, objectTable, threadTable
<1> QED
  BY <1>1, ObjectStepsKeep, StartKeeps, ReceiveKeeps, CreateKeeps, InsertCreatedKeeps,
     AnnounceCreatedKeeps, JoinKeeps, RemoveJoinedKeeps DEF RunThread

\* A program that has not started.
LEMMA BootingRight ==
  ASSUME program \in Programs, pc = Booting.pc, step = Booting.step, handle = Booting.handle,
         objects = Booting.objects, nextObj = 1, tids = Booting.tids, nextTid = 0
  PROVE  ProcessInv
<1>1. /\ pc = [t \in Threads |-> 1]
      /\ step = [t \in Threads |-> IF t = 0 THEN "call" ELSE "none"]
      /\ handle = [t \in Threads |-> IF t = 0 THEN 0 ELSE NoId]
      /\ objects = [a \in Addresses |-> NoId]
      /\ tids = [h \in Threads |-> NoId]
  BY DEF Booting
<1>2. 0 \in Threads /\ \A t \in Threads : Len(program[t]) \in Nat \ {0}
  BY ProgramShape, HandshakeAssumption DEF Threads
<1>3. ProcessTypes
  BY <1>1, <1>2 DEF ProcessTypes, Steps, NoId
<1>4. StepsFit
  BY <1>1 DEF StepsFit, AfterCreate
<1>5. \A c \in Threads : \A i \in 1 .. Len(program[c]) :
        ~Past(c, i, AfterCreate) /\ ~Past(c, i, AfterInsert) /\ ~Past(c, i, {"remove"})
  BY <1>1, <1>2 DEF Past, AfterCreate, AfterInsert
<1>6. CreatedRight
  <2>1. ASSUME NEW c \in Threads, NEW u \in Threads, NEW i \in 1 .. Len(program[c]), Creates(c, i, u)
        PROVE  step[u] = "none"
    BY <1>1, <2>1, NamedOnce
  <2> QED
    BY <1>5, <2>1 DEF CreatedRight
<1>7. JoinedRight
  BY <1>1, <1>5 DEF JoinedRight
<1>8. HandlesApart
  BY <1>1, <1>2 DEF HandlesApart, Live
<1>9. TidsRight
  BY <1>1 DEF TidsRight
<1>10. NumbersRight
  <2>1. \A t \in Threads : ~Numbered(t) /\ ~Registered(t)
    BY <1>1, <1>5 DEF Numbered, Started, Inserted, Registered, IdOf
  <2>2. {t \in Threads : Numbered(t)} = {}
    BY <2>1
  <2> QED
    BY <2>1, <2>2, FS_EmptySet DEF NumbersRight
<1> QED
  BY <1>3, <1>4, <1>6, <1>7, <1>8, <1>9, <1>10 DEF ProcessInv

----------------------------------------------------------------------------
(* The ids of threads.                                                     *)

\* No set of threads is larger than all of them.
LEMMA FewThreads ==
  ASSUME NEW S \in SUBSET Threads
  PROVE  Cardinality(S) <= MaxThreads
<1>1. IsFiniteSet(Threads) /\ Cardinality(Threads) = MaxThreads
  BY HandshakeAssumption, FS_Interval DEF Threads
<1> QED
  BY <1>1, FS_Subset

\* Ids are given once, and there are enough of them.
LEMMA IdsAreThreads ==
  ASSUME ProcessInv
  PROVE  /\ nextTid <= MaxThreads
         /\ \A t \in Threads : Present(t) => /\ IdOf(t) \in Threads /\ IdOf(t) < nextTid
                                             /\ Live(t) /\ Registered(t)
         /\ \A t, u \in Threads : Present(t) /\ Present(u) /\ IdOf(t) = IdOf(u) => t = u
<1>1. nextTid <= MaxThreads
  BY FewThreads DEF ProcessInv, NumbersRight
<1>2. ASSUME NEW t \in Threads, Present(t)
      PROVE  /\ IdOf(t) \in Threads /\ IdOf(t) < nextTid /\ Live(t) /\ Registered(t)
             /\ handle[t] \in Threads /\ IdOf(t) = tids[handle[t]]
  <2>1. Live(t) /\ Registered(t) /\ IdOf(t) # NoId
    BY <1>2 DEF Present, Live, Registered
  <2>2. handle[t] \in Threads /\ handle[t] # NoId
    BY <2>1 DEF ProcessInv, HandlesApart, Threads, NoId
  <2>3. IdOf(t) = tids[handle[t]] /\ IdOf(t) \in Nat
    BY <2>1, <2>2 DEF IdOf, ProcessInv, ProcessTypes
  <2>4. IdOf(t) < nextTid
    BY <2>1, <2>2, <2>3 DEF ProcessInv, TidsRight
  <2> QED
    BY <1>1, <2>1, <2>2, <2>3, <2>4, HandshakeAssumption DEF Threads, ProcessInv, ProcessTypes
<1>3. ASSUME NEW t \in Threads, NEW u \in Threads, Present(t), Present(u), IdOf(t) = IdOf(u)
      PROVE  t = u
  <2>1. handle[t] = handle[u]
    BY <1>2, <1>3 DEF ProcessInv, TidsRight, Present
  <2> QED
    BY <1>2, <1>3, <2>1 DEF ProcessInv, HandlesApart
<1> QED
  BY <1>1, <1>2, <1>3

\* A blocked thread, and the child a creator announces, has an id.
LEMMA BlockedHasId ==
  ASSUME ProcessInv, NEW t \in Threads, Blocked(t)
  PROVE  Live(t) /\ Registered(t) /\ Present(t)
<1>1. Live(t) /\ Numbered(t) /\ step[t] # "ended"
  BY DEF Blocked, Live, Numbered, Started
<1>2. Registered(t)
  BY <1>1 DEF ProcessInv, NumbersRight
<1> QED
  BY <1>1, <1>2 DEF Present, Live, Registered

\* A thread created is in the table once its creator has inserted it.
LEMMA ChildHasId ==
  ASSUME ProcessInv, Orderly, NEW t \in Threads, step[t] \in AfterInsert
  PROVE  Here(t).aux \in Threads \ {0} /\ Live(Here(t).aux) /\ Registered(Here(t).aux)
<1> DEFINE u == Here(t).aux
<1>1. Creates(t, pc[t], u) /\ u \in Threads \ {0} /\ pc[t] \in 1 .. Len(program[t])
  BY AtOperation DEF ProcessInv, AfterInsert, AfterCreate
<1>2. Live(u)
  BY <1>1, ChildStays DEF Live, AfterInsert, AfterCreate
<1>3. Inserted(u)
  BY <1>1 DEF Inserted, Past, AfterInsert
<1> QED
  BY <1>1, <1>2, <1>3 DEF ProcessInv, NumbersRight, Numbered

----------------------------------------------------------------------------
(* What a step of thread t does to the others.                             *)

\* No other thread is freed or blocked; an id stays with its thread, main's until
\* its end; a new one is the next; a thread that has ended remains so.
OthersStay(t) ==
  /\ program' = program
  /\ \A u \in Threads \ {t} :
       /\ Blocked(u)' <=> Blocked(u)
       /\ step[u] \notin {"none", "ended"} => step'[u] = step[u] /\ pc'[u] = pc[u]
  /\ \A u \in Threads : Live(u) /\ Registered(u) /\ (u # 0 \/ t # 0) => IdOf(u)' = IdOf(u)
  /\ \A u \in Threads : Present(u)' => \/ Present(u) /\ IdOf(u)' = IdOf(u)
                                       \/ IdOf(u)' = nextTid /\ nextTid' = nextTid + 1
  /\ \A u \in Threads : step[u] \in {"ended", "joined"} => step'[u] \in {"ended", "joined"}
  /\ nextTid' \in {nextTid, nextTid + 1}

\* A step of t alone that leaves the table of threads as it is, or inserts one.
LEMMA AloneStays ==
  ASSUME ProcessInv, NEW t \in Threads, program' = program, handle' = handle,
         \A u \in Threads \ {t} : step'[u] = step[u] /\ pc'[u] = pc[u],
         step[t] \notin {"none", "joined", "ended"},
         (tids' = tids /\ nextTid' = nextTid) \/ \E h \in Threads : InsertThread(h)
  PROVE  OthersStay(t)
<1>1. tids \in [Threads -> Nat \cup {NoId}] /\ handle \in [Threads -> Threads \cup {NoId}] /\ nextTid \in Nat
  BY DEF ProcessInv, ProcessTypes
<1>2. /\ \A h \in Threads : tids'[h] = tids[h] \/ (tids[h] = NoId /\ tids'[h] = nextTid /\ nextTid' = nextTid + 1)
      /\ nextTid' \in {nextTid, nextTid + 1}
  BY <1>1 DEF InsertThread, threadTable
<1>3. \A u \in Threads : IdOf(u)' = IdOf(u) \/ (IdOf(u) = NoId /\ IdOf(u)' = nextTid /\ nextTid' = nextTid + 1)
  BY <1>1, <1>2 DEF IdOf
<1>4. \A u \in Threads : step[u] = "none" \/ step[u] = "joined" => step'[u] = step[u]
  OBVIOUS
<1>5. \A u \in Threads : Present(u)' /\ IdOf(u)' = IdOf(u) => Present(u)
  BY <1>4 DEF Present
<1>6. \A u \in Threads : Registered(u) => IdOf(u)' = IdOf(u)
  BY <1>3 DEF Registered
<1>7. \A u \in Threads : Present(u)' => \/ Present(u) /\ IdOf(u)' = IdOf(u)
                                        \/ IdOf(u)' = nextTid /\ nextTid' = nextTid + 1
  BY <1>3, <1>5
<1>8. \A u \in Threads \ {t} : (Blocked(u)' <=> Blocked(u)) /\ step'[u] = step[u] /\ pc'[u] = pc[u]
  BY DEF Blocked
<1>9. \A u \in Threads : step[u] \in {"ended", "joined"} => step'[u] \in {"ended", "joined"}
  OBVIOUS
<1> QED
  BY <1>2, <1>6, <1>7, <1>8, <1>9 DEF OthersStay

\* And one that removes one that is no running thread's, or its own.
LEMMA RemovalStays ==
  ASSUME ProcessInv, NEW t \in Threads, program' = program, handle' = handle,
         \A u \in Threads \ {t} : step'[u] = step[u] /\ pc'[u] = pc[u],
         step[t] \notin {"none", "joined", "ended"},
         NEW h, RemoveThread(h), \A u \in Threads : Live(u) /\ handle[u] = h => u = 0 /\ t = 0
  PROVE  OthersStay(t)
<1>1. tids \in [Threads -> Nat \cup {NoId}] /\ handle \in [Threads -> Threads \cup {NoId}] /\ nextTid \in Nat
  BY DEF ProcessInv, ProcessTypes
<1>2. \A g \in Threads : tids'[g] = IF g = h THEN NoId ELSE tids[g]
  BY <1>1 DEF RemoveThread
<1>3. \A u \in Threads : IdOf(u)' = NoId \/ IdOf(u)' = IdOf(u)
  BY <1>1, <1>2 DEF IdOf
<1>4. \A u \in Threads : Live(u) /\ (u # 0 \/ t # 0) => IdOf(u)' = IdOf(u)
  BY <1>1, <1>2 DEF IdOf
<1>5. \A u \in Threads : Present(u)' => Present(u) /\ IdOf(u)' = IdOf(u)
  BY <1>3 DEF Present
<1>6. \A u \in Threads \ {t} : (Blocked(u)' <=> Blocked(u)) /\ step'[u] = step[u] /\ pc'[u] = pc[u]
  BY DEF Blocked
<1>7. \A u \in Threads : step[u] \in {"ended", "joined"} => step'[u] \in {"ended", "joined"}
  OBVIOUS
<1>8. nextTid' = nextTid
  BY DEF RemoveThread
<1> QED
  BY <1>4, <1>5, <1>6, <1>7, <1>8 DEF OthersStay

\* Every step of a thread, but the end of the process.
LEMMA RunStays ==
  ASSUME ProcessInv, Orderly, NEW t \in Threads, RunThread(t), ~ExitProcess(t), ~ProcessAborts(t)
  PROVE  OthersStay(t)
<1> USE DEF process, objectTable, threadTable, Runs, Calls
<1>1. /\ program \in Programs /\ pc \in [Threads -> Nat] /\ step \in [Threads -> Steps]
      /\ handle \in [Threads -> Threads \cup {NoId}]
      /\ tids \in [Threads -> Nat \cup {NoId}] /\ nextTid \in Nat
  BY DEF ProcessInv, ProcessTypes
<1>2. CASE \/ RegisterObject(t) \/ CheckObject(t) \/ AddUnknown(t) \/ ReadObject(t)
           \/ WriteUnseen(t) \/ UseObject(t) \/ InitObject(t) \/ DestroyMutex(t) \/ AnnounceCall(t)
           \/ AnnounceCreated(t)
  <2>1. /\ program' = program /\ handle' = handle /\ tids' = tids /\ nextTid' = nextTid
        /\ step[t] \notin {"none", "joined", "ended"}
    BY <1>2 DEF RegisterObject, CheckObject, AddUnknown, ReadObject, WriteUnseen, UseObject, InitObject,
                DestroyMutex, AnnounceCall, AnnounceCreated
  <2>2. \A u \in Threads \ {t} : step'[u] = step[u] /\ pc'[u] = pc[u]
    BY <1>1, <1>2 DEF RegisterObject, CheckObject, AddUnknown, ReadObject, WriteUnseen, UseObject, InitObject,
                      DestroyMutex, AnnounceCall, AnnounceCreated, GoTo, Return
  <2> QED
    BY <2>1, <2>2, AloneStays
<1>3. CASE StartThread(t)
  <2>1. handle[t] \in Threads
    BY <1>3 DEF StartThread, ProcessInv, HandlesApart, Live
  <2> QED
    BY <1>1, <1>3, <2>1, AloneStays DEF StartThread, GoTo
<1>4. CASE InsertCreated(t)
  <2>1. step[t] = "insert" /\ InsertThread(handle[Here(t).aux])
    BY <1>4 DEF InsertCreated
  <2>2. Here(t).aux \in Threads /\ Live(Here(t).aux)
    BY <2>1, AtOperation, ChildStays DEF ProcessInv, AfterCreate, Live
  <2>3. handle[Here(t).aux] \in Threads
    BY <2>2 DEF ProcessInv, HandlesApart
  <2> QED
    BY <1>1, <1>4, <2>1, <2>3, AloneStays DEF InsertCreated, GoTo
<1>5. CASE ReceivePermit(t)
  <2>1. program' = program /\ handle' = handle /\ step[t] \notin {"none", "joined", "ended"}
    BY <1>5 DEF ReceivePermit, HasPermit
  <2>2. \A u \in Threads \ {t} : step'[u] = step[u] /\ pc'[u] = pc[u]
    BY <1>1, <1>5 DEF ReceivePermit, GoTo, Return
  <2>3. (tids' = tids /\ nextTid' = nextTid) \/ (t = 0 /\ RemoveThread(handle[t]))
    BY <1>5 DEF ReceivePermit
  <2>4. \A u \in Threads : Live(u) /\ handle[u] = handle[t] => u = t
    BY <2>1 DEF ProcessInv, HandlesApart, Live
  <2>5. CASE tids' = tids /\ nextTid' = nextTid
    BY <2>1, <2>2, <2>5, AloneStays
  <2>6. CASE t = 0 /\ RemoveThread(handle[t])
    BY <2>1, <2>2, <2>4, <2>6, RemovalStays
  <2> QED
    BY <2>3, <2>5, <2>6
<1>6. CASE RemoveJoined(t)
  <2>1. /\ program' = program /\ handle' = handle /\ step[t] = "remove"
        /\ RemoveThread(handle[Here(t).aux]) /\ Return(t)
    BY <1>6 DEF RemoveJoined
  <2>2. \A u \in Threads : Live(u) => handle[u] # handle[Here(t).aux]
    BY <2>1 DEF ProcessInv, HandlesApart
  <2>3. \A u \in Threads \ {t} : step'[u] = step[u] /\ pc'[u] = pc[u]
    BY <1>1, <2>1 DEF Return
  <2> QED
    BY <2>1, <2>2, <2>3, RemovalStays
<1>7. CASE JoinThread(t)
  <2>1. /\ program' = program /\ handle' = handle /\ tids' = tids /\ nextTid' = nextTid /\ pc' = pc
        /\ step[t] = "join" /\ step[Here(t).aux] = "ended"
        /\ step' = [step EXCEPT ![Here(t).aux] = "joined", ![t] = "remove"]
    BY <1>7 DEF JoinThread
  <2>2. PICK v \in Threads : v = Here(t).aux /\ v # t
    BY <2>1, AtOperation DEF ProcessInv
  <2>3. \A u \in Threads : step'[u] = IF u = v THEN "joined" ELSE IF u = t THEN "remove" ELSE step[u]
    BY <1>1, <2>1, <2>2
  <2>4. \A u \in Threads : IdOf(u)' = IdOf(u)
    BY <2>1 DEF IdOf
  <2>5. \A u \in Threads : Present(u)' => Present(u)
    BY <2>1, <2>2, <2>3, <2>4 DEF Present
  <2>6. \A u \in Threads \ {t} : /\ Blocked(u)' <=> Blocked(u)
                                 /\ step[u] \notin {"none", "ended"} => step'[u] = step[u]
    <3>1. \A u \in Threads \ {t, v} : step'[u] = step[u]
      BY <2>3
    <3>2. step[v] = "ended" /\ step'[v] = "joined"
      BY <2>1, <2>2, <2>3
    <3> QED
      BY <3>1, <3>2 DEF Blocked
  <2>7. \A u \in Threads : step[u] \in {"ended", "joined"} => step'[u] \in {"ended", "joined"}
    BY <2>1, <2>2, <2>3
  <2> QED
    BY <2>1, <2>4, <2>5, <2>6, <2>7 DEF OthersStay
<1>8. CASE CreateThread(t)
  <2>1. PICK h \in NewHandles : handle' = [handle EXCEPT ![Here(t).aux] = h]
    BY <1>8 DEF CreateThread
  <2>2. /\ program' = program /\ tids' = tids /\ nextTid' = nextTid /\ step[t] = "create"
        /\ pc' = [pc EXCEPT ![Here(t).aux] = 1]
        /\ step' = [step EXCEPT ![Here(t).aux] = "call", ![t] = "insert"]
    BY <1>8 DEF CreateThread
  <2>3. PICK d \in Threads : d = Here(t).aux /\ d # t /\ step[d] = "none"
    BY <2>2, AtOperation, ChildStays DEF ProcessInv
  <2>4. h \in Threads /\ \A u \in Threads : Live(u) => handle[u] # h
    BY NewHandleIsNew
  <2>5. tids[h] = NoId
    BY <2>2, <2>4, CreateApart DEF ProcessInv, TidsRight
  <2>6. /\ \A u \in Threads : step'[u] = IF u = d THEN "call" ELSE IF u = t THEN "insert" ELSE step[u]
        /\ \A u \in Threads : pc'[u] = IF u = d THEN 1 ELSE pc[u]
        /\ \A u \in Threads : handle'[u] = IF u = d THEN h ELSE handle[u]
    BY <1>1, <2>1, <2>2, <2>3
  <2>7. \A u \in Threads : IdOf(u)' = IF u = d THEN NoId ELSE IdOf(u)
    BY <2>2, <2>4, <2>5, <2>6 DEF IdOf
  <2>8. \A u \in Threads : Present(u)' => Present(u) /\ IdOf(u)' = IdOf(u)
    BY <2>2, <2>6, <2>7 DEF Present
  <2>9. ~Live(d) /\ ~Blocked(d)
    BY <2>3 DEF Live, Blocked
  <2>10. \A u \in Threads \ {t} :
           /\ Blocked(u)' <=> Blocked(u)
           /\ step[u] \notin {"none", "ended"} => step'[u] = step[u] /\ pc'[u] = pc[u]
    BY <2>3, <2>6, <2>9 DEF Blocked
  <2>11. \A u \in Threads : step[u] \in {"ended", "joined"} => step'[u] \in {"ended", "joined"}
    BY <2>2, <2>3, <2>6
  <2> QED
    BY <2>2, <2>7, <2>8, <2>9, <2>10, <2>11 DEF OthersStay
<1> QED
  BY <1>2, <1>3, <1>4, <1>5, <1>6, <1>7, <1>8 DEF RunThread

----------------------------------------------------------------------------
(* Steps of the process and what is on its way.                            *)

\* A step of t changes nothing of what the others wait for.
LEMMA OthersWait ==
  ASSUME ProcessInv, Orderly, NEW t \in Threads, OthersStay(t), NEW u \in Threads \ {t}, Blocked(u)
  PROVE  /\ Blocked(u)' /\ Expected(u)' = Expected(u) /\ IdOf(u)' = IdOf(u)
         /\ \A e : IsAnnouncement(u, e)' <=> IsAnnouncement(u, e)
<1>1. step'[u] = step[u] /\ pc'[u] = pc[u] /\ program' = program
  BY DEF OthersStay, Blocked
<1>2. Here(u)' = Here(u) /\ Expected(u)' = Expected(u) /\ Blocked(u)'
  BY <1>1 DEF Here, Expected, Blocked
<1>3. IdOf(u)' = IdOf(u)
  BY BlockedHasId DEF OthersStay
<1>4. step[u] = "created" => IdOf(Here(u).aux)' = IdOf(Here(u).aux)
  <2>1. ASSUME step[u] = "created", NEW v, v = Here(u).aux
        PROVE  IdOf(v)' = IdOf(v)
    <3>1. v \in Threads \ {0} /\ Live(v) /\ Registered(v)
      BY <2>1, ChildHasId DEF AfterInsert
    <3> QED
      BY <3>1 DEF OthersStay
  <2> QED
    BY <1>2, <2>1 DEF IdOf
<1>5. \A e : IsAnnouncement(u, e)' <=> IsAnnouncement(u, e)
  BY <1>1, <1>2, <1>3, <1>4 DEF IsAnnouncement
<1> QED
  BY <1>2, <1>3, <1>5

\* The events with the scheduler stay there while t has none with it.
LEMMA ParkedStay ==
  ASSUME Inv, Orderly, NEW t \in Threads, OthersStay(t), socketOf' = socketOf,
         \A u \in Threads \ {t} : toSched'[u] = toSched[u] /\ toThread'[u] = toThread[u],
         ~Blocked(t) \/ toThread[t] # <<>>,
         NEW e, Parked(e)
  PROVE  Parked(e)'
<1> DEFINE s == socketOf[e.tid]
<1>1. e.tid \in Threads /\ s \in Threads /\ s # t /\ Blocked(s) /\ IdOf(s) = e.tid
      /\ toSched[s] = <<>> /\ toThread[s] = <<>> /\ e.type = Expected(s)
  BY DEF Parked
<1>2. \A u \in Threads \ {t} : Blocked(u) => Blocked(u)' /\ Expected(u)' = Expected(u) /\ IdOf(u)' = IdOf(u)
  BY OthersWait DEF Inv
<1>3. PICK u \in Threads \ {t} : u = s
  BY <1>1
<1>4. Blocked(u)' /\ Expected(u)' = Expected(u) /\ IdOf(u)' = IdOf(u)
      /\ toSched'[u] = <<>> /\ toThread'[u] = <<>>
  BY <1>1, <1>2, <1>3
<1>5. socketOf'[e.tid] = u
  BY <1>3
<1> QED
  BY <1>1, <1>3, <1>4, <1>5 DEF Parked

\* Before its first event main starts or the process is gone.
LEMMA BootStays ==
  ASSUME Inv, Orderly, NEW t \in Threads, RunThread(t), OthersStay(t)
  PROVE  BootRight'
<1> USE DEF Runs, Calls, process, channels, scheduler, events, objectTable, threadTable
<1>1. 0 \in Threads
  BY HandshakeAssumption DEF Threads
<1>2. mode' = mode /\ buffer' = buffer
  BY DEF RunThread, StartThread, RegisterObject, CheckObject, AddUnknown, ReadObject, WriteUnseen, UseObject,
         InitObject, DestroyMutex, AnnounceCall, ReceivePermit, CreateThread, InsertCreated, AnnounceCreated,
         JoinThread, RemoveJoined, ExitProcess, ProcessAborts
<1>3. ASSUME mode = "boot"
      PROVE  pc'[0] = 1 /\ step'[0] \in {"call", "permit"} /\ toThread'[0] = <<>>
  <2>1. pc[0] = 1 /\ step[0] \in {"call", "permit"} /\ toThread[0] = <<>>
    BY <1>3 DEF Inv, ChannelInv, BootRight
  <2>2. CASE t # 0
    <3>1. pc'[0] = 1 /\ step'[0] \in {"call", "permit"}
      BY <1>1, <2>1, <2>2 DEF OthersStay
    <3>2. toThread'[0] = toThread[0]
      <4>1. toThread' = toThread \/ toThread' = [toThread EXCEPT ![t] = Tail(@)]
        BY DEF RunThread, StartThread, RegisterObject, CheckObject, AddUnknown, ReadObject, WriteUnseen,
               UseObject, InitObject, DestroyMutex, AnnounceCall, ReceivePermit, CreateThread,
               InsertCreated, AnnounceCreated, JoinThread, RemoveJoined, ExitProcess, ProcessAborts
      <4> QED
        BY <1>1, <2>2, <4>1 DEF Inv, ChannelInv, SchedulerTypes
    <3> QED
      BY <2>1, <3>1, <3>2
  <2>3. CASE t = 0
    <3>1. Here(0).type = "THREAD_START"
      BY <1>1, <2>1, ProgramShape DEF Inv, ProcessInv, ProcessTypes, Here
    <3>2. StartThread(0) \/ ExitProcess(0) \/ ProcessAborts(0)
      BY <2>1, <2>3, <3>1 DEF RunThread, RegisterObject, CheckObject, AddUnknown, ReadObject, WriteUnseen,
         UseObject, UseTypes, InitObject, InitTypes, DestroyMutex, AnnounceCall, CallTypes, ReceivePermit,
         HasPermit, CreateThread, InsertCreated, AnnounceCreated, JoinThread, RemoveJoined
    <3>3. pc' = pc /\ toThread' = toThread /\ (step' = [step EXCEPT ![0] = "permit"] \/ step' = step)
      BY <3>2 DEF StartThread, ExitProcess, ProcessAborts, GoTo
    <3> QED
      BY <1>1, <2>1, <3>3 DEF Inv, ProcessInv, ProcessTypes
  <2> QED
    BY <2>2, <2>3
<1> QED
  BY <1>2, <1>3 DEF Inv, ChannelInv, BootRight

\* The other half of the invariant, for a step of t that leaves everything but
\* what t itself sends and receives alone.
LEMMA ThreadStepKeeps ==
  ASSUME Inv, Orderly, ProcessInv', NEW t \in Threads, OthersStay(t), BootRight', UNCHANGED scheduler,
         status = "running", status' = status,
         link' \in [Threads -> Links],
         \A u \in Threads : link'[u] \in {"shut", "removed"} =>
           link[u] \in {"shut", "removed"} \/ step'[u] = "ended",
         \A u \in Threads \ {t} : toSched'[u] = toSched[u] /\ toThread'[u] = toThread[u],
         ~Blocked(t) \/ toThread[t] # <<>>,
         toSched' \in [Threads -> Seq(Events)],
         toThread' \in [Threads -> Seq(EventKinds \cup {"SYMM_POINT"})],
         toThread'[t] = <<>>,
         toSched'[t] = <<>> \/ \E e : toSched'[t] = <<e>> /\ Blocked(t)' /\ IsAnnouncement(t, e)'
  PROVE  Inv'
<1> USE DEF scheduler, events
<1>1. SchedulerTypes'
  BY DEF Inv, ChannelInv, SchedulerTypes
<1>2. EventsRight'
  <2>1. ASSUME NEW u \in Threads \ {t}, toSched'[u] # <<>>
        PROVE  ( /\ Blocked(u) /\ toThread[u] = <<>>
                 /\ toSched[u] = <<toSched[u][1]>> /\ IsAnnouncement(u, toSched[u][1]) )'
    <3>1. /\ Blocked(u) /\ toThread[u] = <<>>
          /\ toSched[u] = <<toSched[u][1]>> /\ IsAnnouncement(u, toSched[u][1])
      BY <2>1 DEF Inv, ChannelInv, EventsRight
    <3> QED
      BY <3>1, OthersWait DEF Inv
  <2>2. ASSUME toSched'[t] # <<>>
        PROVE  ( /\ Blocked(t) /\ toThread[t] = <<>>
                 /\ toSched[t] = <<toSched[t][1]>> /\ IsAnnouncement(t, toSched[t][1]) )'
    <3>1. PICK e : toSched'[t] = <<e>> /\ Blocked(t)' /\ IsAnnouncement(t, e)'
      BY <2>2
    <3>2. toSched'[t][1] = e
      BY <3>1
    <3> QED
      BY <3>1, <3>2
  <2> QED
    BY <2>1, <2>2 DEF EventsRight
<1>3. PermitsRight'
  <2>1. ASSUME NEW u \in Threads \ {t}, toThread'[u] # <<>>
        PROVE  (Blocked(u) /\ toThread[u] = <<Expected(u)>>)'
    <3>1. Blocked(u) /\ toThread[u] = <<Expected(u)>>
      BY <2>1 DEF Inv, ChannelInv, PermitsRight
    <3> QED
      BY <3>1, OthersWait DEF Inv
  <2> QED
    BY <2>1 DEF PermitsRight
<1>4. SocketsRight'
  <2>1. nextTid \in Nat /\ nextTid' \in {nextTid, nextTid + 1}
    BY DEF Inv, ProcessInv, ProcessTypes, OthersStay
  <2>2. \A i \in Threads : socketOf[i] # NoId => i < nextTid
    BY DEF Inv, ChannelInv, SocketsRight
  <2>3. ASSUME NEW u \in Threads, Present(u)'
        PROVE  socketOf'[IdOf(u)'] \in {u, NoId}
    <3>1. CASE Present(u) /\ IdOf(u)' = IdOf(u)
      BY <3>1 DEF Inv, ChannelInv, SocketsRight
    <3>2. nextTid' <= MaxThreads
      <4>1. nextTid' = Cardinality({v \in Threads : Numbered(v)'})
        BY DEF ProcessInv, NumbersRight
      <4> QED
        BY <4>1, FewThreads
    <3>3. CASE IdOf(u)' = nextTid /\ nextTid' = nextTid + 1
      <4>1. nextTid \in Threads
        BY <2>1, <3>2, <3>3, HandshakeAssumption DEF Threads
      <4>2. ~(socketOf[nextTid] # NoId)
        BY <2>1, <2>2, <4>1
      <4> QED
        BY <3>3, <4>2
    <3> QED
      BY <2>3, <3>1, <3>3 DEF OthersStay
  <2>4. \A i \in Threads : i \in Nat
    BY DEF Threads
  <2> QED
    BY <2>1, <2>2, <2>3, <2>4 DEF SocketsRight
<1>5. TokensRight'
  <2>1. Held' = Held /\ buffer' = buffer /\ (Top.p)' = Top.p /\ mode' = mode /\ kept' = kept
    BY DEF Held, Top
  <2>2. \A e \in buffer \cup Held : Parked(e)'
    BY ParkedStay DEF Inv, ChannelInv, TokensRight
  <2> QED
    BY <2>1, <2>2 DEF Inv, ChannelInv, TokensRight
<1>6. LinksRight'
  BY DEF Inv, ChannelInv, LinksRight, OthersStay
<1> QED
  BY <1>1, <1>2, <1>3, <1>4, <1>5, <1>6 DEF Inv, ChannelInv

\* A thread announces e, which is what it waits for from then on.
Announces(t, e) ==
  /\ e \in Events
  /\ ~Blocked(t) /\ Blocked(t)' /\ IsAnnouncement(t, e)'
  /\ toSched' = [toSched EXCEPT ![t] = Append(@, e)]
  /\ toThread' = toThread

\* The event of the operation a thread is at is one.
LEMMA EventOfType ==
  ASSUME ProcessInv, NEW t \in Threads, Here(t).type # "OBJ_REG"
  PROVE  EventOf(t) \in Events
<1> DEFINE o == Here(t)
<1>1. /\ objects \in [Addresses -> Int] /\ handle \in [Threads -> Threads \cup {NoId}]
      /\ tids \in [Threads -> Nat \cup {NoId}] /\ NoId \in Int
  BY DEF ProcessInv, ProcessTypes, NoId
<1>2. o \in Operation /\ pc[t] \in 1 .. Len(program[t])
  BY AtOperation DEF ProcessInv
<1>3. /\ o.type \in CondTypes  => o.aux \in Addresses
      /\ o.type = "THREAD_JOIN" => o.aux \in Threads
  BY <1>2, ProgramShape DEF ProcessInv, ProcessTypes, Here, NamingTypes
<1>4. \A u \in Threads : IdOf(u) \in Nat \cup {NoId}
  BY <1>1 DEF IdOf
<1>5. EventOf(t).type \in EventKinds
  BY <1>2 DEF EventOf, Ev, Operation, OpTypes, EventKinds, EventTypes, ThreadTypes
<1>6. EventOf(t).obj \in Int
  BY <1>1, <1>2 DEF EventOf, Ev, Operation
<1>7. EventOf(t).aux \in Int
  BY <1>1, <1>3, <1>4 DEF EventOf, Ev
<1>8. EventOf(t).tid \in Nat \cup {NoId}
  BY <1>4 DEF EventOf, Ev
<1> QED
  BY <1>5, <1>6, <1>7, <1>8 DEF EventOf, Ev, Events

\* It is an announcement of a registered thread that stops there.
LEMMA EventOfAnnounces ==
  ASSUME ProcessInv, NEW t \in Threads, Here(t).type # "OBJ_REG", Registered(t), step[t] \in {"call", "read"},
         UNCHANGED <<program, pc, handle, threadTable, toThread>>,
         Announce(t, EventOf(t)), GoTo(t, "permit")
  PROVE  Announces(t, EventOf(t))
<1>1. step'[t] = "permit" /\ Here(t)' = Here(t) /\ IdOf(t)' = IdOf(t)
  BY DEF GoTo, ProcessInv, ProcessTypes, Here, IdOf, threadTable
<1>2. Expected(t)' = IF Here(t).type = "EXIT" THEN "THREAD_END" ELSE Here(t).type
  BY <1>1 DEF Expected
<1>3. \A e : e = EventOf(t) => IsAnnouncement(t, e)'
  BY <1>1, <1>2 DEF IsAnnouncement, EventOf, Ev, Registered
<1>4. \A e : e = EventOf(t) => Announces(t, e)
  BY <1>1, <1>3, EventOfType DEF Announces, Announce, Blocked
<1> QED
  BY <1>4

\* What a thread announces, and when.
LEMMA Announcements ==
  ASSUME ProcessInv, Orderly, NEW t \in Threads,
         \/ StartThread(t) \/ ReadObject(t) \/ UseObject(t) \/ InitObject(t)
         \/ DestroyMutex(t) \/ AnnounceCall(t) \/ AnnounceCreated(t)
  PROVE  \E e : Announces(t, e)
<1> USE DEF Runs, Calls, process, objectTable, threadTable
<1>1. /\ step \in [Threads -> Steps] /\ handle \in [Threads -> Threads \cup {NoId}]
      /\ tids \in [Threads -> Nat \cup {NoId}] /\ nextTid \in Nat /\ nextObj \in Int
      /\ NoId \notin Nat /\ NoId \in Int
  BY DEF ProcessInv, ProcessTypes, NoId
<1>2. CASE ReadObject(t) \/ UseObject(t) \/ DestroyMutex(t) \/ AnnounceCall(t)
  <2>1. /\ Registered(t) /\ step[t] \in {"call", "read"}
        /\ UNCHANGED <<program, pc, handle, threadTable, toThread>>
        /\ Announce(t, EventOf(t)) /\ GoTo(t, "permit")
    BY <1>2 DEF ReadObject, UseObject, DestroyMutex, AnnounceCall
  <2>2. Here(t).type # "OBJ_REG"
    BY <1>2 DEF ReadObject, UseObject, UseTypes, DestroyMutex, AnnounceCall, CallTypes, ProcessInv, StepsFit
  <2> QED
    BY <2>1, <2>2, EventOfAnnounces
<1>3. CASE InitObject(t)
  <2> DEFINE e == IF Here(t).type = "COND_INIT" THEN Ev("COND_INIT", IdOf(t), NoId, nextObj)
                                                ELSE Ev(Here(t).type, IdOf(t), nextObj, NoId)
  <2>1. /\ Registered(t) /\ step[t] = "call" /\ Here(t).type \in InitTypes
        /\ UNCHANGED <<program, pc, handle, threadTable, toThread>>
        /\ Announce(t, e) /\ step' = [step EXCEPT ![t] = "permit"]
    BY <1>3 DEF InitObject, GoTo
  <2>2. step'[t] = "permit" /\ Here(t)' = Here(t) /\ IdOf(t)' = IdOf(t)
    BY <1>1, <2>1 DEF Here, IdOf
  <2>3. IdOf(t) \in Nat
    BY <1>1, <2>1 DEF IdOf, Registered
  <2>4. e \in Events /\ e.type = Here(t).type /\ e.tid = IdOf(t)
    BY <1>1, <2>1, <2>3 DEF Events, Ev, InitTypes, EventKinds, EventTypes, MutexTypes, CondTypes, RwlockTypes
  <2>5. \A f : f = e => IsAnnouncement(t, f)'
    BY <1>1, <2>1, <2>2, <2>3, <2>4 DEF IsAnnouncement, Expected, InitTypes
  <2>6. \A f : f = e => Announces(t, f)
    BY <2>1, <2>2, <2>4, <2>5 DEF Announces, Announce, Blocked
  <2> QED
    BY <2>6
<1>4. CASE StartThread(t)
  <2> DEFINE i == tids'[handle[t]]
             e == Ev("THREAD_START", i, NoId, NoId)
  <2>1. /\ step[t] = "call" /\ Here(t).type = "THREAD_START"
        /\ UNCHANGED <<program, pc, handle, toThread>>
        /\ Announce(t, e) /\ step' = [step EXCEPT ![t] = "permit"]
        /\ InsertThread(handle[t])
    BY <1>4 DEF StartThread, GoTo
  <2>2. step'[t] = "permit" /\ Here(t)' = Here(t)
    BY <1>1, <2>1 DEF Here
  <2>3. handle[t] \in Threads /\ handle[t] # NoId
    BY <2>1 DEF ProcessInv, HandlesApart, Live, Threads, NoId
  <2>4. i \in Nat
    BY <1>1, <2>1, <2>3 DEF InsertThread
  <2>5. IdOf(t)' = i
    BY <2>1, <2>3 DEF IdOf
  <2>6. e \in Events /\ e.type = "THREAD_START" /\ e.tid = i
    BY <1>1, <2>4 DEF Events, Ev, EventKinds, EventTypes, ThreadTypes
  <2>7. \A f : f = e => IsAnnouncement(t, f)'
    BY <1>1, <2>1, <2>2, <2>4, <2>5, <2>6 DEF IsAnnouncement, Expected
  <2>8. \A f : f = e => Announces(t, f)
    BY <2>1, <2>2, <2>6, <2>7 DEF Announces, Announce, Blocked
  <2> QED
    BY <2>8
<1>5. CASE AnnounceCreated(t)
  <2> DEFINE u == Here(t).aux
             e == Ev("THREAD_POST_CREATE", IdOf(t), NoId, IdOf(u))
  <2>1. /\ step[t] = "post"
        /\ UNCHANGED <<program, pc, handle, threadTable, toThread>>
        /\ Announce(t, e) /\ step' = [step EXCEPT ![t] = "created"]
    BY <1>5 DEF AnnounceCreated, GoTo
  <2>2. step'[t] = "created" /\ Here(t)' = Here(t) /\ IdOf(t)' = IdOf(t) /\ IdOf(u)' = IdOf(u)
    BY <1>1, <2>1 DEF Here, IdOf
  <2>3. Live(t) /\ Numbered(t) /\ step[t] # "ended"
    BY <2>1 DEF Live, Numbered, Started
  <2>4. IdOf(t) # NoId
    BY <2>3 DEF ProcessInv, NumbersRight, Registered
  <2>5. IdOf(t) \in Nat
    BY <1>1, <2>4 DEF IdOf
  <2>6. u \in Threads /\ Registered(u)
    BY <2>1, ChildHasId DEF AfterInsert
  <2>7. IdOf(u) \in Nat
    BY <1>1, <2>6 DEF IdOf, Registered
  <2>8. e \in Events /\ e.type = "THREAD_POST_CREATE" /\ e.tid = IdOf(t) /\ e.aux = IdOf(u)
    BY <1>1, <2>5, <2>7 DEF Events, Ev, EventKinds
  <2>9. Here(t).type = "THREAD_PRE_CREATE"
    BY <2>1 DEF ProcessInv, StepsFit, AfterCreate
  <2>10. \A f : f = e => IsAnnouncement(t, f)'
    BY <1>1, <2>1, <2>2, <2>5, <2>8, <2>9 DEF IsAnnouncement, Expected
  <2>11. \A f : f = e => Announces(t, f)
    BY <2>1, <2>2, <2>8, <2>10 DEF Announces, Announce, Blocked
  <2> QED
    BY <2>11
<1> QED
  BY <1>2, <1>3, <1>4, <1>5

\* A thread that is not blocked has nothing on its way.
LEMMA NothingOnItsWay ==
  ASSUME Inv, NEW t \in Threads
  PROVE  /\ ~Blocked(t) => toSched[t] = <<>> /\ toThread[t] = <<>>
         /\ toThread[t] # <<>> => toSched[t] = <<>> /\ toThread[t] = <<Expected(t)>>
BY DEF Inv, ChannelInv, EventsRight, PermitsRight

\* A thread that announces.
LEMMA AnnouncingKeeps ==
  ASSUME Inv, Orderly, NEW t \in Threads, RunThread(t),
         \/ StartThread(t) \/ ReadObject(t) \/ UseObject(t) \/ InitObject(t)
         \/ DestroyMutex(t) \/ AnnounceCall(t) \/ AnnounceCreated(t)
  PROVE  Inv'
<1> USE DEF Runs, Calls, process, channels
<1>1. PICK e : Announces(t, e)
  BY Announcements DEF Inv
<1>2. /\ toSched \in [Threads -> Seq(Events)] /\ link \in [Threads -> Links]
      /\ toThread \in [Threads -> Seq(EventKinds \cup {"SYMM_POINT"})]
  BY DEF Inv, ChannelInv, SchedulerTypes
<1>3. status = "running" /\ status' = status /\ UNCHANGED scheduler
      /\ (link' = link \/ link' = [link EXCEPT ![t] = "backlog"])
      /\ step[t] \in {"call", "read", "post"}
  BY DEF StartThread, ReadObject, UseObject, InitObject, DestroyMutex, AnnounceCall, AnnounceCreated, Register
<1>4. ~ExitProcess(t) /\ ~ProcessAborts(t)
  BY <1>3 DEF ExitProcess, ProcessAborts
<1>5. OthersStay(t) /\ ProcessInv' /\ BootRight'
  BY <1>4, RunStays, RunKeeps, BootStays DEF Inv
<1>6. toSched[t] = <<>> /\ toThread[t] = <<>>
  BY <1>1, NothingOnItsWay DEF Announces
<1>7. /\ link' \in [Threads -> Links]
      /\ \A u \in Threads : link'[u] \in {"shut", "removed"} => link[u] \in {"shut", "removed"}
  BY <1>2, <1>3 DEF Links
<1>8. /\ toSched' \in [Threads -> Seq(Events)] /\ toSched'[t] = <<e>>
      /\ \A u \in Threads \ {t} : toSched'[u] = toSched[u]
  BY <1>1, <1>2, <1>6 DEF Announces
<1> QED
  BY <1>1, <1>2, <1>3, <1>5, <1>6, <1>7, <1>8, ThreadStepKeeps DEF Announces

\* A thread that neither sends nor receives.
LEMMA QuietKeeps ==
  ASSUME Inv, Orderly, NEW t \in Threads, RunThread(t),
         \/ RegisterObject(t) \/ CheckObject(t) \/ AddUnknown(t) \/ WriteUnseen(t) \/ CreateThread(t)
         \/ InsertCreated(t) \/ JoinThread(t) \/ RemoveJoined(t)
  PROVE  Inv'
<1> USE DEF Runs, Calls, process, channels
<1>1. /\ toSched \in [Threads -> Seq(Events)] /\ link \in [Threads -> Links]
      /\ toThread \in [Threads -> Seq(EventKinds \cup {"SYMM_POINT"})]
  BY DEF Inv, ChannelInv, SchedulerTypes
<1>2. status = "running" /\ status' = status /\ UNCHANGED scheduler /\ UNCHANGED channels
      /\ step[t] \notin {"permit", "created", "ended"}
  BY DEF RegisterObject, CheckObject, AddUnknown, WriteUnseen, CreateThread, InsertCreated, JoinThread, RemoveJoined
<1>3. ~ExitProcess(t) /\ ~ProcessAborts(t)
  BY <1>2 DEF ExitProcess, ProcessAborts
<1>4. OthersStay(t) /\ ProcessInv' /\ BootRight'
  BY <1>3, RunStays, RunKeeps, BootStays DEF Inv
<1>5. ~Blocked(t)
  BY <1>2 DEF Blocked
<1>6. toSched[t] = <<>> /\ toThread[t] = <<>>
  BY <1>5, NothingOnItsWay
<1> QED
  BY <1>1, <1>2, <1>4, <1>5, <1>6, ThreadStepKeeps

\* A thread that gets its permit.
LEMMA PermittedKeeps ==
  ASSUME Inv, Orderly, NEW t \in Threads, RunThread(t), ReceivePermit(t)
  PROVE  Inv'
<1> USE DEF Runs, Calls, process, channels
<1>1. /\ toSched \in [Threads -> Seq(Events)] /\ link \in [Threads -> Links]
      /\ toThread \in [Threads -> Seq(EventKinds \cup {"SYMM_POINT"})]
      /\ step \in [Threads -> Steps]
  BY DEF Inv, ChannelInv, SchedulerTypes, ProcessInv, ProcessTypes
<1>2. status = "running" /\ status' = status /\ UNCHANGED scheduler /\ toSched' = toSched
      /\ step[t] \in {"permit", "created"} /\ toThread[t] # <<>> /\ Head(toThread[t]) = Expected(t)
      /\ toThread' = [toThread EXCEPT ![t] = Tail(@)]
      /\ (link' = link \/ (link' = [link EXCEPT ![t] = "shut"] /\ GoTo(t, "ended")))
  BY DEF ReceivePermit, HasPermit
<1>3. ~ExitProcess(t) /\ ~ProcessAborts(t)
  BY <1>2 DEF ExitProcess, ProcessAborts
<1>4. OthersStay(t) /\ ProcessInv' /\ BootRight'
  BY <1>3, RunStays, RunKeeps, BootStays DEF Inv
<1>5. toSched[t] = <<>> /\ toThread[t] = <<Expected(t)>>
  BY <1>2, NothingOnItsWay
<1>6. toThread' = [toThread EXCEPT ![t] = <<>>]
  BY <1>1, <1>2, <1>5
<1>7. /\ toThread' \in [Threads -> Seq(EventKinds \cup {"SYMM_POINT"})] /\ toThread'[t] = <<>>
      /\ \A u \in Threads \ {t} : toThread'[u] = toThread[u]
  BY <1>1, <1>6
<1>8. /\ link' \in [Threads -> Links]
      /\ \A u \in Threads : link'[u] \in {"shut", "removed"} => link[u] \in {"shut", "removed"} \/ step'[u] = "ended"
  BY <1>1, <1>2 DEF Links, GoTo
<1> QED
  BY <1>1, <1>2, <1>4, <1>5, <1>7, <1>8, ThreadStepKeeps

\* The end of the process shuts its sockets, and nothing else.
LEMMA EndingKeeps ==
  ASSUME Inv, NEW t \in Threads, ExitProcess(t) \/ ProcessAborts(t)
  PROVE  Inv'
<1> USE DEF objectTable, threadTable, scheduler, events
<1>1. /\ UNCHANGED <<program, pc, step, handle, objects, nextObj, tids, nextTid>>
      /\ UNCHANGED <<toSched, toThread, stack, buffer, informed, socketOf, mode, kept, done, unmatched, runs>>
      /\ status' \in {"exited", "aborted"} /\ link' = ShutSockets
  BY DEF ExitProcess, ProcessAborts
<1>2. ProcessInv'
  BY <1>1, ProcessStays DEF Inv
<1>3. /\ \A u \in Threads : /\ Here(u)' = Here(u) /\ Expected(u)' = Expected(u) /\ IdOf(u)' = IdOf(u)
                            /\ Blocked(u)' <=> Blocked(u)
                            /\ Present(u)' <=> Present(u)
      /\ \A u \in Threads : IdOf(Here(u).aux)' = IdOf(Here(u).aux)
  BY <1>1 DEF Here, Expected, IdOf, Blocked, Present
<1>4. link \in [Threads -> Links]
  BY DEF Inv, ChannelInv, SchedulerTypes
<1>5. /\ link' \in [Threads -> Links]
      /\ \A u \in Threads : link'[u] \notin {"backlog", "open"}
  BY <1>1, <1>4 DEF ShutSockets, Links
<1>6. SchedulerTypes'
  BY <1>1, <1>5 DEF Inv, ChannelInv, SchedulerTypes
<1>7. EventsRight' /\ PermitsRight'
  <2>1. \A u \in Threads : \A e : IsAnnouncement(u, e)' <=> IsAnnouncement(u, e)
    BY <1>1, <1>3 DEF IsAnnouncement
  <2> QED
    BY <1>1, <1>3, <2>1 DEF Inv, ChannelInv, EventsRight, PermitsRight
<1>8. SocketsRight' /\ LinksRight' /\ BootRight'
  BY <1>1, <1>3, <1>5 DEF Inv, ChannelInv, SocketsRight, LinksRight, BootRight
<1>9. TokensRight'
  <2>1. \A e : Parked(e)' <=> Parked(e)
    BY <1>1, <1>3 DEF Parked
  <2>2. Held' = Held /\ (Top.p)' = Top.p
    BY <1>1 DEF Held, Top
  <2> QED
    BY <1>1, <2>1, <2>2 DEF Inv, ChannelInv, TokensRight
<1> QED
  BY <1>2, <1>6, <1>7, <1>8, <1>9 DEF Inv, ChannelInv

\* Every step of the process.
LEMMA ProcessStepKeeps ==
  ASSUME Inv, Orderly, NEW t \in Threads, RunThread(t)
  PROVE  Inv'
BY AnnouncingKeeps, QuietKeeps, PermittedKeeps, EndingKeeps DEF RunThread

----------------------------------------------------------------------------
(* Steps of the scheduler.                                                 *)

\* While no thread runs they wait for the same.
LEMMA NobodyRuns ==
  ASSUME UNCHANGED <<program, pc, step, handle, objects, nextObj, tids, nextTid>>
  PROVE  /\ \A u \in Threads : /\ Here(u)' = Here(u) /\ Expected(u)' = Expected(u) /\ IdOf(u)' = IdOf(u)
                               /\ Blocked(u)' <=> Blocked(u)
                               /\ Present(u)' <=> Present(u)
         /\ \A u \in Threads : \A e : IsAnnouncement(u, e)' <=> IsAnnouncement(u, e)
<1>1. /\ \A u \in Threads : /\ Here(u)' = Here(u) /\ Expected(u)' = Expected(u) /\ IdOf(u)' = IdOf(u)
                            /\ Blocked(u)' <=> Blocked(u)
                            /\ Present(u)' <=> Present(u)
      /\ \A u \in Threads : IdOf(Here(u).aux)' = IdOf(Here(u).aux)
  BY DEF Here, Expected, IdOf, Blocked, Present
<1> QED
  BY <1>1 DEF IsAnnouncement

\* The types of the stack.
StackRight == stack \in Seq(StackStates) /\ \A k \in 1 .. Len(stack) : OnePer(stack[k].p)

\* The last one has a pair of sets of its own.
LEMMA TopIsState ==
  ASSUME StackRight, stack # <<>>
  PROVE  /\ Len(stack) \in Nat \ {0} /\ Top \in StackStates /\ Top = stack[Len(stack)]
         /\ Top.p \in PairsOver(Events) /\ OnePer(Top.p) /\ PendingIn(Top.p) \subseteq Events
<1>1. Len(stack) \in Nat \ {0} /\ Len(stack) \in 1 .. Len(stack)
  BY DEF StackRight
<1>2. Top \in StackStates
  BY <1>1 DEF StackRight, Top
<1> QED
  BY <1>1, <1>2 DEF StackRight, Top, StackStates, PairsOver, PendingIn

\* One state of the stack is changed.
LEMMA StackChanges ==
  ASSUME StackRight, stack # <<>>, NEW k \in 1 .. Len(stack), NEW s \in StackStates, OnePer(s.p),
         stack' = [stack EXCEPT ![k] = s]
  PROVE  /\ StackRight' /\ stack' # <<>>
         /\ Top' = IF k = Len(stack) THEN s ELSE Top
<1>1. /\ Len(stack) \in Nat \ {0} /\ stack' \in Seq(StackStates) /\ Len(stack') = Len(stack)
      /\ \A j \in 1 .. Len(stack) : stack'[j] = IF j = k THEN s ELSE stack[j]
  BY DEF StackRight
<1>2. \A j \in 1 .. Len(stack') : OnePer(stack'[j].p)
  BY <1>1 DEF StackRight
<1>3. StackRight'
  BY <1>1, <1>2 DEF StackRight
<1>4. Len(<<>>) = 0
  OBVIOUS
<1>5. stack' # <<>>
  BY <1>1, <1>4
<1>6. Len(stack) \in 1 .. Len(stack)
  BY <1>1
<1>7. Top' = IF k = Len(stack) THEN s ELSE Top
  BY <1>1, <1>6 DEF Top
<1> QED
  BY <1>3, <1>5, <1>7

\* The pair of the last one is.
LEMMA TopChanges ==
  ASSUME StackRight, stack # <<>>, NEW q \in PairsOver(Events), OnePer(q),
         stack' = [stack EXCEPT ![Len(stack)].p = q]
  PROVE  StackRight' /\ stack' # <<>> /\ (Top.p)' = q
<1> DEFINE s == [Top EXCEPT !.p = q]
<1>1. Len(stack) \in 1 .. Len(stack) /\ Top \in StackStates /\ Top = stack[Len(stack)]
  BY TopIsState
<1>2. s \in StackStates /\ s.p = q
  BY <1>1 DEF StackStates
<1>3. stack' = [stack EXCEPT ![Len(stack)] = s]
  BY <1>1
<1> HIDE DEF s
<1>4. StackRight' /\ stack' # <<>> /\ Top' = s
  BY <1>1, <1>2, <1>3, StackChanges
<1> QED
  BY <1>2, <1>4

\* One event is added to it.
LEMMA AddingOne ==
  ASSUME StackRight, stack # <<>>, NEW e \in Events, AddToTop(<<e>>),
         \A x \in PendingIn(Top.p) : x.tid # e.tid
  PROVE  StackRight' /\ stack' # <<>> /\ PendingIn(Top.p)' = PendingIn(Top.p) \cup {e}
<1> DEFINE q == AddTransition(Top.p, Top.mutexes, Top.rwlocks, e)
<1>1. Top.p \in PairsOver(Events) /\ OnePer(Top.p)
  BY TopIsState
<1>2. q \in PairsOver(Events) /\ PendingIn(q) = PendingIn(Top.p) \cup {e} /\ OnePer(q)
  BY <1>1, AddTransitionSets
<1>3. Len(<<e>>) = 1 /\ <<e>>[1] = e
  OBVIOUS
<1>4. stack' = [stack EXCEPT ![Len(stack)].p = q]
  BY <1>3 DEF AddToTop
<1> HIDE DEF q
<1>5. StackRight' /\ stack' # <<>> /\ (Top.p)' = q
  BY <1>2, <1>4, TopChanges
<1> QED
  BY <1>2, <1>5

\* Or two.
LEMMA AddingTwo ==
  ASSUME StackRight, stack # <<>>, NEW e \in Events, NEW f \in Events, AddToTop(<<e, f>>),
         e.tid # f.tid,
         \A x \in PendingIn(Top.p) : x.tid # e.tid /\ x.tid # f.tid
  PROVE  StackRight' /\ stack' # <<>> /\ PendingIn(Top.p)' = PendingIn(Top.p) \cup {e, f}
<1> DEFINE q == AddTransition(Top.p, Top.mutexes, Top.rwlocks, e)
           r == AddTransition(q, Top.mutexes, Top.rwlocks, f)
<1>1. Top.p \in PairsOver(Events) /\ OnePer(Top.p)
  BY TopIsState
<1>2. q \in PairsOver(Events) /\ PendingIn(q) = PendingIn(Top.p) \cup {e} /\ OnePer(q)
  BY <1>1, AddTransitionSets
<1>3. r \in PairsOver(Events) /\ PendingIn(r) = PendingIn(q) \cup {f} /\ OnePer(r)
  <2> HIDE DEF q
  <2> QED
    BY <1>2, AddTransitionSets
<1>4. Len(<<e, f>>) = 2 /\ <<e, f>>[1] = e /\ <<e, f>>[2] = f
  OBVIOUS
<1>5. stack' = [stack EXCEPT ![Len(stack)].p = r]
  BY <1>4 DEF AddToTop
<1> HIDE DEF q, r
<1>6. StackRight' /\ stack' # <<>> /\ (Top.p)' = r
  BY <1>3, <1>5, TopChanges
<1> QED
  BY <1>2, <1>3, <1>6

\* A permit reaches the thread that waits for it, or nobody.
LEMMA PermitArrives ==
  ASSUME Inv, mode # "end", NEW e, Parked(e), Approve(e)
  PROVE  \/ toThread' = toThread
         \/ toThread' = [toThread EXCEPT ![socketOf[e.tid]] = <<Expected(socketOf[e.tid])>>]
<1> DEFINE t == socketOf[e.tid]
<1>1. t \in Threads /\ Blocked(t) /\ toThread[t] = <<>> /\ e.type = Expected(t)
  BY DEF Parked
<1>2. CASE link[t] = "open"
  <2>1. toThread' = [toThread EXCEPT ![t] = Append(@, e.type)]
    BY <1>2 DEF Approve
  <2>2. toThread \in [Threads -> Seq(EventKinds \cup {"SYMM_POINT"})]
    BY DEF Inv, ChannelInv, SchedulerTypes
  <2>3. Append(toThread[t], e.type) = <<Expected(t)>>
    BY <1>1
  <2> QED
    BY <1>1, <2>1, <2>2, <2>3
<1>3. CASE link[t] = "removed"
  <2>1. status # "running"
    BY <1>1, <1>3 DEF Inv, ChannelInv, LinksRight, Blocked
  <2>2. \A u \in Threads : link[u] # "open"
    BY <2>1 DEF Inv, ChannelInv, LinksRight
  <2> QED
    BY <1>3, <2>2 DEF Approve
<1> QED
  BY <1>2, <1>3 DEF Approve

\* What the scheduler has is typed.
LEMMA SchedulerEventsTyped ==
  ASSUME Inv
  PROVE  /\ StackRight /\ (mode # "boot" => stack # <<>>) /\ kept \in Events /\ buffer \subseteq Events
         /\ buffer \cup Held \subseteq Events
<1>1. /\ StackRight /\ (mode # "boot" => stack # <<>>) /\ kept \in Events /\ buffer \subseteq Events
  BY DEF Inv, ChannelInv, SchedulerTypes, StackRight
<1>2. mode # "boot" => PendingIn(Top.p) \subseteq Events
  BY <1>1, TopIsState
<1>3. Held \subseteq Events
  BY <1>1, <1>2 DEF Held
<1> QED
  BY <1>1, <1>3

\* An event e moves from one place with the scheduler to another one, where it
\* may be found as f, or leaves it as a permit.
LEMMA TokenMoves ==
  ASSUME Inv, UNCHANGED <<process, link, toSched, socketOf>>, mode \notin {"boot", "end"},
         StackRight', stack' # <<>>, buffer' \subseteq Events, kept' \in Events,
         mode' \in Modes \ {"boot"},
         NEW e \in buffer \cup Held, NEW f, f.tid = e.tid, f.type = e.type,
         \A x \in buffer' \cup Held' : x = f \/ (x \in buffer \cup Held /\ x # e),
         buffer' \cap Held' = {},
         mode' \in {"start", "first"} => kept' \notin PendingIn(Top.p)',
         toThread' = toThread \/ (Approve(e) /\ f \notin buffer' \cup Held')
  PROVE  Inv'
<1> USE DEF process, objectTable, threadTable
<1> DEFINE t == socketOf[e.tid]
<1>1. Parked(e) /\ \A x \in buffer \cup Held : Parked(x) /\ (x.tid = e.tid => x = e)
  BY DEF Inv, ChannelInv, TokensRight
<1>2. t \in Threads /\ Blocked(t) /\ IdOf(t) = e.tid /\ toSched[t] = <<>> /\ toThread[t] = <<>>
  BY <1>1 DEF Parked
<1>3. UNCHANGED <<program, pc, step, handle, objects, nextObj, tids, nextTid, status>>
  OBVIOUS
<1>4. \/ toThread' = toThread
      \/ toThread' = [toThread EXCEPT ![t] = <<Expected(t)>>] /\ f \notin buffer' \cup Held'
  BY <1>1, PermitArrives
<1>5. toThread \in [Threads -> Seq(EventKinds \cup {"SYMM_POINT"})]
  BY DEF Inv, ChannelInv, SchedulerTypes
<1>6. Expected(t) \in EventKinds
  BY <1>1, SchedulerEventsTyped DEF Parked, Events
<1>7. toThread' \in [Threads -> Seq(EventKinds \cup {"SYMM_POINT"})]
  <2>1. <<Expected(t)>> \in Seq(EventKinds \cup {"SYMM_POINT"})
    BY <1>6
  <2> QED
    BY <1>4, <1>5, <2>1
<1>8. /\ \A u \in Threads : /\ Here(u)' = Here(u) /\ Expected(u)' = Expected(u) /\ IdOf(u)' = IdOf(u)
                            /\ Blocked(u)' <=> Blocked(u)
                            /\ Present(u)' <=> Present(u)
      /\ \A u \in Threads : \A x : IsAnnouncement(u, x)' <=> IsAnnouncement(u, x)
  BY <1>3, NobodyRuns
<1>9. ProcessInv'
  BY <1>3, ProcessStays DEF Inv
<1>10. SchedulerTypes'
  BY <1>3, <1>7 DEF Inv, ChannelInv, SchedulerTypes, StackRight
<1>11. \A u \in Threads \ {t} : toThread'[u] = toThread[u]
  BY <1>4, <1>5
<1>12. toThread'[t] = <<>> \/ (toThread'[t] = <<Expected(t)>> /\ f \notin buffer' \cup Held')
  BY <1>2, <1>4, <1>5
<1>13. EventsRight'
  <2>1. ASSUME NEW u \in Threads, toSched'[u] # <<>>
        PROVE  ( /\ Blocked(u) /\ toThread[u] = <<>>
                 /\ toSched[u] = <<toSched[u][1]>> /\ IsAnnouncement(u, toSched[u][1]) )'
    <3>1. u # t /\ toSched'[u] = toSched[u]
      BY <1>2, <2>1
    <3>2. /\ Blocked(u) /\ toThread[u] = <<>>
          /\ toSched[u] = <<toSched[u][1]>> /\ IsAnnouncement(u, toSched[u][1])
      BY <2>1, <3>1 DEF Inv, ChannelInv, EventsRight
    <3> QED
      BY <1>8, <1>11, <3>1, <3>2
  <2> QED
    BY <2>1 DEF EventsRight
<1>14. PermitsRight'
  <2>1. ASSUME NEW u \in Threads, toThread'[u] # <<>>
        PROVE  (Blocked(u) /\ toThread[u] = <<Expected(u)>>)'
    <3>1. CASE u = t
      BY <1>2, <1>8, <1>12, <2>1, <3>1
    <3>2. CASE u # t
      BY <1>8, <1>11, <2>1, <3>2 DEF Inv, ChannelInv, PermitsRight
    <3> QED
      BY <3>1, <3>2
  <2> QED
    BY <2>1 DEF PermitsRight
<1>15. SocketsRight' /\ LinksRight' /\ BootRight'
  <2>1. SocketsRight'
    BY <1>3, <1>8 DEF Inv, ChannelInv, SocketsRight
  <2>2. LinksRight'
    BY <1>3 DEF Inv, ChannelInv, LinksRight
  <2>3. BootRight'
    BY DEF BootRight
  <2> QED
    BY <2>1, <2>2, <2>3
<1>16. TokensRight'
  <2>1. ASSUME NEW x \in buffer' \cup Held'
        PROVE  Parked(x)'
    <3>1. x.tid \in Threads /\ socketOf[x.tid] \in Threads /\ x.type = Expected(socketOf[x.tid])
          /\ Blocked(socketOf[x.tid]) /\ IdOf(socketOf[x.tid]) = x.tid
          /\ toSched[socketOf[x.tid]] = <<>> /\ toThread[socketOf[x.tid]] = <<>>
      BY <1>1, <2>1 DEF Parked
    <3>2. toThread'[socketOf[x.tid]] = <<>>
      <4>1. CASE socketOf[x.tid] = t
        <5>1. x.tid = e.tid
          BY <1>2, <3>1, <4>1
        <5>2. x = f
          BY <1>1, <2>1, <5>1
        <5> QED
          BY <1>12, <2>1, <4>1, <5>2
      <4>2. CASE socketOf[x.tid] # t
        BY <1>11, <3>1, <4>2
      <4> QED
        BY <4>1, <4>2
    <3>3. PICK s \in Threads : s = socketOf[x.tid]
      BY <3>1
    <3>4. Blocked(s)' /\ Expected(s)' = x.type /\ IdOf(s)' = x.tid /\ toSched'[s] = <<>> /\ toThread'[s] = <<>>
      BY <1>8, <3>1, <3>2, <3>3
    <3> QED
      BY <3>1, <3>3, <3>4 DEF Parked
  <2>2. \A x, y \in buffer' \cup Held' : x.tid = y.tid => x = y
    BY <1>1 DEF Inv, ChannelInv, TokensRight
  <2> QED
    BY <2>1, <2>2 DEF TokensRight
<1> QED
  BY <1>9, <1>10, <1>13, <1>14, <1>15, <1>16 DEF Inv, ChannelInv

\* get_event returns e, which the scheduler keeps, permits, or drops.
LEMMA TakenKeeps ==
  ASSUME Inv, UNCHANGED <<process, link, toSched, socketOf>>, mode \notin {"boot", "end"},
         StackRight', stack' # <<>>, kept' \in Events, mode' \in Modes \ {"boot"},
         NEW e \in buffer, buffer' = buffer \ {e}, Held' \subseteq Held \cup {e},
         mode' \in {"start", "first"} => kept' \notin PendingIn(Top.p)',
         toThread' = toThread \/ (Approve(e) /\ Held' \subseteq Held)
  PROVE  Inv'
<1>1. buffer \cap Held = {} /\ buffer \subseteq Events
  BY SchedulerEventsTyped DEF Inv, ChannelInv, TokensRight
<1>2. /\ \A x \in buffer' \cup Held' : x = e \/ (x \in buffer \cup Held /\ x # e)
      /\ buffer' \cap Held' = {} /\ buffer' \subseteq Events
  BY <1>1
<1>3. toThread' = toThread \/ (Approve(e) /\ e \notin buffer' \cup Held')
  BY <1>1
<1> QED
  BY <1>2, <1>3, TokenMoves

\* A LOCAL_INFO is permitted at once.
LEMMA InfoKeeps ==
  ASSUME Inv, NEW e, TakeInfo(e)
  PROVE  Inv'
<1>1. /\ UNCHANGED <<process, link, toSched, stack, socketOf, mode, kept, done, unmatched, runs>>
      /\ e \in buffer /\ buffer' = buffer \ {e} /\ Approve(e)
      /\ mode \in Modes \ {"boot", "end"}
  BY DEF TakeInfo, Waits, Fresh, Replay, Modes
<1>2. StackRight' /\ stack' # <<>> /\ kept' \in Events /\ (Top.p)' = Top.p
  BY <1>1, SchedulerEventsTyped DEF StackRight, Top
<1>3. Held' = Held
  BY <1>1, <1>2 DEF Held
<1>4. mode' \in {"start", "first"} => kept' \notin PendingIn(Top.p)'
  BY <1>1, <1>2 DEF Inv, ChannelInv, TokensRight
<1> QED
  BY <1>1, <1>2, <1>3, <1>4, TakenKeeps

\* An event in the buffer is of another thread than those the scheduler has.
LEMMA TakenIsNew ==
  ASSUME Inv, NEW e \in buffer
  PROVE  e \in Events /\ \A x \in Held : x.tid # e.tid
BY SchedulerEventsTyped DEF Inv, ChannelInv, TokensRight

\* next_state takes the thread's next operation.
LEMMA NextKeeps ==
  ASSUME Inv, NEW e, TakeNext(e)
  PROVE  Inv'
<1>1. /\ UNCHANGED <<process, link, toSched, toThread, socketOf, kept>>
      /\ e \in buffer /\ buffer' = buffer \ {e}
      /\ mode = "next" /\ mode' = "idle" /\ AddToTop(<<e>>)
  BY DEF TakeNext, Take
<1>2. Held = PendingIn(Top.p)
  BY <1>1 DEF Held
<1>3. e \in Events /\ \A x \in PendingIn(Top.p) : x.tid # e.tid
  BY <1>1, <1>2, TakenIsNew
<1>4. StackRight /\ stack # <<>> /\ kept \in Events
  BY <1>1, SchedulerEventsTyped
<1>5. StackRight' /\ stack' # <<>> /\ PendingIn(Top.p)' = PendingIn(Top.p) \cup {e}
  BY <1>1, <1>3, <1>4, AddingOne
<1>6. Held' = Held \cup {e}
  BY <1>1, <1>2, <1>5 DEF Held
<1> QED
  BY <1>1, <1>4, <1>5, <1>6, TakenKeeps DEF Modes

\* An assertion of the scheduler fails on an event it has taken: nothing else
\* changes, and it gives up the events it has.
LEMMA TakenAborts ==
  ASSUME Inv, UNCHANGED <<process, link, toSched, toThread, stack, socketOf, kept>>,
         mode \notin {"boot", "end"}, NEW e \in buffer, buffer' = buffer \ {e},
         mode' = "aborted"
  PROVE  Inv'
<1>1. StackRight' /\ stack' # <<>> /\ kept' \in Events
  BY SchedulerEventsTyped DEF StackRight, Top
<1>2. Held' = {}
  BY DEF Held
<1> QED
  BY <1>1, <1>2, TakenKeeps DEF Modes

\* It takes the end of a creation, which it permits.
LEMMA PostCreateKeeps ==
  ASSUME Inv, NEW e, TakePostCreate(e), Selected.type = "THREAD_PRE_CREATE"
  PROVE  Inv'
<1> DEFINE k == Len(stack) - 1
           c == Ev("THREAD_CREATE", e.tid, NoId, e.aux)
           s == [stack[k] EXCEPT !.sel = c]
<1>1. /\ UNCHANGED <<process, link, toSched, socketOf, kept>>
      /\ e \in buffer /\ buffer' = buffer \ {e} /\ Approve(e)
      /\ mode = "next" /\ mode' = "after_post"
      /\ stack' = [stack EXCEPT ![k].sel = c]
  BY DEF TakePostCreate, Take
<1>2. StackRight /\ stack # <<>> /\ kept \in Events /\ e \in Events /\ Len(stack) \in Nat \ {0}
  BY <1>1, SchedulerEventsTyped, TakenIsNew, TopIsState
<1>3. c \in Events
  BY <1>2 DEF Events, Ev, EventKinds, EventTypes, ThreadTypes, NoId
<1>4. StackRight' /\ stack' # <<>> /\ (Top.p)' = Top.p
  <2>1. CASE k \in 1 .. Len(stack)
    <3>1. s \in StackStates /\ OnePer(s.p)
      <4>1. stack[k] \in StackStates /\ OnePer(stack[k].p)
        BY <1>2, <2>1 DEF StackRight
      <4>2. s \in StackStates /\ s.p = stack[k].p
        BY <1>3, <4>1 DEF StackStates
      <4> QED
        BY <4>1, <4>2
    <3>2. stack' = [stack EXCEPT ![k] = s]
      BY <1>1
    <3>3. k # Len(stack)
      BY <1>2
    <3> HIDE DEF s, k
    <3>4. StackRight' /\ stack' # <<>> /\ Top' = Top
      BY <1>2, <2>1, <3>1, <3>2, <3>3, StackChanges
    <3> QED
      BY <3>4
  <2>2. CASE k \notin 1 .. Len(stack)
    <3>1. stack' = stack
      BY <1>1, <1>2, <2>2 DEF StackRight
    <3> QED
      BY <1>2, <3>1 DEF StackRight, Top
  <2> QED
    BY <2>1, <2>2
<1>5. Held' = Held
  BY <1>1, <1>4 DEF Held
<1> QED
  BY <1>1, <1>2, <1>4, <1>5, TakenKeeps DEF Modes

\* It keeps the creator's next operation.
LEMMA AfterPostKeeps ==
  ASSUME Inv, NEW e, TakeAfterPost(e)
  PROVE  Inv'
<1>1. /\ UNCHANGED <<process, link, toSched, toThread, stack, socketOf>>
      /\ e \in buffer /\ buffer' = buffer \ {e}
      /\ mode = "after_post" /\ mode' = "start" /\ kept' = e
  BY DEF TakeAfterPost, Take
<1>2. e \in Events /\ StackRight' /\ stack' # <<>> /\ (Top.p)' = Top.p
  BY <1>1, SchedulerEventsTyped, TakenIsNew DEF StackRight, Top
<1>3. Held = PendingIn(Top.p) /\ Held' = PendingIn(Top.p) \cup {e}
  BY <1>1, <1>2 DEF Held
<1>4. e \notin PendingIn(Top.p)'
  BY <1>1, <1>2, <1>3, TakenIsNew
<1> QED
  BY <1>1, <1>2, <1>3, <1>4, TakenKeeps DEF Modes

\* It takes the start of the new thread, which it permits.
LEMMA StartTakenKeeps ==
  ASSUME Inv, NEW e, TakeStart(e), e.type = "THREAD_START"
  PROVE  Inv'
<1>1. /\ UNCHANGED <<process, link, toSched, stack, socketOf, kept>>
      /\ e \in buffer /\ buffer' = buffer \ {e} /\ Approve(e)
      /\ mode = "start" /\ mode' = "first"
  BY DEF TakeStart, Take
<1>2. StackRight' /\ stack' # <<>> /\ kept' \in Events /\ (Top.p)' = Top.p
  BY <1>1, SchedulerEventsTyped DEF StackRight, Top
<1>3. Held' = Held
  BY <1>1, <1>2 DEF Held
<1>4. kept' \notin PendingIn(Top.p)'
  BY <1>1, <1>2 DEF Inv, ChannelInv, TokensRight
<1> QED
  BY <1>1, <1>2, <1>3, <1>4, TakenKeeps DEF Modes

\* It takes the first operation of the new thread.
LEMMA FirstKeeps ==
  ASSUME Inv, NEW e, TakeFirst(e)
  PROVE  Inv'
<1>1. /\ UNCHANGED <<process, link, toSched, toThread, socketOf>>
      /\ e \in buffer /\ buffer' = buffer \ {e}
      /\ mode = "first" /\ mode' = "idle" /\ AddToTop(<<e, kept>>) /\ kept' = NoEvent
  BY DEF TakeFirst, Take
<1>2. StackRight /\ stack # <<>> /\ kept \in Events /\ e \in Events /\ NoEvent \in Events
  BY <1>1, SchedulerEventsTyped, TakenIsNew DEF NoEvent, Ev, Events, EventKinds, NoId
<1>3. Held = PendingIn(Top.p) \cup {kept} /\ kept \notin PendingIn(Top.p)
  BY <1>1 DEF Held, Inv, ChannelInv, TokensRight
<1>4. e.tid # kept.tid /\ \A x \in PendingIn(Top.p) : x.tid # e.tid /\ x.tid # kept.tid
  BY <1>1, <1>3, TakenIsNew DEF Inv, ChannelInv, TokensRight
<1>5. StackRight' /\ stack' # <<>> /\ PendingIn(Top.p)' = PendingIn(Top.p) \cup {e, kept}
  BY <1>1, <1>2, <1>4, AddingTwo
<1>6. Held' = Held \cup {e}
  BY <1>1, <1>3, <1>5 DEF Held
<1> QED
  BY <1>1, <1>2, <1>5, <1>6, TakenKeeps DEF Modes

\* The events a replay waits for.
LEMMA ReplayKeeps ==
  ASSUME Inv, NEW e, ReplayEvent(e) \/ ReplayCreate(e) \/ ReplayPost(e) \/ ReplayStart(e)
  PROVE  Inv'
<1>1. /\ UNCHANGED <<process, link, toSched, stack, socketOf, kept>>
      /\ e \in buffer /\ buffer' = buffer \ {e}
      /\ mode \in Replay
  BY DEF ReplayEvent, ReplayCreate, ReplayPost, ReplayStart, Take, Replay
<1>2. Approve(e) \/ toThread' = toThread
  BY DEF ReplayEvent, ReplayCreate, ReplayPost, ReplayStart
<1>3. mode' \in {"replay", "replay_post", "replay_start", "match", "aborted"}
  BY DEF ReplayEvent, ReplayCreate, ReplayPost, ReplayStart, StateReplayed
<1>4. mode' = "match" => unmatched' = PendingIn(Top.p)
  BY DEF ReplayEvent, ReplayCreate, ReplayPost, ReplayStart, StateReplayed
<1>5. StackRight' /\ stack' # <<>> /\ kept' \in Events /\ (Top.p)' = Top.p
  BY <1>1, SchedulerEventsTyped DEF StackRight, Top, Replay
<1>6. Held' = {}
  BY <1>3, <1>4, <1>5 DEF Held
<1>7. mode \notin {"boot", "end"} /\ mode' \in Modes \ {"boot"} /\ mode' \notin {"start", "first"}
  BY <1>1, <1>3 DEF Replay, Modes
<1> QED
  BY <1>1, <1>2, <1>5, <1>6, <1>7, TakenKeeps

\* An event pending in the last state is compared.
LEMMA MatchKeeps ==
  ASSUME Inv, NEW e, MatchEvent(e)
  PROVE  Inv'
<1> DEFINE n == NextToMatch
<1>1. /\ UNCHANGED <<process, link, toSched, toThread, stack, socketOf, kept>>
      /\ e \in buffer /\ buffer' = buffer \ {e}
      /\ mode = "match"
  BY DEF MatchEvent, Take
<1>2. StackRight' /\ stack' # <<>> /\ kept' \in Events /\ (Top.p)' = Top.p
  BY <1>1, SchedulerEventsTyped DEF StackRight, Top
<1>3. CASE Equal(n, e)
  <2>1. /\ unmatched' = unmatched \ {n}
        /\ mode' = IF unmatched = {n} THEN "idle" ELSE "match"
    BY <1>3 DEF MatchEvent
  <2>2. e.tid = n.tid /\ e.type = n.type
    BY <1>3 DEF Equal, SameEvent
  <2>3. Held = PendingIn(Top.p) \ unmatched
    BY <1>1 DEF Held
  <2>4. Held' \subseteq Held \cup {n}
    <3>1. CASE unmatched = {n}
      <4>1. Held' = PendingIn(Top.p)
        BY <1>2, <2>1, <3>1 DEF Held
      <4> QED
        BY <2>3, <3>1, <4>1
    <3>2. CASE unmatched # {n}
      <4>1. Held' = PendingIn(Top.p) \ (unmatched \ {n})
        BY <1>2, <2>1, <3>2 DEF Held
      <4> QED
        BY <2>3, <4>1
    <3> QED
      BY <3>1, <3>2
  <2>5. \A x \in buffer \cup Held : x.tid = e.tid => x = e
    BY <1>1 DEF Inv, ChannelInv, TokensRight
  <2>6. buffer \cap Held = {}
    BY DEF Inv, ChannelInv, TokensRight
  <2> HIDE DEF n
  <2>7. \A x \in buffer' \cup Held' : x = n \/ (x \in buffer \cup Held /\ x # e)
    BY <1>1, <2>4, <2>6
  <2>8. buffer' \cap Held' = {}
    BY <1>1, <2>2, <2>4, <2>5, <2>6
  <2>9. buffer' \subseteq Events
    BY <1>1, SchedulerEventsTyped
  <2>10. mode' \in Modes \ {"boot"} /\ mode' \notin {"start", "first"}
    BY <2>1 DEF Modes
  <2> QED
    BY <1>1, <1>2, <2>2, <2>7, <2>8, <2>9, <2>10, TokenMoves
<1>4. CASE ~Equal(n, e)
  <2>1. mode' = "aborted"
    BY <1>4 DEF MatchEvent
  <2>2. Held' = {}
    BY <2>1 DEF Held
  <2> QED
    BY <1>1, <1>2, <2>1, <2>2, TakenKeeps DEF Modes
<1> QED
  BY <1>3, <1>4

\* A permit that cannot be sent.
LEMMA PermitFailsKeeps ==
  ASSUME Inv, NEW e, PermitFails(e)
  PROVE  Inv'
<1>1. /\ UNCHANGED <<process, link, toSched, toThread, stack, buffer, socketOf, kept>>
      /\ mode' = "aborted"
      /\ AboutToPermit(e)
  BY DEF PermitFails, channels, events
<1>2. mode \notin {"boot", "end"}
  BY <1>1 DEF AboutToPermit, Waits, Fresh, Replay
<1>3. StackRight' /\ stack' # <<>> /\ kept' \in Events /\ buffer' \subseteq Events
  BY <1>1, <1>2, SchedulerEventsTyped DEF StackRight, Top
<1>4. e \in buffer \cup Held
  BY <1>1 DEF AboutToPermit, Held, PendingIn
<1>5. Held' = {}
  BY <1>1 DEF Held
<1> QED
  BY <1>1, <1>2, <1>3, <1>4, <1>5, TokenMoves DEF Modes

\* State::execute leaves the mutexes and the read-write locks typed.
LEMMA ExecutedTables ==
  ASSUME NEW e, e.tid \in Threads,
         NEW mu \in [ObjectIds -> Threads \cup {Free, Absent}],
         NEW rw \in [ObjectIds -> [status : RwStatuses, readers : SUBSET Threads, writer : Threads \cup {NoId}]]
  PROVE  /\ ExecuteMutexes(mu, e) \in [ObjectIds -> Threads \cup {Free, Absent}]
         /\ ExecuteRwlocks(rw, e)
              \in [ObjectIds -> [status : RwStatuses, readers : SUBSET Threads, writer : Threads \cup {NoId}]]
<1> DEFINE Rw == [status : RwStatuses, readers : SUBSET Threads, writer : Threads \cup {NoId}]
<1>1. ExecuteMutexes(mu, e) \in [ObjectIds -> Threads \cup {Free, Absent}]
  BY DEF ExecuteMutexes
<1>2. RwIdle \in Rw /\ RwAbsent \in Rw
  BY DEF RwIdle, RwAbsent, RwStatuses
<1>3. ASSUME NEW r \in Rw
      PROVE  ReleaseRwlock(r, e.tid) \in Rw /\ ReaderAcquire(r, e.tid) \in Rw /\ WriterAcquire(r, e.tid) \in Rw
  BY <1>2 DEF ReleaseRwlock, ReaderAcquire, WriterAcquire, RwStatuses
<1>4. \A i \in ObjectIds : rw[i] \in Rw
  OBVIOUS
<1> HIDE DEF Rw
<1>5. rw \in [ObjectIds -> Rw]
  BY DEF Rw
<1>6. ExecuteRwlocks(rw, e) \in [ObjectIds -> Rw]
  BY <1>2, <1>3, <1>4, <1>5 DEF ExecuteRwlocks
<1> QED
  BY <1>1, <1>6 DEF Rw

\* next_state permits an event of the top state.
LEMMA PermitKeeps ==
  ASSUME Inv, NEW e, PermitEvent(e)
  PROVE  Inv'
<1> DEFINE s == [stack EXCEPT ![Len(stack)].sel = e]
           q == AfterExecuting(Top.p, e)
           n == Entry(q, ExecuteMutexes(Top.mutexes, e), ExecuteRwlocks(Top.rwlocks, e))
<1>1. /\ UNCHANGED <<process, link, toSched, buffer, socketOf, kept>>
      /\ mode = "idle" /\ e \in Top.p.enabled /\ Approve(e) /\ mode' \in {"idle", "next"}
      /\ stack' = Append(s, n)
  BY DEF PermitEvent, events
<1>2. /\ StackRight /\ stack # <<>> /\ kept \in Events /\ buffer \subseteq Events
      /\ Len(stack) \in Nat \ {0} /\ Top \in StackStates /\ Top = stack[Len(stack)]
      /\ Top.p \in PairsOver(Events) /\ OnePer(Top.p)
  BY <1>1, SchedulerEventsTyped, TopIsState
<1>3. Held = PendingIn(Top.p) /\ e \in Held
  BY <1>1 DEF Held, PendingIn
<1>4. e \in Events /\ e.tid \in Threads
  BY <1>3, SchedulerEventsTyped DEF Inv, ChannelInv, TokensRight, Parked
<1>5. q \in PairsOver(Events) /\ PendingIn(q) = PendingIn(Top.p) \ {e} /\ OnePer(q)
  BY <1>1, <1>2, AfterExecutingSets
<1>6. n \in StackStates /\ n.p = q
  <2>1. NoEvent \in Events
    BY DEF NoEvent, Ev, Events, EventKinds, NoId
  <2> HIDE DEF q
  <2> QED
    BY <1>2, <1>4, <1>5, <2>1, ExecutedTables DEF Entry, StackStates
<1>7. /\ s \in Seq(StackStates) /\ Len(s) = Len(stack)
      /\ \A k \in 1 .. Len(stack) : OnePer(s[k].p)
  BY <1>2, <1>4 DEF StackRight, StackStates
<1> HIDE DEF s, n, q
<1>8. /\ stack' \in Seq(StackStates) /\ Len(stack') = Len(stack) + 1
      /\ \A k \in 1 .. Len(stack) : stack'[k] = s[k]
      /\ stack'[Len(stack) + 1] = n
  BY <1>1, <1>2, <1>6, <1>7
<1>9. StackRight' /\ stack' # <<>> /\ Top' = n
  <2>1. \A k \in 1 .. Len(stack') : OnePer(stack'[k].p)
    BY <1>2, <1>5, <1>6, <1>7, <1>8
  <2>2. Len(<<>>) = 0
    OBVIOUS
  <2> QED
    BY <1>2, <1>8, <2>1, <2>2 DEF StackRight, Top
<1>10. Held' = Held \ {e}
  BY <1>1, <1>3, <1>5, <1>6, <1>9 DEF Held
<1>11. buffer \cap Held = {}
  BY DEF Inv, ChannelInv, TokensRight
<1>12. /\ \A x \in buffer' \cup Held' : x = e \/ (x \in buffer \cup Held /\ x # e)
       /\ buffer' \cap Held' = {} /\ e \notin buffer' \cup Held'
  BY <1>1, <1>3, <1>10, <1>11
<1>13. mode' \in Modes \ {"boot"} /\ mode' \notin {"start", "first"} /\ mode \notin {"boot", "end"}
  BY <1>1 DEF Modes
<1> QED
  BY <1>1, <1>2, <1>3, <1>9, <1>12, <1>13, TokenMoves

\* A connection is accepted or dropped.
LEMMA LinkKeeps ==
  ASSUME Inv, NEW t \in Threads, Accept(t) \/ HangUp(t)
  PROVE  Inv'
<1> USE DEF process, objectTable, threadTable, scheduler, events
<1>1. /\ UNCHANGED <<program, pc, step, handle, objects, nextObj, tids, nextTid, status>>
      /\ UNCHANGED <<toSched, toThread, stack, buffer, informed, socketOf, mode, kept, done, unmatched, runs>>
      /\ mode # "end"
      /\ \/ link[t] = "backlog" /\ link' = [link EXCEPT ![t] = "open"]
         \/ link[t] = "shut" /\ link' = [link EXCEPT ![t] = "removed"]
  BY DEF Accept, HangUp, Waits, Fresh, Replay
<1>2. link \in [Threads -> Links]
  BY DEF Inv, ChannelInv, SchedulerTypes
<1>3. link' \in [Threads -> Links]
  BY <1>1, <1>2 DEF Links
<1>4. /\ \A u \in Threads : /\ Here(u)' = Here(u) /\ Expected(u)' = Expected(u) /\ IdOf(u)' = IdOf(u)
                            /\ Blocked(u)' <=> Blocked(u)
                            /\ Present(u)' <=> Present(u)
      /\ \A u \in Threads : \A e : IsAnnouncement(u, e)' <=> IsAnnouncement(u, e)
  BY <1>1, NobodyRuns
<1>5. ProcessInv'
  BY <1>1, ProcessStays DEF Inv
<1>6. SchedulerTypes'
  BY <1>1, <1>3 DEF Inv, ChannelInv, SchedulerTypes
<1>7. EventsRight' /\ PermitsRight' /\ SocketsRight' /\ BootRight'
  <2>1. EventsRight' /\ PermitsRight'
    BY <1>1, <1>4 DEF Inv, ChannelInv, EventsRight, PermitsRight
  <2>2. SocketsRight' /\ BootRight'
    BY <1>1, <1>4 DEF Inv, ChannelInv, SocketsRight, BootRight
  <2> QED
    BY <2>1, <2>2
<1>8. LinksRight'
  <2>1. status # "running" => link[t] # "backlog"
    BY <1>1 DEF Inv, ChannelInv, LinksRight
  <2> QED
    BY <1>1, <1>2, <2>1 DEF Inv, ChannelInv, LinksRight
<1>9. TokensRight'
  <2>1. \A e : Parked(e)' <=> Parked(e)
    BY <1>1, <1>4 DEF Parked
  <2>2. Held' = Held /\ (Top.p)' = Top.p
    BY <1>1 DEF Held, Top
  <2> QED
    BY <1>1, <2>1, <2>2 DEF Inv, ChannelInv, TokensRight
<1> QED
  BY <1>5, <1>6, <1>7, <1>8, <1>9 DEF Inv, ChannelInv

\* The event on the socket of a thread is the only one with its id, and shows
\* the scheduler which socket is whose.
LEMMA EventArrives ==
  ASSUME Inv, NEW t \in Threads, toSched[t] # <<>>, NEW e, e = Head(toSched[t])
  PROVE  /\ e \in Events /\ Blocked(t) /\ Present(t) /\ e.tid = IdOf(t) /\ e.tid \in Threads /\ e.tid < nextTid
         /\ IsAnnouncement(t, e) /\ toThread[t] = <<>> /\ Tail(toSched[t]) = <<>>
         /\ socketOf[e.tid] \in {t, NoId}
         /\ \A x \in buffer \cup Held : x.tid # e.tid /\ socketOf[x.tid] # t
         /\ UpdateSocket(e, t) = [socketOf EXCEPT ![e.tid] = t]
<1>1. /\ toSched \in [Threads -> Seq(Events)] /\ socketOf \in [Threads -> Threads \cup {NoId}]
  BY DEF Inv, ChannelInv, SchedulerTypes
<1>2. /\ Blocked(t) /\ toThread[t] = <<>> /\ toSched[t] = <<toSched[t][1]>>
      /\ IsAnnouncement(t, toSched[t][1])
  BY DEF Inv, ChannelInv, EventsRight
<1>3. e = toSched[t][1] /\ Tail(toSched[t]) = <<>> /\ e \in Events
  <2>1. PICK f : f = toSched[t][1]
    OBVIOUS
  <2>2. toSched[t] = <<f>> /\ toSched[t] \in Seq(Events)
    BY <1>1, <1>2, <2>1
  <2>3. f \in Events
    BY <2>2
  <2>4. Head(<<f>>) = f /\ Tail(<<f>>) = <<>>
    OBVIOUS
  <2> QED
    BY <2>1, <2>2, <2>3, <2>4
<1>4. Present(t) /\ e.tid = IdOf(t) /\ e.tid \in Threads /\ e.tid < nextTid
  BY <1>2, <1>3, BlockedHasId, IdsAreThreads DEF Inv, IsAnnouncement
<1>5. socketOf[e.tid] \in {t, NoId}
  BY <1>4 DEF Inv, ChannelInv, SocketsRight
<1>6. ASSUME NEW x \in buffer \cup Held
      PROVE  x.tid # e.tid /\ socketOf[x.tid] # t
  <2>1. Parked(x)
    BY DEF Inv, ChannelInv, TokensRight
  <2>2. socketOf[x.tid] \in Threads /\ toSched[socketOf[x.tid]] = <<>>
    BY <2>1 DEF Parked
  <2>3. socketOf[x.tid] # NoId
    BY <2>2 DEF Threads, NoId
  <2> QED
    BY <1>5, <2>2, <2>3
<1>7. UpdateSocket(e, t) = [socketOf EXCEPT ![e.tid] = t]
  BY <1>1, <1>4, <1>5 DEF UpdateSocket
<1> QED
  BY <1>2, <1>3, <1>4, <1>5, <1>6, <1>7

\* It is received.
LEMMA ReceivedKeeps ==
  ASSUME Inv, NEW t \in Threads, Receive(t)
  PROVE  Inv'
<1> USE DEF process, objectTable, threadTable
<1>1. PICK e : e = Head(toSched[t])
  OBVIOUS
<1>2. /\ UNCHANGED <<program, pc, step, handle, objects, nextObj, tids, nextTid, status>>
      /\ UNCHANGED <<link, toThread, stack, informed, mode, kept, done, unmatched, runs>>
      /\ mode \notin {"boot", "end"} /\ toSched[t] # <<>>
      /\ buffer' = IF e.type = "UNKNOWN" THEN buffer ELSE Insert(buffer, e)
      /\ socketOf' = UpdateSocket(e, t)
      /\ toSched' = [toSched EXCEPT ![t] = Tail(@)]
  BY <1>1 DEF Receive, Waits, Fresh, Replay
<1>3. /\ e \in Events /\ Blocked(t) /\ Present(t) /\ e.tid = IdOf(t) /\ e.tid \in Threads /\ e.tid < nextTid
      /\ IsAnnouncement(t, e) /\ toThread[t] = <<>> /\ Tail(toSched[t]) = <<>>
      /\ \A x \in buffer \cup Held : x.tid # e.tid /\ socketOf[x.tid] # t
      /\ socketOf' = [socketOf EXCEPT ![e.tid] = t]
  BY <1>1, <1>2, EventArrives
<1>4. /\ toSched \in [Threads -> Seq(Events)] /\ socketOf \in [Threads -> Threads \cup {NoId}]
      /\ buffer \subseteq Events
  BY DEF Inv, ChannelInv, SchedulerTypes
<1>5. /\ toSched' \in [Threads -> Seq(Events)] /\ toSched'[t] = <<>>
      /\ \A u \in Threads \ {t} : toSched'[u] = toSched[u]
      /\ socketOf' \in [Threads -> Threads \cup {NoId}]
      /\ \A i \in Threads : socketOf'[i] = IF i = e.tid THEN t ELSE socketOf[i]
  BY <1>2, <1>3, <1>4
<1>6. buffer' \subseteq buffer \cup {e} /\ (e.type = "UNKNOWN" => buffer' = buffer)
  BY <1>2, <1>3 DEF Insert, EventsOf
<1>7. /\ \A u \in Threads : /\ Here(u)' = Here(u) /\ Expected(u)' = Expected(u) /\ IdOf(u)' = IdOf(u)
                            /\ Blocked(u)' <=> Blocked(u)
                            /\ Present(u)' <=> Present(u)
      /\ \A u \in Threads : \A x : IsAnnouncement(u, x)' <=> IsAnnouncement(u, x)
  BY <1>2, NobodyRuns
<1>8. ProcessInv'
  BY <1>2, ProcessStays DEF Inv
<1>9. SchedulerTypes'
  BY <1>2, <1>3, <1>5, <1>6 DEF Inv, ChannelInv, SchedulerTypes
<1>10. EventsRight'
  BY <1>2, <1>5, <1>7 DEF Inv, ChannelInv, EventsRight
<1>11. PermitsRight' /\ LinksRight' /\ BootRight'
  BY <1>2, <1>7 DEF Inv, ChannelInv, PermitsRight, LinksRight, BootRight
<1>12. SocketsRight'
  <2>1. \A u \in Threads : Present(u) /\ u # t => IdOf(u) \in Threads /\ IdOf(u) # e.tid
    BY <1>3, IdsAreThreads DEF Inv
  <2>2. ASSUME NEW u \in Threads, Present(u)
        PROVE  socketOf'[IdOf(u)] \in {u, NoId}
    BY <1>3, <1>5, <2>1, <2>2 DEF Inv, ChannelInv, SocketsRight
  <2>3. \A i \in Threads : socketOf'[i] # NoId => i < nextTid
    BY <1>3, <1>5 DEF Inv, ChannelInv, SocketsRight
  <2> QED
    BY <1>2, <1>7, <2>2, <2>3 DEF SocketsRight
<1>13. TokensRight'
  <2>1. Held' = Held /\ (Top.p)' = Top.p
    BY <1>2 DEF Held, Top
  <2>2. ASSUME NEW x \in buffer \cup Held
        PROVE  Parked(x)'
    <3>1. Parked(x) /\ x.tid # e.tid /\ socketOf[x.tid] # t
      BY <1>3 DEF Inv, ChannelInv, TokensRight
    <3>2. x.tid \in Threads /\ socketOf[x.tid] \in Threads
      BY <3>1 DEF Parked
    <3>3. socketOf'[x.tid] = socketOf[x.tid] /\ toSched'[socketOf[x.tid]] = toSched[socketOf[x.tid]]
      BY <1>5, <3>1, <3>2
    <3> QED
      BY <1>2, <1>7, <3>1, <3>2, <3>3 DEF Parked
  <2>3. ASSUME e \in buffer'
        PROVE  Parked(e)'
    <3>1. e.type # "UNKNOWN"
      BY <1>3, <1>6, <2>3
    <3>2. e.type = Expected(t)
      BY <1>3, <3>1 DEF IsAnnouncement
    <3> QED
      BY <1>2, <1>3, <1>5, <1>7, <3>2 DEF Parked
  <2>4. \A x \in buffer' \cup Held' : Parked(x)'
    BY <1>6, <2>1, <2>2, <2>3
  <2>5. \A x, y \in buffer' \cup Held' : x.tid = y.tid => x = y
    BY <1>3, <1>6, <2>1 DEF Inv, ChannelInv, TokensRight
  <2>6. buffer' \cap Held' = {}
    BY <1>3, <1>6, <2>1 DEF Inv, ChannelInv, TokensRight
  <2> QED
    BY <1>2, <2>1, <2>4, <2>5, <2>6 DEF Inv, ChannelInv, TokensRight
<1> QED
  BY <1>8, <1>9, <1>10, <1>11, <1>12, <1>13 DEF Inv, ChannelInv

\* main's start is the first state of the exploration, or the first event of a
\* replay, which permits it without a look.
LEMMA FirstEventKeeps ==
  ASSUME Inv, FirstEvent
  PROVE  Inv'
<1> USE DEF process, objectTable, threadTable, events
<1>1. PICK e : e = Head(toSched[0])
  OBVIOUS
<1>2. /\ UNCHANGED <<program, pc, step, handle, objects, nextObj, tids, nextTid, status>>
      /\ UNCHANGED <<buffer, informed, kept, runs>>
      /\ mode = "boot" /\ link[0] = "backlog" /\ toSched[0] # <<>>
      /\ socketOf' = UpdateSocket(e, 0)
      /\ link' = [link EXCEPT ![0] = "open"]
      /\ toSched' = [toSched EXCEPT ![0] = Tail(@)]
      /\ IF stack = <<>>
         THEN stack' = <<FirstEntry(e)>> /\ mode' = "idle" /\ toThread' = toThread
         ELSE /\ toThread' = [toThread EXCEPT ![0] = Append(@, e.type)]
              /\ mode' = "replay" \/ (mode' = "match" /\ unmatched' = PendingIn(Top.p))
              /\ stack' = stack
  BY <1>1 DEF FirstEvent
<1>3. 0 \in Threads
  BY HandshakeAssumption DEF Threads
<1>4. /\ e \in Events /\ Blocked(0) /\ Present(0) /\ e.tid = IdOf(0) /\ e.tid \in Threads /\ e.tid < nextTid
      /\ IsAnnouncement(0, e) /\ toThread[0] = <<>> /\ Tail(toSched[0]) = <<>>
      /\ socketOf' = [socketOf EXCEPT ![e.tid] = 0]
  BY <1>1, <1>2, <1>3, EventArrives
<1>5. /\ toSched \in [Threads -> Seq(Events)] /\ socketOf \in [Threads -> Threads \cup {NoId}]
      /\ toThread \in [Threads -> Seq(EventKinds \cup {"SYMM_POINT"})] /\ link \in [Threads -> Links]
      /\ StackRight /\ buffer = {}
  BY <1>2 DEF Inv, ChannelInv, SchedulerTypes, BootRight, StackRight
<1>6. e.type = "THREAD_START" /\ Expected(0) = "THREAD_START"
  <2>1. Here(0).type = "THREAD_START"
    BY <1>2, <1>3, ProgramShape DEF Inv, ProcessInv, ProcessTypes, Here, ChannelInv, BootRight
  <2>2. step[0] = "permit"
    BY <1>2, <1>4 DEF Inv, ChannelInv, BootRight, Blocked
  <2> QED
    BY <1>4, <2>1, <2>2 DEF IsAnnouncement, Expected
<1>7. /\ toSched' \in [Threads -> Seq(Events)] /\ toSched'[0] = <<>>
      /\ \A u \in Threads \ {0} : toSched'[u] = toSched[u]
      /\ socketOf' \in [Threads -> Threads \cup {NoId}]
      /\ \A i \in Threads : socketOf'[i] = IF i = e.tid THEN 0 ELSE socketOf[i]
      /\ link' \in [Threads -> Links]
  <2>1. toSched' = [toSched EXCEPT ![0] = <<>>]
    BY <1>2, <1>4, Zenon
  <2>9. <<>> \in Seq(Events)
    OBVIOUS
  <2>2. /\ toSched' \in [Threads -> Seq(Events)] /\ toSched'[0] = <<>>
        /\ \A u \in Threads \ {0} : toSched'[u] = toSched[u]
    BY <1>3, <1>5, <2>1, <2>9
  <2>3. /\ socketOf' \in [Threads -> Threads \cup {NoId}]
        /\ \A i \in Threads : socketOf'[i] = IF i = e.tid THEN 0 ELSE socketOf[i]
    BY <1>3, <1>4, <1>5
  <2>4. link' \in [Threads -> Links]
    BY <1>2, <1>3, <1>5 DEF Links
  <2> QED
    BY <2>2, <2>3, <2>4
<1>8. /\ \A u \in Threads : /\ Here(u)' = Here(u) /\ Expected(u)' = Expected(u) /\ IdOf(u)' = IdOf(u)
                            /\ Blocked(u)' <=> Blocked(u)
                            /\ Present(u)' <=> Present(u)
      /\ \A u \in Threads : \A x : IsAnnouncement(u, x)' <=> IsAnnouncement(u, x)
  BY <1>2, NobodyRuns
<1>9. ProcessInv'
  BY <1>2, ProcessStays DEF Inv
<1>10. SocketsRight'
  <2>1. \A u \in Threads : Present(u) /\ u # 0 => IdOf(u) \in Threads /\ IdOf(u) # e.tid
    BY <1>3, <1>4, IdsAreThreads DEF Inv
  <2>2. ASSUME NEW u \in Threads, Present(u)
        PROVE  socketOf'[IdOf(u)] \in {u, NoId}
    BY <1>4, <1>7, <2>1, <2>2 DEF Inv, ChannelInv, SocketsRight
  <2>3. \A i \in Threads : socketOf'[i] # NoId => i < nextTid
    BY <1>4, <1>7 DEF Inv, ChannelInv, SocketsRight
  <2> QED
    BY <1>2, <1>8, <2>2, <2>3 DEF SocketsRight
<1>11. LinksRight' /\ BootRight'
  <2>1. status = "running"
    BY <1>2, <1>3 DEF Inv, ChannelInv, LinksRight
  <2>2. mode' # "boot"
    BY <1>2
  <2> QED
    BY <1>2, <1>5, <2>1, <2>2 DEF Inv, ChannelInv, LinksRight, BootRight
<1>12. CASE stack = <<>>
  <2>1. stack' = <<FirstEntry(e)>> /\ mode' = "idle" /\ toThread' = toThread
    BY <1>2, <1>12
  <2>2. /\ FirstEntry(e) \in StackStates /\ OnePer(FirstEntry(e).p)
        /\ PendingIn(FirstEntry(e).p) = {e}
    <3>1. RwAbsent \in [status : RwStatuses, readers : SUBSET Threads, writer : Threads \cup {NoId}]
      BY DEF RwAbsent, RwStatuses
    <3>2. NoEvent \in Events
      BY DEF NoEvent, Ev, Events, EventKinds, NoId
    <3> QED
      BY <1>4, <3>1, <3>2 DEF FirstEntry, Entry, StackStates, PairsOver, OnePer, PendingIn
  <2> HIDE DEF FirstEntry
  <2>3. /\ stack' \in Seq(StackStates) /\ Len(stack') = 1 /\ stack'[1] = FirstEntry(e) /\ stack' # <<>>
        /\ Top' = FirstEntry(e)
    BY <2>1, <2>2 DEF Top
  <2>4. SchedulerTypes'
    <3>1. \A k \in 1 .. Len(stack') : OnePer(stack'[k].p)
      BY <2>2, <2>3
    <3> QED
      BY <1>2, <1>7, <2>1, <2>3, <3>1 DEF Inv, ChannelInv, SchedulerTypes, Modes
  <2>5. EventsRight' /\ PermitsRight'
    BY <1>2, <1>7, <1>8, <2>1 DEF Inv, ChannelInv, EventsRight, PermitsRight
  <2>6. TokensRight'
    <3>1. Held' = {e}
      BY <2>1, <2>2, <2>3 DEF Held
    <3>2. Parked(e)'
      BY <1>2, <1>3, <1>4, <1>6, <1>7, <1>8, <2>1 DEF Parked
    <3> QED
      BY <1>2, <1>5, <2>1, <3>1, <3>2 DEF TokensRight
  <2> QED
    BY <1>9, <1>10, <1>11, <2>4, <2>5, <2>6 DEF Inv, ChannelInv
<1>13. CASE stack # <<>>
  <2>1. /\ toThread' = [toThread EXCEPT ![0] = Append(@, e.type)]
        /\ mode' = "replay" \/ (mode' = "match" /\ unmatched' = PendingIn(Top.p))
        /\ stack' = stack
    BY <1>2, <1>13
  <2>2. /\ toThread' \in [Threads -> Seq(EventKinds \cup {"SYMM_POINT"})] /\ toThread'[0] = <<Expected(0)>>
        /\ \A u \in Threads \ {0} : toThread'[u] = toThread[u]
    <3>1. Append(<<>>, e.type) = <<Expected(0)>> /\ <<Expected(0)>> \in Seq(EventKinds \cup {"SYMM_POINT"})
      BY <1>6 DEF EventKinds, EventTypes, ThreadTypes
    <3> QED
      BY <1>3, <1>4, <1>5, <2>1, <3>1
  <2>3. SchedulerTypes'
    BY <1>2, <1>7, <1>13, <2>1, <2>2 DEF Inv, ChannelInv, SchedulerTypes, Modes
  <2>4. EventsRight'
    BY <1>2, <1>7, <1>8, <2>2 DEF Inv, ChannelInv, EventsRight
  <2>5. PermitsRight'
    BY <1>3, <1>4, <1>8, <2>2 DEF Inv, ChannelInv, PermitsRight
  <2>6. TokensRight'
    <3>1. (Top.p)' = Top.p
      BY <2>1 DEF Top
    <3>2. Held' = {}
      BY <2>1, <3>1 DEF Held
    <3> QED
      BY <1>2, <1>5, <2>1, <3>2 DEF TokensRight
  <2> QED
    BY <1>9, <1>10, <1>11, <2>3, <2>4, <2>5, <2>6 DEF Inv, ChannelInv
<1> QED
  BY <1>12, <1>13

\* A process about to start, with a scheduler that has nothing in hand.
Starting ==
  /\ program \in Programs
  /\ pc = Booting.pc           /\ step = Booting.step  /\ handle = Booting.handle
  /\ objects = Booting.objects /\ nextObj = 1
  /\ tids = Booting.tids       /\ nextTid = 0
  /\ status = "running"        /\ link = Booting.link
  /\ toSched = Booting.channel /\ toThread = Booting.channel
  /\ buffer = {} /\ socketOf = [i \in Threads |-> NoId]
  /\ mode = "boot" /\ StackRight /\ kept \in Events

\* It has the invariant.
LEMMA StartingRight == Starting => Inv
<1> SUFFICES ASSUME Starting
             PROVE  Inv
  OBVIOUS
<1>1. ProcessInv
  BY BootingRight DEF Starting
<1>2. /\ pc = [t \in Threads |-> 1]
      /\ step = [t \in Threads |-> IF t = 0 THEN "call" ELSE "none"]
      /\ link = [t \in Threads |-> "none"]
      /\ toSched = [t \in Threads |-> <<>>] /\ toThread = [t \in Threads |-> <<>>]
  BY DEF Booting, Starting
<1>3. 0 \in Threads
  BY HandshakeAssumption DEF Threads
<1>4. SchedulerTypes
  BY <1>2 DEF Starting, SchedulerTypes, Links, Modes, StackRight
<1>5. EventsRight /\ PermitsRight /\ SocketsRight /\ LinksRight /\ BootRight
  <2>1. EventsRight /\ PermitsRight /\ LinksRight /\ BootRight
    BY <1>2, <1>3 DEF Starting, EventsRight, PermitsRight, LinksRight, BootRight
  <2>2. \A t \in Threads : ~Present(t)
    BY DEF Starting, Present, Booting, IdOf
  <2>3. SocketsRight
    BY <2>2 DEF Starting, SocketsRight
  <2> QED
    BY <2>1, <2>3
<1>6. TokensRight
  <2>1. Held = {}
    BY DEF Starting, Held
  <2> QED
    BY <2>1 DEF Starting, TokensRight
<1> QED
  BY <1>1, <1>4, <1>5, <1>6 DEF Inv, ChannelInv

\* No step changes the program.
LEMMA ProgramStays ==
  ASSUME [Next]_vars
  PROVE  program' = program
<1> USE DEF process, scheduler
<1>1. ASSUME NEW t \in Threads, RunThread(t)
      PROVE  program' = program
  BY <1>1 DEF RunThread, StartThread, RegisterObject, CheckObject, AddUnknown, ReadObject,
     WriteUnseen, UseObject, InitObject, DestroyMutex, AnnounceCall, ReceivePermit, CreateThread,
     InsertCreated, AnnounceCreated, JoinThread, RemoveJoined, ExitProcess, ProcessAborts
<1>2. ASSUME NEW t \in Threads, Accept(t) \/ Receive(t) \/ HangUp(t)
      PROVE  program' = program
  BY <1>2 DEF Accept, Receive, HangUp
<1>3. ASSUME NEW e, TakeEvent(e)
      PROVE  program' = program
  BY <1>3 DEF TakeEvent, TakeInfo, TakeNext, TakePostCreate, TakeAfterPost, TakeStart, TakeFirst,
     ReplayEvent, ReplayCreate, ReplayPost, ReplayStart, MatchEvent, PermitFails
<1>4. ASSUME NEW e, PermitEvent(e) \/ PermitFails(e)
      PROVE  program' = program
  BY <1>4 DEF PermitEvent, PermitFails
<1>5. ASSUME FirstEvent \/ Finish \/ (\E k \in 2 .. Len(stack) : Restart(k))
      PROVE  program' = program
  BY <1>5 DEF FirstEvent, Finish, Restart
<1> QED
  BY <1>1, <1>2, <1>3, <1>4, <1>5 DEF Next, vars

\* A run is over and another one starts.
LEMMA RestartStarts ==
  ASSUME Inv, NEW k \in 2 .. Len(stack), Restart(k)
  PROVE  Starting'
<1>1. /\ k \in 2 .. Len(stack) - 1 /\ stack' = SubSeq(stack, 1, k)
      /\ FreshProcess /\ ResetBuffer /\ mode' = "boot"
      /\ program' = program /\ kept' = kept
  BY DEF Restart
<1>2. program \in Programs /\ StackRight /\ kept \in Events
  BY DEF Inv, ProcessInv, ProcessTypes, ChannelInv, SchedulerTypes, StackRight
<1>3. StackRight'
  <2>1. Len(stack) \in Nat /\ k \in 1 .. Len(stack) /\ stack \in Seq(StackStates)
    BY <1>1, <1>2 DEF StackRight
  <2>2. /\ stack' \in Seq(StackStates) /\ Len(stack') = k
        /\ \A i \in 1 .. k : stack'[i] = stack[i]
    BY <1>1, <2>1
  <2>3. \A i \in 1 .. k : i \in 1 .. Len(stack)
    BY <2>1
  <2>4. \A i \in 1 .. Len(stack') : OnePer(stack'[i].p)
    BY <1>2, <2>2, <2>3 DEF StackRight
  <2> QED
    BY <2>2, <2>4 DEF StackRight
<1>4. /\ pc' = (Booting.pc)'           /\ step' = (Booting.step)' /\ handle' = (Booting.handle)'
      /\ objects' = (Booting.objects)' /\ nextObj' = 1
      /\ tids' = (Booting.tids)'       /\ nextTid' = 0
      /\ status' = "running"           /\ link' = (Booting.link)'
      /\ toSched' = (Booting.channel)' /\ toThread' = (Booting.channel)'
  BY <1>1 DEF FreshProcess, Booting
<1>5. buffer' = {} /\ socketOf' = [i \in Threads |-> NoId]
  BY <1>1 DEF ResetBuffer
<1> QED
  BY <1>1, <1>2, <1>3, <1>4, <1>5 DEF Starting

\* It starts with the invariant.
LEMMA RestartKeeps ==
  ASSUME Inv, NEW k \in 2 .. Len(stack), Restart(k)
  PROVE  Inv'
<1>1. (Starting => Inv)'
  BY StartingRight, PTL
<1> QED
  BY <1>1, RestartStarts

\* The exploration is over.
LEMMA FinishKeeps ==
  ASSUME Inv, Finish
  PROVE  Inv'
<1> USE DEF process, objectTable, threadTable, channels, events
<1>1. /\ UNCHANGED <<program, pc, step, handle, objects, nextObj, tids, nextTid>>
      /\ UNCHANGED <<link, toSched, toThread, stack, buffer, socketOf, kept>>
      /\ mode = "idle" /\ mode' = "end" /\ status' = "exited"
  BY DEF Finish
<1>2. /\ \A u \in Threads : /\ Here(u)' = Here(u) /\ Expected(u)' = Expected(u) /\ IdOf(u)' = IdOf(u)
                            /\ Blocked(u)' <=> Blocked(u)
                            /\ Present(u)' <=> Present(u)
      /\ \A u \in Threads : \A e : IsAnnouncement(u, e)' <=> IsAnnouncement(u, e)
  BY <1>1, NobodyRuns
<1>3. ProcessInv'
  BY <1>1, ProcessStays DEF Inv
<1>4. SchedulerTypes'
  BY <1>1 DEF Inv, ChannelInv, SchedulerTypes, Modes
<1>5. EventsRight' /\ PermitsRight'
  BY <1>1, <1>2 DEF Inv, ChannelInv, EventsRight, PermitsRight
<1>6. SocketsRight' /\ LinksRight' /\ BootRight'
  BY <1>1, <1>2 DEF Inv, ChannelInv, SocketsRight, LinksRight, BootRight
<1>7. TokensRight'
  <2>1. Held' = {}
    BY <1>1 DEF Held
  <2>2. \A e \in buffer : Parked(e)
    BY DEF Inv, ChannelInv, TokensRight
  <2>3. \A e : Parked(e)' <=> Parked(e)
    BY <1>1, <1>2 DEF Parked
  <2>4. \A e, f \in buffer : e.tid = f.tid => e = f
    BY DEF Inv, ChannelInv, TokensRight
  <2> QED
    BY <1>1, <2>1, <2>2, <2>3, <2>4 DEF TokensRight
<1> QED
  BY <1>3, <1>4, <1>5, <1>6, <1>7 DEF Inv, ChannelInv

\* The invariant holds at the beginning.
LEMMA InitRight == Init => Inv
<1> SUFFICES ASSUME Init
             PROVE  Inv
  OBVIOUS
<1>1. NoEvent \in Events
  BY DEF NoEvent, Ev, Events, EventKinds, NoId
<1>2. StackRight
  BY DEF Init, StackRight
<1>3. Starting
  BY <1>1, <1>2 DEF Init, Starting
<1> QED
  BY <1>3, StartingRight

\* Every step keeps it.
LEMMA StepKeeps ==
  ASSUME Inv, Orderly, [Next]_vars
  PROVE  Inv'
<1>1. ASSUME NEW t \in Threads, RunThread(t) \/ Accept(t) \/ Receive(t) \/ HangUp(t)
      PROVE  Inv'
  BY <1>1, ProcessStepKeeps, LinkKeeps, ReceivedKeeps
<1>2. CASE FirstEvent
  BY <1>2, FirstEventKeeps
<1>3. ASSUME mode = "idle", NEW e \in Top.p.enabled, PermitEvent(e) \/ PermitFails(e)
      PROVE  Inv'
  BY <1>3, PermitKeeps, PermitFailsKeeps
<1>4. ASSUME NEW e \in buffer, TakeEvent(e)
      PROVE  Inv'
  <2>1. CASE TakePostCreate(e) /\ Selected.type # "THREAD_PRE_CREATE"
    BY <2>1, TakenAborts DEF TakePostCreate, Take
  <2>2. CASE TakeStart(e) /\ e.type # "THREAD_START"
    BY <2>2, TakenAborts DEF TakeStart, Take
  <2> QED
    BY <1>4, <2>1, <2>2, InfoKeeps, NextKeeps, PostCreateKeeps, AfterPostKeeps,
       StartTakenKeeps, FirstKeeps, ReplayKeeps, MatchKeeps, PermitFailsKeeps DEF TakeEvent
<1>5. ASSUME NEW k \in 2 .. Len(stack), Restart(k)
      PROVE  Inv'
  BY <1>5, RestartKeeps
<1>6. CASE Finish
  BY <1>6, FinishKeeps
<1>7. CASE UNCHANGED vars
  <2>1. /\ UNCHANGED <<program, pc, step, handle, objects, nextObj, tids, nextTid, status>>
        /\ UNCHANGED <<link, toSched, toThread, stack, buffer, socketOf, mode, kept, unmatched>>
    BY <1>7 DEF vars, process, objectTable, threadTable, channels, events, scheduler
  <2> QED
    BY <2>1, ProcessStays, NobodyRuns DEF Inv, ChannelInv, SchedulerTypes, EventsRight, PermitsRight,
       SocketsRight, TokensRight, Held, Parked, LinksRight, BootRight, Top
<1> QED
  BY <1>1, <1>2, <1>3, <1>4, <1>5, <1>6, <1>7 DEF Next

----------------------------------------------------------------------------
(* Theorems.                                                               *)

\* In an orderly program a thread in use has an id, and so has the thread it
\* creates or joins.
LEMMA AssertsHold ==
  ASSUME Inv, Orderly, NEW t \in Threads
  PROVE  ThreadAsserts(t)
<1> DEFINE i == pc[t]
           u == Here(t).aux
<1>1. /\ program \in Programs /\ pc \in [Threads -> Nat] /\ step \in [Threads -> Steps]
      /\ i \in 1 .. Len(program[t]) /\ Here(t) = program[t][i]
  BY DEF Inv, ProcessInv, ProcessTypes, Here
<1>2. step[t] \in {"call", "read"} /\ Here(t).type # "THREAD_START" => Registered(t)
  <2>1. SUFFICES ASSUME step[t] \in {"call", "read"}, Here(t).type # "THREAD_START"
                 PROVE  Registered(t)
    OBVIOUS
  <2>2. i # 1
    BY <1>1, <2>1, ProgramShape
  <2> QED
    BY <2>1, <2>2 DEF Inv, ProcessInv, NumbersRight, Live, Numbered, Started
<1>3. Calls(t, {"THREAD_JOIN"}) => Registered(u)
  <2>1. SUFFICES ASSUME Calls(t, {"THREAD_JOIN"})
                 PROVE  Registered(u)
    OBVIOUS
  <2>2. step[t] = "call" /\ Here(t).type = "THREAD_JOIN"
    BY <2>1 DEF Calls, Runs
  <2>3. Joins(t, i, u) /\ u \in Threads \ {0}
    BY <1>1, <2>2, ProgramShape DEF Joins, NamingTypes
  <2>4. step[u] # "joined"
    BY <1>1, <2>2, <2>3 DEF Inv, ProcessInv, JoinedRight, Past
  <2>5. PICK c \in Threads : \E j \in 1 .. Len(program[c]) : Creates(c, j, u)
    BY <1>1, <2>3, JoinedIsCreated
  <2>6. PICK j \in 1 .. Len(program[c]) : Creates(c, j, u)
    BY <2>5
  <2>7. (t = c /\ i > j) \/ \E k \in 1 .. Len(program[t]) : k < i /\ Joins(t, k, c)
    <3>1. \E v \in Threads : \E l \in 1 .. Len(program[v]) :
            /\ Joins(v, l, u)
            /\ (v = c /\ l > j) \/ \E k \in 1 .. Len(program[v]) : k < l /\ Joins(v, k, c)
      BY <2>3, <2>6, OrderlyProgram
    <3>2. \A v \in Threads : \A l \in 1 .. Len(program[v]) : Joins(v, l, u) => v = t /\ l = i
      BY <1>1, <2>3, NamedOnce
    <3> QED
      BY <3>1, <3>2
  <2>8. step[c] # "none" /\ j < pc[c]
    <3>1. CASE t = c /\ i > j
      BY <2>2, <3>1
    <3>2. CASE \E k \in 1 .. Len(program[t]) : k < i /\ Joins(t, k, c)
      <4>1. step[c] = "joined"
        BY <1>1, <2>2, <3>2 DEF Inv, ProcessInv, JoinedRight, Past
      <4>2. Here(c).type \in EndTypes /\ pc[c] \in 1 .. Len(program[c])
        BY <4>1 DEF Inv, ProcessInv, ProcessTypes, StepsFit
      <4>3. pc[c] = Len(program[c])
        BY <1>1, <4>2, ProgramShape DEF Here
      <4>4. j # Len(program[c])
        BY <1>1, <2>6, ProgramShape DEF Creates, EndTypes
      <4> QED
        BY <4>1, <4>2, <4>3, <4>4
    <3> QED
      BY <2>7, <3>1, <3>2
  <2>9. step[u] # "none" /\ Inserted(u)
    BY <2>3, <2>6, <2>8 DEF Inv, ProcessInv, CreatedRight, Inserted, Past
  <2> QED
    BY <2>3, <2>4, <2>9 DEF Inv, ProcessInv, NumbersRight, Live, Numbered
<1>4. step[t] = "post" => Registered(u)
  BY ChildHasId DEF Inv, AfterInsert
<1>5. HasPermit(t) => Head(toThread[t]) = Expected(t)
  <2>1. SUFFICES ASSUME toThread[t] # <<>>
                 PROVE  Head(toThread[t]) = Expected(t)
    BY DEF HasPermit
  <2>2. toThread[t] = <<Expected(t)>>
    BY <2>1 DEF Inv, ChannelInv, PermitsRight
  <2> QED
    BY <2>2
<1>6. step[t] = "read" => Here(t).type = "OBJ_READ"
  BY DEF Inv, ProcessInv, StepsFit
<1> QED
  BY <1>2, <1>3, <1>4, <1>5, <1>6 DEF ThreadAsserts, Calls, Runs

\* While an orderly program runs no wrapper stops it on an assertion about
\* threads (object_table.cc:298 and 371, the permits of inspect_pthread.cc): a
\* thread in use, created or joined is in the table, a permit is the expected one.
ThreadAssertsHold ==
  status = "running" => (\A t \in Threads : ThreadAsserts(t)) \/ ~Orderly

\* While the process runs no event the scheduler has, or may permit, is that of
\* a thread whose connection is closed: permits are lost or refused
\* (next_state.cc:107) only once the process has ended.
PermitsReach ==
  status = "running" =>
    \/ \A e \in buffer \cup Held : link[socketOf[e.tid]] \notin {"shut", "removed"}
    \/ ~Orderly

\* The invariant implies the properties.
LEMMA InvImplies ==
  Inv /\ Orderly => ThreadIdsAgree /\ PermitsExpected /\ OneOutstanding /\ ThreadAssertsHold /\ PermitsReach
<1> SUFFICES ASSUME Inv, Orderly
             PROVE  /\ ThreadIdsAgree /\ PermitsExpected /\ OneOutstanding
                    /\ ThreadAssertsHold /\ PermitsReach
  OBVIOUS
<1>1. ThreadIdsAgree
  <2>1. SUFFICES ASSUME NEW t \in Threads, Present(t)
                 PROVE  /\ \A u \in Threads \ {t} : Present(u) => IdOf(u) # IdOf(t)
                        /\ toSched[t] # <<>> => toSched[t][1].tid = IdOf(t)
                        /\ toSched[t] # <<>> /\ toSched[t][1].type = "THREAD_POST_CREATE"
                             => toSched[t][1].aux = IdOf(Here(t).aux)
                        /\ socketOf[IdOf(t)] \in {t, NoId}
    BY DEF ThreadIdsAgree
  <2>2. \A u \in Threads \ {t} : Present(u) => IdOf(u) # IdOf(t)
    BY <2>1, IdsAreThreads DEF Inv
  <2>3. toSched[t] # <<>> => Blocked(t) /\ IsAnnouncement(t, toSched[t][1])
    BY DEF Inv, ChannelInv, EventsRight
  <2>4. Expected(t) = "THREAD_POST_CREATE" => step[t] = "created"
    <3>1. Here(t) \in Operation
      BY AtOperation DEF Inv, ProcessInv
    <3>2. Here(t).type # "THREAD_POST_CREATE"
      BY <3>1 DEF Operation, OpTypes, MutexTypes, CondTypes, RwlockTypes, ObjectTypes
    <3> QED
      BY <3>2 DEF Expected
  <2>5. socketOf[IdOf(t)] \in {t, NoId}
    BY <2>1 DEF Inv, ChannelInv, SocketsRight
  <2> QED
    BY <2>2, <2>3, <2>4, <2>5 DEF IsAnnouncement
<1>2. PermitsExpected
  BY DEF Inv, ChannelInv, PermitsRight, PermitsExpected, Blocked
<1>3. OneOutstanding
  <2>1. SUFFICES ASSUME NEW t \in Threads, toSched[t] # <<>>
                 PROVE  Len(toSched[t]) <= 1 /\ ~Alive(buffer, toSched[t][1].tid)
    BY DEF OneOutstanding
  <2>2. PICK f : f = toSched[t][1]
    OBVIOUS
  <2>3. toSched[t] = <<f>>
    BY <2>1, <2>2 DEF Inv, ChannelInv, EventsRight
  <2>4. Len(<<f>>) = 1 /\ Head(<<f>>) = f
    OBVIOUS
  <2>5. \A x \in buffer : x.tid # f.tid
    BY <2>1, <2>3, <2>4, EventArrives
  <2> QED
    BY <2>2, <2>3, <2>4, <2>5 DEF Alive, EventsOf
<1>4. ThreadAssertsHold
  BY AssertsHold DEF ThreadAssertsHold
<1>5. PermitsReach
  <2>1. SUFFICES ASSUME status = "running", NEW e \in buffer \cup Held
                 PROVE  link[socketOf[e.tid]] \notin {"shut", "removed"}
    BY DEF PermitsReach
  <2>2. Parked(e)
    BY DEF Inv, ChannelInv, TokensRight
  <2>3. socketOf[e.tid] \in Threads /\ Blocked(socketOf[e.tid])
    BY <2>2 DEF Parked
  <2> QED
    BY <2>1, <2>3 DEF Inv, ChannelInv, LinksRight, Blocked
<1> QED
  BY <1>1, <1>2, <1>3, <1>4, <1>5

\* For any number of threads, any programs and any number of runs: the process of
\* an orderly program keeps its tables right, and every event and every permit
\* is in the one place where it belongs, also while the scheduler replays.
THEOREM OrderlyInvariant == Spec => [](Orderly => Inv)
<1>1. Init => (Orderly => Inv)
  BY InitRight
<1>2. (Orderly => Inv) /\ [Next]_vars => (Orderly => Inv)'
  <2>1. SUFFICES ASSUME Orderly => Inv, [Next]_vars, Orderly'
                 PROVE  Inv'
    OBVIOUS
  <2>2. Orderly
    BY <2>1, ProgramStays DEF Orderly
  <2> QED
    BY <2>1, <2>2, StepKeeps
<1> QED
  BY <1>1, <1>2, PTL DEF Spec

\* The process and the scheduler mean the same thread by an id, although parent
\* and child race to insert it and a pthread_t is used again.
THEOREM IdsAgree == Spec => []ThreadIdsAgree
<1>1. (Orderly => Inv) => ThreadIdsAgree
  BY InvImplies DEF ThreadIdsAgree
<1> QED
  BY <1>1, OrderlyInvariant, PTL

\* The permit on its way is the one its thread waits for: the assertions
\* permit == ..._PERM of the wrappers.
THEOREM PermitsAreExpected == Spec => []PermitsExpected
<1>1. (Orderly => Inv) => PermitsExpected
  BY InvImplies DEF PermitsExpected
<1> QED
  BY <1>1, OrderlyInvariant, PTL

\* A thread announces nothing before its last event has been taken out of the
\* buffer: the assertion !has_event of collect_events.
THEOREM EventsOutstanding == Spec => [](Orderly => OneOutstanding)
<1>1. (Orderly => Inv) => (Orderly => OneOutstanding)
  BY InvImplies
<1> QED
  BY <1>1, OrderlyInvariant, PTL

\* No wrapper stops an orderly program on an assertion about threads.
THEOREM ThreadAssertsNeverFail == Spec => []ThreadAssertsHold
<1>1. (Orderly => Inv) => ThreadAssertsHold
  BY InvImplies DEF ThreadAssertsHold
<1> QED
  BY <1>1, OrderlyInvariant, PTL

\* Permits reach their threads while the process runs.
THEOREM PermitsReachThreads == Spec => []PermitsReach
<1>1. (Orderly => Inv) => PermitsReach
  BY InvImplies DEF PermitsReach
<1> QED
  BY <1>1, OrderlyInvariant, PTL

----------------------------------------------------------------------------
(* The objects of proper programs.                                         *)

\* In a proper program only main, while it is alone, initialises and registers
\* objects, each as the first thing it does with it; every other operation works
\* on objects main has added while it was alone, and main destroys a mutex when
\* the threads that use it are joined.
LEMMA ProperProgram ==
  ASSUME Proper
  PROVE  /\ Orderly /\ program \in Programs
         /\ \A t \in Threads : \A i \in 1 .. Len(program[t]) :
              /\ program[t][i].type \in AddressTypes => program[t][i].at \in Addresses
              /\ \/ t = 0 /\ Early(program, i)
                 \/ \A a \in AddressesOf(program[t][i]) : Adds(program, a) # {}
              /\ program[t][i].type \in InitTypes \cup {"OBJ_REG"} =>
                   /\ t = 0 /\ Early(program, i)
                   /\ \A j \in Adds(program, AddressOf(program[t][i])) : i <= j
              /\ program[t][i].type = "MUTEX_DESTROY" => t = 0
         /\ \A i \in 1 .. Len(program[0]) :
              program[0][i].type \in UseTypes \cup {"MUTEX_DESTROY"} /\ Early(program, i) =>
                \E j \in Adds(program, AddressOf(program[0][i])) : j < i
         /\ \A d \in 1 .. Len(program[0]) : program[0][d].type = "MUTEX_DESTROY" =>
              \A t \in Threads : \A i \in 1 .. Len(program[t]) :
                program[0][d].at \in AddressesOf(program[t][i]) =>
                  \/ t = 0 /\ i <= d
                  \/ \E k \in 1 .. Len(program[0]) : k < d /\ Joins(0, k, t)
<1>1. /\ program \in OrderlyPrograms /\ program \in Programs
      /\ RegistersFirst(program) /\ UsesAdded(program)
  BY DEF Proper, ProperPrograms, OrderlyPrograms
<1>2. 0 \in Threads
  BY HandshakeAssumption DEF Threads
<1>3. \A t \in Threads : \A i \in 1 .. Len(program[t]) : program[t][i].type \in OpTypes
  BY <1>1, ProgramShape DEF Operation
<1>4. ASSUME NEW t \in Threads, NEW i \in 1 .. Len(program[t])
      PROVE  /\ program[t][i].type \in AddressTypes => program[t][i].at \in Addresses
             /\ \/ t = 0 /\ Early(program, i)
                \/ \A a \in AddressesOf(program[t][i]) : Adds(program, a) # {}
  <2>1. program[t][i].type \in AddressTypes => program[t][i].at \in Addresses
    BY <1>1, HandshakeAssumption
  <2>2. <<t, i>> \in Positions(program, OpTypes)
    BY <1>3, PositionsAre
  <2>3. \A x \in Positions(program, OpTypes) :
          (x[1] = 0 /\ Early(program, x[2]))
            \/ \A a \in AddressesOf(program[x[1]][x[2]]) : Adds(program, a) # {}
    BY <1>1 DEF RegistersFirst
  <2> QED
    BY <2>1, <2>2, <2>3
<1>5. ASSUME NEW t \in Threads, NEW i \in 1 .. Len(program[t]),
             program[t][i].type \in InitTypes \cup {"OBJ_REG"}
      PROVE  /\ t = 0 /\ Early(program, i)
             /\ \A j \in Adds(program, AddressOf(program[t][i])) : i <= j
  <2>1. <<t, i>> \in Positions(program, InitTypes \cup {"OBJ_REG"}) /\ <<t, i>> \in Positions(program, AddTypes)
    BY <1>5, PositionsAre DEF AddTypes
  <2>2. \A y \in Positions(program, AddTypes) :
          AddressOf(program[t][i]) = AddressOf(program[y[1]][y[2]]) =>
            t = 0 /\ Early(program, i) /\ (y[1] = 0 => i <= y[2])
    BY <1>1, <2>1 DEF RegistersFirst
  <2>3. t = 0 /\ Early(program, i)
    BY <2>1, <2>2
  <2>4. ASSUME NEW j \in Adds(program, AddressOf(program[t][i]))
        PROVE  i <= j
    <3>1. /\ j \in 1 .. Len(program[0]) /\ program[0][j].type \in AddTypes
          /\ AddressOf(program[0][j]) = AddressOf(program[t][i])
      BY DEF Adds
    <3>2. <<0, j>> \in Positions(program, AddTypes)
      BY <1>2, <3>1, PositionsAre
    <3> QED
      BY <2>2, <3>1, <3>2
  <2> QED
    BY <2>3, <2>4
<1>6. ASSUME NEW t \in Threads, NEW i \in 1 .. Len(program[t]), program[t][i].type = "MUTEX_DESTROY"
      PROVE  t = 0
  <2>1. <<t, i>> \in Positions(program, {"MUTEX_DESTROY"})
    BY <1>6, PositionsAre
  <2> QED
    BY <1>1, <2>1 DEF UsesAdded
<1>7. ASSUME NEW i \in 1 .. Len(program[0]),
             program[0][i].type \in UseTypes \cup {"MUTEX_DESTROY"}, Early(program, i)
      PROVE  \E j \in Adds(program, AddressOf(program[0][i])) : j < i
  <2>1. <<0, i>> \in Positions(program, UseTypes \cup {"MUTEX_DESTROY"})
    BY <1>2, <1>7, PositionsAre
  <2> QED
    BY <1>1, <1>7, <2>1 DEF UsesAdded
<1>8. ASSUME NEW d \in 1 .. Len(program[0]), program[0][d].type = "MUTEX_DESTROY",
             NEW t \in Threads, NEW i \in 1 .. Len(program[t]),
             program[0][d].at \in AddressesOf(program[t][i])
      PROVE  \/ t = 0 /\ i <= d
             \/ \E k \in 1 .. Len(program[0]) : k < d /\ Joins(0, k, t)
  <2>1. <<0, d>> \in Positions(program, {"MUTEX_DESTROY"}) /\ <<t, i>> \in Positions(program, OpTypes)
    BY <1>2, <1>3, <1>8, PositionsAre
  <2>2. CASE <<t, i>> = <<0, d>>
    BY <2>2
  <2>3. CASE <<t, i>> # <<0, d>>
    <3>1. (t = 0 /\ i < d) \/ JoinedBefore(program, t, <<0, d>>)
      BY <1>1, <1>8, <2>1, <2>3 DEF UsesAdded
    <3>2. ASSUME JoinedBefore(program, t, <<0, d>>)
          PROVE  \E k \in 1 .. Len(program[0]) : k < d /\ Joins(0, k, t)
      <4>1. PICK y \in JoinsOf(program, t) : y[1] = 0 /\ y[2] < d
        BY <3>2 DEF JoinedBefore
      <4>2. \E v \in Threads : \E k \in 1 .. Len(program[v]) : y = <<v, k>> /\ Joins(v, k, t)
        BY PositionsOnly DEF JoinsOf, Joins
      <4> QED
        BY <4>1, <4>2
    <3> QED
      BY <3>1, <3>2
  <2> QED
    BY <2>2, <2>3
<1> QED
  BY <1>1, <1>4, <1>5, <1>6, <1>7, <1>8 DEF Orderly

\* main has added an address,
AddedAt(i) == i < pc[0] \/ (i = pc[0] /\ step[0] \notin {"call", "add"})
\* at any of the operations that add it,
Added(a)   == \E i \in Adds(program, a) : AddedAt(i)
\* or has come past the point of an operation that removes one,
DestroyedAt(i) == i < pc[0] \/ (i = pc[0] /\ step[0] # "call")
\* and so has destroyed the mutex at it.
Destroyed(a)   == \E i \in 1 .. Len(program[0]) :
                    program[0][i].type = "MUTEX_DESTROY" /\ program[0][i].at = a /\ DestroyedAt(i)

\* The table of objects has what main has added and not destroyed.
ObjectsRight ==
  /\ nextObj \in Nat \ {0}
  /\ \A a \in Addresses : Known(a) <=> Added(a) /\ ~Destroyed(a)

\* main is alone until it creates a thread,
MainFirst ==
  /\ step[0] # "none"
  /\ \A t \in Threads \ {0} : step[t] # "none" => ~Early(program, pc[0])
\* and only then a read finds an address that is not in the table.
AddsAlone ==
  \A t \in Threads : step[t] = "add" => t = 0 /\ Early(program, pc[0]) /\ ~Known(Here(t).at)

\* The invariant of the objects.
ObjectInv == ObjectsRight /\ MainFirst /\ AddsAlone

\* The address an operation adds or must know is one it works on.
LEMMA AddressIsUsed ==
  ASSUME program \in Programs, NEW t \in Threads, NEW i \in 1 .. Len(program[t]),
         program[t][i].type \in AddressTypes \cup CondTypes, Proper
  PROVE  /\ AddressOf(program[t][i]) \in Addresses
         /\ AddressOf(program[t][i]) \in AddressesOf(program[t][i])
<1>1. /\ program[t][i].type \in CondTypes => program[t][i].aux \in Addresses
      /\ program[t][i].type \in AddressTypes => program[t][i].at \in Addresses
  BY ProgramShape, ProperProgram
<1>2. NoId \notin Addresses
  BY HandshakeAssumption DEF NoId
<1> QED
  BY <1>1, <1>2 DEF AddressOf, AddressesOf

\* What a thread is about to use has been added, at least once main is not alone,
\* and has not been destroyed.
LEMMA UsesAlive ==
  ASSUME ProcessInv, Proper, MainFirst, NEW t \in Threads, step[t] \in {"call", "add"},
         NEW a \in AddressesOf(Here(t))
  PROVE  /\ ~Destroyed(a)
         /\ Added(a) \/ (t = 0 /\ Early(program, pc[0]))
<1>1. /\ program \in Programs /\ pc \in [Threads -> Nat] /\ 0 \in Threads
      /\ pc[t] \in 1 .. Len(program[t]) /\ Here(t) = program[t][pc[t]]
  BY HandshakeAssumption DEF ProcessInv, ProcessTypes, Here, Threads
<1>2. ASSUME Destroyed(a)
      PROVE  FALSE
  <2>1. PICK d \in 1 .. Len(program[0]) :
          program[0][d].type = "MUTEX_DESTROY" /\ program[0][d].at = a /\ DestroyedAt(d)
    BY <1>2 DEF Destroyed
  <2>2. CASE t = 0 /\ pc[t] <= d
    <3>1. d = pc[0] /\ step[0] # "call"
      BY <1>1, <2>1, <2>2 DEF DestroyedAt
    <3>2. Here(0).type = "OBJ_READ"
      BY <1>1, <2>2, <3>1 DEF ProcessInv, StepsFit
    <3> QED
      BY <2>1, <3>1, <3>2 DEF Here
  <2>3. ASSUME NEW k \in 1 .. Len(program[0]), k < d, Joins(0, k, t)
        PROVE  FALSE
    <3>1. Past(0, k, {"remove"})
      <4>1. step[0] # "none" /\ k < pc[0]
        BY <1>1, <2>1, <2>3 DEF DestroyedAt, MainFirst
      <4> QED
        BY <4>1 DEF Past
    <3>2. step[t] = "joined"
      BY <1>1, <2>3, <3>1 DEF ProcessInv, JoinedRight
    <3> QED
      BY <3>2
  <2> QED
    BY <1>1, <2>1, <2>2, <2>3, ProperProgram
<1>3. ASSUME ~(t = 0 /\ Early(program, pc[0]))
      PROVE  Added(a)
  <2>1. ~Early(program, pc[0])
    BY <1>3 DEF MainFirst
  <2>2. PICK i \in Adds(program, a) : TRUE
    BY <1>1, <2>1, ProperProgram
  <2>3. i \in 1 .. Len(program[0]) /\ Early(program, i)
    BY <2>2 DEF Adds
  <2>4. i < pc[0]
    BY <1>1, <2>1, <2>3 DEF Early
  <2> QED
    BY <2>2, <2>4 DEF Added, AddedAt
<1> QED
  BY <1>2, <1>3

\* Once main has created a thread it has for good.
LEMMA EarlyBefore ==
  ASSUME NEW prog, NEW i \in Nat, NEW j \in Nat, i <= j, Early(prog, j)
  PROVE  Early(prog, i)
BY DEF Early

\* A step of thread t that creates none.
LEMMA ThreadsRemain ==
  ASSUME ProcessInv, NEW t \in Threads, RunThread(t), ~CreateThread(t)
  PROVE  /\ \A u \in Threads : step'[u] # "none" <=> step[u] # "none"
         /\ \A u \in Threads : pc'[u] = pc[u] \/ pc'[u] = pc[u] + 1
<1> USE DEF process, objectTable, threadTable
<1>1. pc \in [Threads -> Nat] /\ step \in [Threads -> Steps]
  BY DEF ProcessInv, ProcessTypes
<1>2. CASE JoinThread(t)
  <2>1. Here(t).aux \in Threads /\ step[t] = "join" /\ step[Here(t).aux] = "ended" /\ pc' = pc
        /\ step' = [step EXCEPT ![Here(t).aux] = "joined", ![t] = "remove"]
    BY <1>2, AtOperation DEF JoinThread, Runs, ProcessInv
  <2> QED
    BY <1>1, <2>1
<1>3. CASE ExitProcess(t) \/ ProcessAborts(t)
  BY <1>3 DEF ExitProcess, ProcessAborts
<1>4. CASE \/ StartThread(t) \/ RegisterObject(t) \/ CheckObject(t) \/ AddUnknown(t) \/ ReadObject(t)
           \/ WriteUnseen(t) \/ UseObject(t) \/ InitObject(t) \/ DestroyMutex(t) \/ AnnounceCall(t)
           \/ ReceivePermit(t) \/ InsertCreated(t) \/ AnnounceCreated(t) \/ RemoveJoined(t)
  <2>1. step[t] # "none"
    BY <1>4 DEF StartThread, RegisterObject, CheckObject, AddUnknown, ReadObject, WriteUnseen, UseObject,
       InitObject, DestroyMutex, AnnounceCall, ReceivePermit, InsertCreated, AnnounceCreated, RemoveJoined,
       Calls, Runs, HasPermit
  <2>2. \/ pc' = pc /\ \E s \in Steps \ {"none"} : step' = [step EXCEPT ![t] = s]
        \/ Return(t)
    BY <1>4 DEF StartThread, RegisterObject, CheckObject, AddUnknown, ReadObject, WriteUnseen, UseObject,
       InitObject, DestroyMutex, AnnounceCall, ReceivePermit, InsertCreated, AnnounceCreated, RemoveJoined,
       GoTo, Steps
  <2> QED
    BY <1>1, <2>1, <2>2 DEF Return
<1> QED
  BY <1>2, <1>3, <1>4 DEF RunThread

\* main stays alone until it creates a thread.
LEMMA MainFirstKeeps ==
  ASSUME ProcessInv, MainFirst, NEW t \in Threads, RunThread(t)
  PROVE  MainFirst'
<1>1. pc \in [Threads -> Nat] /\ step \in [Threads -> Steps] /\ 0 \in Threads
  BY HandshakeAssumption DEF ProcessInv, ProcessTypes, Threads
<1>2. program' = program
  BY ProgramStays DEF Next
<1>3. CASE ~CreateThread(t)
  <2>1. /\ \A u \in Threads : step'[u] # "none" <=> step[u] # "none"
        /\ pc[0] <= pc'[0] /\ pc'[0] \in Nat
    BY <1>1, <1>3, ThreadsRemain
  <2> QED
    BY <1>1, <1>2, <2>1, EarlyBefore DEF MainFirst
<1>4. CASE CreateThread(t)
  <2>1. /\ step[t] = "create" /\ Here(t).aux \in Threads \ {0} /\ Creates(t, pc[t], Here(t).aux)
        /\ pc' = [pc EXCEPT ![Here(t).aux] = 1]
        /\ step' = [step EXCEPT ![Here(t).aux] = "call", ![t] = "insert"]
    BY <1>4, AtOperation DEF CreateThread, Runs, ProcessInv
  <2>2. step'[0] # "none" /\ pc'[0] = pc[0]
    BY <1>1, <2>1 DEF MainFirst
  <2>3. ~Early(program, pc[0])
    BY <1>1, <2>1 DEF MainFirst, Creates, Early
  <2> QED
    BY <1>2, <2>2, <2>3 DEF MainFirst
<1> QED
  BY <1>3, <1>4

\* main does not move, or moves within a wrapper, or into or out of one that
\* adds and destroys no object.
MainMoves ==
  /\ program' = program
  /\ \/ pc'[0] = pc[0] /\ step'[0] = step[0]
     \/ pc'[0] = pc[0] /\ step[0] \notin {"call", "add"} /\ step'[0] \notin {"call", "add"}
     \/ /\ pc'[0] = pc[0] /\ step[0] = "call" /\ step'[0] \notin {"call", "add"}
        /\ Here(0).type \notin AddTypes \cup {"MUTEX_DESTROY"}
     \/ /\ pc'[0] = pc[0] + 1 /\ step'[0] = "call"
        /\ \/ step[0] \notin {"call", "add"}
           \/ step[0] = "call" /\ Here(0).type \notin AddTypes \cup {"MUTEX_DESTROY"}

\* Then the objects are as they were.
LEMMA ObjectsStay ==
  ASSUME ProcessInv, ObjectInv, MainFirst', MainMoves, objects' = objects, nextObj' = nextObj,
         \A u \in Threads : step'[u] = "add" => step[u] = "add" /\ pc'[u] = pc[u]
  PROVE  ObjectInv'
<1>1. pc \in [Threads -> Nat] /\ program' = program /\ 0 \in Threads /\ pc[0] \in Nat
  BY HandshakeAssumption DEF ProcessInv, ProcessTypes, MainMoves, Threads
<1>2. ASSUME NEW a
      PROVE  Added(a)' <=> Added(a)
  <2>1. \A i \in Adds(program, a) : i \in Nat /\ (i = pc[0] => Here(0).type \in AddTypes)
    BY DEF Adds, Here
  <2>2. \A i \in Adds(program, a) : AddedAt(i)' <=> AddedAt(i)
    BY <1>1, <2>1 DEF AddedAt, MainMoves
  <2> QED
    BY <1>1, <2>2 DEF Added
<1>3. ASSUME NEW a
      PROVE  Destroyed(a)' <=> Destroyed(a)
  <2>1. \A i \in 1 .. Len(program[0]) : program[0][i].type = "MUTEX_DESTROY" =>
          i \in Nat /\ (i = pc[0] => Here(0).type = "MUTEX_DESTROY")
    BY DEF Here
  <2>2. step[0] = "add" => Here(0).type # "MUTEX_DESTROY"
    BY <1>1 DEF ProcessInv, StepsFit
  <2>3. \A i \in 1 .. Len(program[0]) : program[0][i].type = "MUTEX_DESTROY" =>
          (DestroyedAt(i)' <=> DestroyedAt(i))
    BY <1>1, <2>1, <2>2 DEF DestroyedAt, MainMoves
  <2> QED
    BY <1>1, <2>3 DEF Destroyed
<1>4. ObjectsRight'
  BY <1>2, <1>3 DEF ObjectInv, ObjectsRight, Known
<1>5. AddsAlone'
  BY <1>1 DEF ObjectInv, AddsAlone, Known, Here
<1> QED
  BY <1>4, <1>5 DEF ObjectInv

\* main adds an object.
LEMMA AddingKeeps ==
  ASSUME ProcessInv, Proper, ObjectInv, MainFirst', program' = program,
         step[0] \in {"call", "add"}, Here(0).type \in AddTypes, Early(program, pc[0]),
         AddObject(AddressOf(Here(0))),
         \/ pc' = pc /\ \E s \in Steps \ {"call", "add"} : step' = [step EXCEPT ![0] = s]
         \/ Return(0)
  PROVE  ObjectInv'
<1> DEFINE a == AddressOf(Here(0))
<1>1. /\ pc \in [Threads -> Nat] /\ 0 \in Threads /\ pc[0] \in Nat /\ step \in [Threads -> Steps]
      /\ objects \in [Addresses -> Int] /\ program \in Programs
      /\ pc[0] \in 1 .. Len(program[0]) /\ Here(0) = program[0][pc[0]]
  BY HandshakeAssumption DEF ProcessInv, ProcessTypes, Threads, Here
<1>2. Here(0).type \in AddressTypes \cup CondTypes /\ Here(0).type # "MUTEX_DESTROY"
  BY DEF AddTypes, InitTypes, AddressTypes, CondTypes, MutexTypes, RwlockTypes, ObjectTypes
<1>3. a \in Addresses /\ a \in AddressesOf(Here(0))
  BY <1>1, <1>2, AddressIsUsed
<1>4. /\ \A b \in Addresses : objects'[b] = IF b = a THEN nextObj ELSE objects[b]
      /\ nextObj' = nextObj + 1 /\ nextObj \in Nat \ {0}
  BY <1>1 DEF AddObject, ObjectInv, ObjectsRight
<1>5. \/ pc'[0] = pc[0] /\ step'[0] \notin {"call", "add"}
      \/ pc'[0] = pc[0] + 1 /\ step'[0] = "call"
  BY <1>1 DEF Return
<1>6. ASSUME NEW b \in Addresses
      PROVE  Added(b)' <=> Added(b) \/ b = a
  <2>1. \A i \in Adds(program, b) : i \in Nat /\ (i = pc[0] => b = a)
    BY <1>1 DEF Adds
  <2>2. b = a => pc[0] \in Adds(program, b)
    BY <1>1 DEF Adds
  <2>3. \A i \in Adds(program, b) : AddedAt(i)' <=> AddedAt(i) \/ i = pc[0]
    BY <1>1, <1>5, <2>1 DEF AddedAt
  <2> QED
    BY <2>1, <2>2, <2>3 DEF Added
<1>7. ASSUME NEW b \in Addresses
      PROVE  Destroyed(b)' <=> Destroyed(b)
  <2>1. \A i \in 1 .. Len(program[0]) : program[0][i].type = "MUTEX_DESTROY" => i \in Nat /\ i # pc[0]
    BY <1>1, <1>2
  <2>2. \A i \in 1 .. Len(program[0]) : program[0][i].type = "MUTEX_DESTROY" =>
          (DestroyedAt(i)' <=> DestroyedAt(i))
    BY <1>1, <1>5, <2>1 DEF DestroyedAt
  <2> QED
    BY <2>2 DEF Destroyed
<1>8. ~Destroyed(a)
  BY <1>1, <1>3, UsesAlive DEF ObjectInv
<1>9. ObjectsRight'
  <2>1. ASSUME NEW b \in Addresses
        PROVE  Known(b)' <=> Added(b)' /\ ~Destroyed(b)'
    BY <1>4, <1>6, <1>7, <1>8 DEF ObjectInv, ObjectsRight, Known, NoId
  <2> QED
    BY <1>4, <2>1 DEF ObjectsRight
<1>10. AddsAlone'
  <2>1. \A u \in Threads : step'[u] # "add"
    BY <1>1, <1>5 DEF ObjectInv, AddsAlone, Return
  <2> QED
    BY <2>1 DEF AddsAlone
<1> QED
  BY <1>9, <1>10 DEF ObjectInv

\* The actions that leave the objects alone.
LEMMA PlainKeeps ==
  ASSUME ProcessInv, Proper, ObjectInv, NEW t \in Threads,
         \/ StartThread(t) \/ ReadObject(t) \/ WriteUnseen(t) \/ UseObject(t) \/ AnnounceCall(t)
         \/ ReceivePermit(t) \/ CreateThread(t) \/ InsertCreated(t) \/ AnnounceCreated(t)
         \/ JoinThread(t) \/ RemoveJoined(t) \/ ExitProcess(t) \/ ProcessAborts(t)
  PROVE  ObjectInv'
<1> USE DEF process, objectTable, threadTable, Calls, Runs
<1>1. /\ pc \in [Threads -> Nat] /\ step \in [Threads -> Steps] /\ 0 \in Threads
  BY HandshakeAssumption DEF ProcessInv, ProcessTypes, Threads
<1>2. program' = program /\ objects' = objects /\ nextObj' = nextObj
  BY DEF StartThread, ReadObject, WriteUnseen, UseObject, AnnounceCall, ReceivePermit, CreateThread,
     InsertCreated, AnnounceCreated, JoinThread, RemoveJoined, ExitProcess, ProcessAborts
<1>3. MainFirst'
  BY MainFirstKeeps DEF ObjectInv, RunThread
<1>4. ASSUME NEW s \in Steps \ {"call", "add"}, pc' = pc, step' = [step EXCEPT ![t] = s],
             \/ step[t] \notin {"call", "add"}
             \/ step[t] = "call" /\ Here(t).type \notin AddTypes \cup {"MUTEX_DESTROY"}
      PROVE  MainMoves /\ \A u \in Threads : step'[u] = "add" => step[u] = "add" /\ pc'[u] = pc[u]
  BY <1>1, <1>2, <1>4 DEF MainMoves
<1>5. ASSUME Return(t),
             \/ step[t] \notin {"call", "add"}
             \/ step[t] = "call" /\ Here(t).type \notin AddTypes \cup {"MUTEX_DESTROY"}
      PROVE  MainMoves /\ \A u \in Threads : step'[u] = "add" => step[u] = "add" /\ pc'[u] = pc[u]
  BY <1>1, <1>2, <1>5 DEF MainMoves, Return
<1>6. CASE StartThread(t) \/ UseObject(t) \/ AnnounceCall(t)
  <2>1. /\ step[t] = "call" /\ pc' = pc /\ step' = [step EXCEPT ![t] = "permit"]
        /\ Here(t).type \in {"THREAD_START", "OBJ_WRITE"} \cup UseTypes \cup CallTypes
    BY <1>6 DEF StartThread, UseObject, AnnounceCall, GoTo
  <2>2. Here(t).type \notin AddTypes \cup {"MUTEX_DESTROY"}
    BY <2>1 DEF UseTypes, CallTypes, AddTypes, InitTypes
  <2>3. "permit" \in Steps \ {"call", "add"}
    BY DEF Steps
  <2> QED
    BY <1>2, <1>3, <1>4, <2>1, <2>2, <2>3, ObjectsStay
<1>7. CASE WriteUnseen(t)
  <2>1. step[t] = "call" /\ Here(t).type = "OBJ_WRITE" /\ Return(t)
    BY <1>7 DEF WriteUnseen
  <2>2. Here(t).type \notin AddTypes \cup {"MUTEX_DESTROY"}
    BY <2>1 DEF AddTypes, InitTypes
  <2> QED
    BY <1>2, <1>3, <1>5, <2>1, <2>2, ObjectsStay
<1>8. CASE ReadObject(t) \/ ReceivePermit(t) \/ InsertCreated(t) \/ AnnounceCreated(t) \/ RemoveJoined(t)
  <2>1. step[t] \notin {"call", "add"}
    BY <1>8 DEF ReadObject, ReceivePermit, HasPermit, InsertCreated, AnnounceCreated, RemoveJoined
  <2>2. \/ pc' = pc /\ \E s \in Steps \ {"call", "add"} : step' = [step EXCEPT ![t] = s]
        \/ Return(t)
    BY <1>8 DEF ReadObject, ReceivePermit, InsertCreated, AnnounceCreated, RemoveJoined, GoTo, Steps
  <2> QED
    BY <1>2, <1>3, <1>4, <1>5, <2>1, <2>2, ObjectsStay
<1>9. CASE CreateThread(t)
  <2>1. /\ step[t] = "create" /\ Here(t).aux \in Threads \ {0}
        /\ pc' = [pc EXCEPT ![Here(t).aux] = 1]
        /\ step' = [step EXCEPT ![Here(t).aux] = "call", ![t] = "insert"]
    BY <1>9, AtOperation DEF CreateThread, ProcessInv
  <2>2. \A u \in Threads : step'[u] = "add" => step[u] = "add" /\ pc'[u] = pc[u]
    BY <1>1, <2>1
  <2>3. MainMoves
    BY <1>1, <1>2, <2>1 DEF MainMoves
  <2> QED
    BY <1>2, <1>3, <2>2, <2>3, ObjectsStay
<1>10. CASE JoinThread(t)
  <2>1. /\ step[t] = "join" /\ Here(t).aux \in Threads \ {0} /\ pc' = pc
        /\ step' = [step EXCEPT ![Here(t).aux] = "joined", ![t] = "remove"]
    BY <1>10, AtOperation DEF JoinThread, ProcessInv
  <2>2. \A u \in Threads : step'[u] = "add" => step[u] = "add" /\ pc'[u] = pc[u]
    BY <1>1, <2>1
  <2>3. MainMoves
    BY <1>1, <1>2, <2>1 DEF MainMoves
  <2> QED
    BY <1>2, <1>3, <2>2, <2>3, ObjectsStay
<1>11. CASE ExitProcess(t) \/ ProcessAborts(t)
  <2>1. pc' = pc /\ step' = step
    BY <1>11 DEF ExitProcess, ProcessAborts
  <2> QED
    BY <1>2, <1>3, <2>1, ObjectsStay DEF MainMoves
<1> QED
  BY <1>6, <1>7, <1>8, <1>9, <1>10, <1>11

\* inspect_obj_read finds its object, or main is alone.
LEMMA CheckKeeps ==
  ASSUME ProcessInv, Proper, ObjectInv, NEW t \in Threads, CheckObject(t)
  PROVE  ObjectInv'
<1> DEFINE a == Here(t).at
<1> USE DEF process, objectTable, threadTable, Calls, Runs
<1>1. /\ pc \in [Threads -> Nat] /\ step \in [Threads -> Steps] /\ 0 \in Threads
      /\ program \in Programs /\ pc[t] \in 1 .. Len(program[t]) /\ Here(t) = program[t][pc[t]]
      /\ \A u \in Threads : pc[u] \in Nat
  BY HandshakeAssumption DEF ProcessInv, ProcessTypes, Threads, Here
<1>2. /\ Here(t).type = "OBJ_READ" /\ step[t] = "call" /\ pc' = pc
      /\ program' = program /\ objects' = objects /\ nextObj' = nextObj
      /\ step' = [step EXCEPT ![t] = IF Known(a) THEN "read" ELSE "add"]
  BY DEF CheckObject, GoTo
<1>3. MainFirst'
  BY MainFirstKeeps DEF ObjectInv, RunThread
<1>4. AddressOf(Here(t)) = a /\ a \in Addresses /\ a \in AddressesOf(Here(t))
  <2>1. Here(t).type \in AddressTypes /\ AddressOf(Here(t)) = a
    BY <1>2 DEF AddressTypes, ObjectTypes, AddressOf, CondTypes
  <2> QED
    BY <1>1, <2>1, AddressIsUsed
<1>5. ~Destroyed(a) /\ (Added(a) \/ (t = 0 /\ Early(program, pc[0])))
  BY <1>2, <1>4, UsesAlive DEF ObjectInv
<1>6. Known(a) <=> Added(a)
  BY <1>4, <1>5 DEF ObjectInv, ObjectsRight
<1>7. ASSUME NEW b \in Addresses
      PROVE  Added(b)' <=> Added(b)
  <2>1. \A i \in Adds(program, b) : i \in Nat /\ (t = 0 /\ i = pc[0] => b = a)
    BY <1>1, <1>4 DEF Adds
  <2>2. \A i \in Adds(program, b) : AddedAt(i) => AddedAt(i)'
    BY <1>1, <1>2, <2>1 DEF AddedAt
  <2>3. \A i \in Adds(program, b) : AddedAt(i)' => AddedAt(i) \/ (b = a /\ Known(a))
    BY <1>1, <1>2, <2>1 DEF AddedAt
  <2> QED
    BY <1>2, <1>6, <2>2, <2>3 DEF Added
<1>8. ASSUME NEW b \in Addresses
      PROVE  Destroyed(b)' <=> Destroyed(b)
  <2>1. \A i \in 1 .. Len(program[0]) : program[0][i].type = "MUTEX_DESTROY" =>
          i \in Nat /\ (t = 0 => i # pc[0])
    BY <1>1, <1>2
  <2>2. \A i \in 1 .. Len(program[0]) : program[0][i].type = "MUTEX_DESTROY" =>
          (DestroyedAt(i)' <=> DestroyedAt(i))
    BY <1>1, <1>2, <2>1 DEF DestroyedAt
  <2> QED
    BY <1>2, <2>2 DEF Destroyed
<1>9. ObjectsRight'
  BY <1>2, <1>7, <1>8 DEF ObjectInv, ObjectsRight, Known
<1>10. AddsAlone'
  <2>1. \A u \in Threads \ {t} : step'[u] = step[u]
    BY <1>1, <1>2
  <2>2. step'[t] = "add" => ~Known(a) /\ t = 0 /\ Early(program, pc[0])
    BY <1>1, <1>2, <1>5, <1>6
  <2> QED
    BY <1>2, <2>1, <2>2 DEF ObjectInv, AddsAlone, Known, Here
<1> QED
  BY <1>3, <1>9, <1>10 DEF ObjectInv

\* main destroys a mutex.
LEMMA DestroyKeeps ==
  ASSUME ProcessInv, Proper, ObjectInv, NEW t \in Threads, DestroyMutex(t)
  PROVE  ObjectInv'
<1> DEFINE a == Here(0).at
<1> USE DEF process, objectTable, threadTable, Calls, Runs
<1>1. /\ pc \in [Threads -> Nat] /\ step \in [Threads -> Steps] /\ 0 \in Threads
      /\ objects \in [Addresses -> Int] /\ pc[t] \in 1 .. Len(program[t]) /\ Here(t) = program[t][pc[t]]
  BY HandshakeAssumption DEF ProcessInv, ProcessTypes, Threads, Here
<1>2. t = 0
  BY <1>1, ProperProgram DEF DestroyMutex
<1>3. /\ Here(0).type = "MUTEX_DESTROY" /\ step[0] = "call" /\ pc' = pc
      /\ program' = program /\ nextObj' = nextObj
      /\ objects' = [objects EXCEPT ![a] = NoId] /\ step' = [step EXCEPT ![0] = "permit"]
  BY <1>2 DEF DestroyMutex, GoTo
<1>4. MainFirst'
  BY MainFirstKeeps DEF ObjectInv, RunThread
<1>5. ASSUME NEW b \in Addresses
      PROVE  Added(b)' <=> Added(b)
  <2>1. \A i \in Adds(program, b) : i \in Nat /\ i # pc[0]
    BY <1>1, <1>2, <1>3 DEF Adds, AddTypes, InitTypes
  <2>2. \A i \in Adds(program, b) : AddedAt(i)' <=> AddedAt(i)
    BY <1>1, <1>3, <2>1 DEF AddedAt
  <2> QED
    BY <1>3, <2>2 DEF Added
<1>6. ASSUME NEW b \in Addresses
      PROVE  Destroyed(b)' <=> Destroyed(b) \/ b = a
  <2>1. \A i \in 1 .. Len(program[0]) : i \in Nat /\ (i = pc[0] => program[0][i].at = a)
    BY <1>1, <1>2
  <2>2. \A i \in 1 .. Len(program[0]) : DestroyedAt(i)' <=> DestroyedAt(i) \/ i = pc[0]
    BY <1>1, <1>3, <2>1 DEF DestroyedAt
  <2>3. pc[0] \in 1 .. Len(program[0]) /\ program[0][pc[0]].type = "MUTEX_DESTROY" /\ program[0][pc[0]].at = a
    BY <1>1, <1>2, <1>3
  <2> QED
    BY <1>3, <2>1, <2>2, <2>3 DEF Destroyed
<1>7. ObjectsRight'
  <2>1. \A b \in Addresses : objects'[b] = IF b = a THEN NoId ELSE objects[b]
    BY <1>1, <1>3
  <2> QED
    BY <1>3, <1>5, <1>6, <2>1 DEF ObjectInv, ObjectsRight, Known
<1>8. AddsAlone'
  <2>1. \A u \in Threads : step'[u] # "add"
    BY <1>1, <1>3 DEF ObjectInv, AddsAlone
  <2> QED
    BY <2>1 DEF AddsAlone
<1> QED
  BY <1>4, <1>7, <1>8 DEF ObjectInv

\* Every step of a thread.
LEMMA ObjectsKeep ==
  ASSUME ProcessInv, Proper, ObjectInv, NEW t \in Threads, RunThread(t)
  PROVE  ObjectInv'
<1> USE DEF process, objectTable, threadTable, Calls, Runs
<1>1. MainFirst'
  BY MainFirstKeeps DEF ObjectInv
<1>2. /\ pc[t] \in 1 .. Len(program[t]) /\ Here(t) = program[t][pc[t]]
  BY DEF ProcessInv, ProcessTypes, Here
<1>3. CASE RegisterObject(t) \/ InitObject(t)
  <2>1. Here(t).type \in InitTypes \cup {"OBJ_REG"} /\ step[t] = "call" /\ program' = program
    BY <1>3 DEF RegisterObject, InitObject
  <2>2. t = 0 /\ Early(program, pc[0])
    BY <1>2, <2>1, ProperProgram
  <2>3. AddObject(AddressOf(Here(0)))
    BY <1>3, <2>2 DEF RegisterObject, InitObject, AddressOf, CondTypes
  <2>4. \/ pc' = pc /\ \E s \in Steps \ {"call", "add"} : step' = [step EXCEPT ![0] = s]
        \/ Return(0)
    BY <1>3, <2>2 DEF RegisterObject, InitObject, GoTo, Steps
  <2>5. Here(0).type \in AddTypes
    BY <2>1, <2>2 DEF AddTypes
  <2> QED
    BY <1>1, <2>1, <2>2, <2>3, <2>4, <2>5, AddingKeeps
<1>4. CASE AddUnknown(t)
  <2>1. t = 0 /\ Early(program, pc[0]) /\ step[0] = "add" /\ program' = program /\ pc' = pc
    BY <1>4 DEF ObjectInv, AddsAlone, AddUnknown
  <2>2. Here(0).type = "OBJ_READ"
    BY <2>1 DEF ProcessInv, StepsFit
  <2>3. AddressOf(Here(0)) = Here(0).at /\ Here(0).type \in AddTypes
    BY <2>2 DEF AddressOf, CondTypes, AddTypes
  <2>4. AddObject(AddressOf(Here(0))) /\ \E s \in Steps \ {"call", "add"} : step' = [step EXCEPT ![0] = s]
    BY <1>4, <2>1, <2>3 DEF AddUnknown, GoTo, Steps
  <2> QED
    BY <1>1, <2>1, <2>3, <2>4, AddingKeeps
<1> QED
  BY <1>3, <1>4, PlainKeeps, CheckKeeps, DestroyKeeps DEF RunThread

\* The assertions about objects hold.
LEMMA ObjectAssertsHold ==
  ASSUME ProcessInv, Proper, ObjectInv, status = "running", NEW t \in Threads
  PROVE  ObjectAsserts(t)
<1> USE DEF Calls, Runs
<1>1. /\ program \in Programs /\ 0 \in Threads /\ pc[t] \in 1 .. Len(program[t])
      /\ Here(t) = program[t][pc[t]] /\ pc[t] \in Nat
  BY HandshakeAssumption DEF ProcessInv, ProcessTypes, Threads, Here
<1>2. ASSUME Calls(t, InitTypes \cup {"OBJ_REG"})
      PROVE  ~Known(AddressOf(Here(t)))
  <2>1. /\ t = 0 /\ \A j \in Adds(program, AddressOf(Here(t))) : pc[t] <= j
    BY <1>1, <1>2, ProperProgram
  <2>2. Here(t).type \in AddressTypes \cup CondTypes
    BY <1>2 DEF InitTypes, AddressTypes, CondTypes, MutexTypes, RwlockTypes
  <2>3. AddressOf(Here(t)) \in Addresses
    BY <1>1, <2>2, AddressIsUsed
  <2>4. ASSUME NEW j \in Adds(program, AddressOf(Here(t)))
        PROVE  ~AddedAt(j)
    <3>1. pc[0] <= j /\ j \in Nat /\ step[0] = "call"
      BY <1>2, <2>1 DEF Adds
    <3> QED
      BY <1>1, <2>1, <3>1 DEF AddedAt
  <2> QED
    BY <2>3, <2>4 DEF ObjectInv, ObjectsRight, Added
<1>3. ASSUME Calls(t, UseTypes \cup {"MUTEX_DESTROY"})
      PROVE  Known(AddressOf(Here(t)))
  <2>1. Here(t).type \in AddressTypes \cup CondTypes
    BY <1>3 DEF UseTypes, AddressTypes, CondTypes, MutexTypes, RwlockTypes
  <2>2. AddressOf(Here(t)) \in Addresses /\ AddressOf(Here(t)) \in AddressesOf(Here(t))
    BY <1>1, <2>1, AddressIsUsed
  <2>3. ~Destroyed(AddressOf(Here(t)))
    BY <1>3, <2>2, UsesAlive DEF ObjectInv
  <2>4. Added(AddressOf(Here(t)))
    <3>1. CASE ~(t = 0 /\ Early(program, pc[0]))
      BY <1>3, <2>2, <3>1, UsesAlive DEF ObjectInv
    <3>2. CASE t = 0 /\ Early(program, pc[0])
      <4>1. \E j \in Adds(program, AddressOf(Here(t))) : j < pc[0]
        BY <1>1, <1>3, <3>2, ProperProgram
      <4> QED
        BY <4>1 DEF Added, AddedAt
    <3> QED
      BY <3>1, <3>2
  <2> QED
    BY <2>2, <2>3, <2>4 DEF ObjectInv, ObjectsRight
<1>4. Calls(t, {"MUTEX_DESTROY"}) => Known(Here(t).at)
  BY <1>3 DEF AddressOf, CondTypes
<1> QED
  BY <1>2, <1>3, <1>4 DEF ObjectAsserts, KnowsObject, ObjectInv, AddsAlone

\* A process about to start has no objects.
LEMMA StartingObjects == Starting => ObjectInv
<1> SUFFICES ASSUME Starting
             PROVE  ObjectInv
  OBVIOUS
<1>1. /\ pc = [t \in Threads |-> 1] /\ 0 \in Threads
      /\ step = [t \in Threads |-> IF t = 0 THEN "call" ELSE "none"]
      /\ objects = [a \in Addresses |-> NoId] /\ nextObj = 1
  BY HandshakeAssumption DEF Starting, Booting, Threads
<1>2. \A a : ~Added(a)
  <2>1. ASSUME NEW a, NEW i \in Adds(program, a)
        PROVE  ~AddedAt(i)
    BY <1>1 DEF Adds, AddedAt
  <2> QED
    BY <2>1 DEF Added
<1>3. ObjectsRight
  BY <1>1, <1>2 DEF ObjectsRight, Known
<1>4. MainFirst /\ AddsAlone
  BY <1>1 DEF MainFirst, AddsAlone
<1> QED
  BY <1>3, <1>4 DEF ObjectInv

\* Every step keeps the invariant of the objects, and no wrapper aborts.
LEMMA ObjectStepKeeps ==
  ASSUME Inv, Proper, ObjectInv, status # "aborted", [Next]_vars
  PROVE  ObjectInv' /\ status' # "aborted"
<1>1. Orderly /\ ProcessInv
  BY ProperProgram DEF Inv
<1>2. ASSUME UNCHANGED <<program, pc, step, objects, nextObj>>
      PROVE  ObjectInv'
  BY <1>2 DEF ObjectInv, ObjectsRight, MainFirst, AddsAlone, Added, AddedAt, Destroyed, DestroyedAt,
     Known, Here
<1>3. ASSUME NEW t \in Threads, RunThread(t)
      PROVE  ObjectInv' /\ status' # "aborted"
  <2>1. ~ProcessAborts(t)
    BY <1>1, AssertsHold, ObjectAssertsHold DEF ProcessAborts, WrapperAsserts
  <2>2. status' # "aborted"
    BY <1>3, <2>1 DEF RunThread, StartThread, RegisterObject, CheckObject, AddUnknown, ReadObject,
       WriteUnseen, UseObject, InitObject, DestroyMutex, AnnounceCall, ReceivePermit, CreateThread,
       InsertCreated, AnnounceCreated, JoinThread, RemoveJoined, ExitProcess
  <2> QED
    BY <1>1, <1>3, <2>2, ObjectsKeep
<1>4. ASSUME UNCHANGED process
      PROVE  ObjectInv' /\ status' # "aborted"
  BY <1>2, <1>4 DEF process, objectTable
<1>5. ASSUME NEW t \in Threads, Accept(t) \/ Receive(t) \/ HangUp(t)
      PROVE  UNCHANGED process
  BY <1>5 DEF Accept, Receive, HangUp
<1>6. ASSUME NEW e, TakeEvent(e) \/ PermitEvent(e) \/ PermitFails(e)
      PROVE  UNCHANGED process
  BY <1>6 DEF TakeEvent, TakeInfo, TakeNext, TakePostCreate, TakeAfterPost, TakeStart, TakeFirst,
     ReplayEvent, ReplayCreate, ReplayPost, ReplayStart, MatchEvent, PermitFails, PermitEvent
<1>7. ASSUME NEW k \in 2 .. Len(stack), Restart(k)
      PROVE  ObjectInv' /\ status' # "aborted"
  <2>1. (Starting => ObjectInv)'
    BY StartingObjects, PTL
  <2>2. Starting'
    BY <1>7, RestartStarts
  <2>3. status' = "running"
    BY <1>7 DEF Restart, FreshProcess
  <2> QED
    BY <2>1, <2>2, <2>3
<1>8. CASE Finish
  <2>1. status' = "exited" /\ UNCHANGED <<program, pc, step, objects, nextObj>>
    BY <1>8 DEF Finish, objectTable
  <2> QED
    BY <1>2, <2>1
<1>9. CASE FirstEvent \/ UNCHANGED vars
  BY <1>4, <1>9 DEF FirstEvent, vars
<1> QED
  BY <1>3, <1>4, <1>5, <1>6, <1>7, <1>8, <1>9 DEF Next

\* What every state of a proper program has.
ProperInv == Inv /\ ObjectInv /\ status # "aborted"

\* For any number of threads, any programs and any number of runs: no wrapper
\* stops the process of a proper program on an assertion, about threads or about
\* objects, although every run registers its objects anew and gives them new ids.
THEOREM NoAbort == Spec => []NoProcessAbort
<1>1. Init => (Proper => ProperInv)
  <2>1. ASSUME Init
        PROVE  Starting
    <3>1. NoEvent \in Events
      BY DEF NoEvent, Ev, Events, EventKinds, NoId
    <3> QED
      BY <2>1, <3>1 DEF Init, Starting, StackRight
  <2> QED
    BY <2>1, StartingRight, StartingObjects DEF ProperInv, Starting
<1>2. (Proper => ProperInv) /\ [Next]_vars => (Proper => ProperInv)'
  <2>1. SUFFICES ASSUME Proper => ProperInv, [Next]_vars, Proper'
                 PROVE  ProperInv'
    OBVIOUS
  <2>2. Proper
    BY <2>1, ProgramStays DEF Proper
  <2>3. Orderly
    BY <2>1, <2>2, ProperProgram DEF ProperInv, Inv
  <2> QED
    BY <2>1, <2>2, <2>3, StepKeeps, ObjectStepKeeps DEF ProperInv
<1>3. (Proper => ProperInv) => NoProcessAbort
  BY DEF ProperInv, NoProcessAbort
<1> QED
  BY <1>1, <1>2, <1>3, PTL DEF Spec
=============================================================================
