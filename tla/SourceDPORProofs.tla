-------------------------- MODULE SourceDPORProofs --------------------------
(***************************************************************************)
(* Theorems about SourceDPOR, for any programs, threads and objects.       *)
(***************************************************************************)
EXTENDS SourceDPOR, ProgramStateLemmas, FiniteSetTheorems

----------------------------------------------------------------------------
(* Programs.                                                               *)

\* Two places of a program that create one body are one place.
CreatesOnce(prog) ==
  \A b, c \in Bodies : \A i \in DOMAIN prog[b] : \A j \in DOMAIN prog[c] :
    prog[b][i].type = "THREAD_PRE_CREATE" /\ prog[c][j].type = "THREAD_PRE_CREATE"
      => (prog[b][i].aux = prog[c][j].aux => b = c /\ i = j)

\* A join comes after the creation in the same body.
JoinsCreated(prog) ==
  \A c \in Bodies : \A j \in DOMAIN prog[c] :
    prog[c][j].type = "THREAD_JOIN"
      => \E i \in DOMAIN prog[c] : /\ i < j
                                   /\ prog[c][i].type = "THREAD_PRE_CREATE"
                                   /\ prog[c][i].aux = prog[c][j].aux

\* The assumption on programs, without its sets of places.
LEMMA ProgramFacts ==
  ASSUME NEW prog \in Programs
  PROVE  /\ prog \in [Bodies -> Seq(Operations)]
         /\ prog[0] # <<>> /\ prog[0][1] = Op("THREAD_START", NoId, NoId)
         /\ \A b \in Bodies : \A i \in DOMAIN prog[b] :
              /\ prog[b][i] \in Operations
              /\ prog[b][i].type = "THREAD_END"   <=> i = Len(prog[b])
              /\ prog[b][i].type = "THREAD_START" <=> b = 0 /\ i = 1
              /\ prog[b][i].type = "THREAD_PRE_CREATE"
                   => prog[prog[b][i].aux] # <<>> /\ b # prog[b][i].aux
         /\ CreatesOnce(prog) /\ JoinsCreated(prog)
<1> DEFINE Places(type, b) == UNION {{<<c, i>> : i \in {j \in DOMAIN prog[c] :
                                   prog[c][j].type = type /\ prog[c][j].aux = b}} :
                                c \in Bodies}
<1>1. /\ prog \in [Bodies -> Seq(Operations)]
      /\ prog[0] # <<>> /\ Head(prog[0]) = Op("THREAD_START", NoId, NoId)
      /\ \A b \in Bodies : \A i \in DOMAIN prog[b] :
           /\ prog[b][i].type = "THREAD_END"   <=> i = Len(prog[b])
           /\ prog[b][i].type = "THREAD_START" <=> b = 0 /\ i = 1
      /\ \A b \in Bodies \ {0} :
           /\ prog[b] # <<>> => \E x \in Places("THREAD_PRE_CREATE", b) :
                                   Places("THREAD_PRE_CREATE", b) = {x} /\ x[1] < b
           /\ prog[b] = <<>> => Places("THREAD_PRE_CREATE", b) = {}
           /\ \A y \in Places("THREAD_JOIN", b) :
                \E x \in Places("THREAD_PRE_CREATE", b) : x[1] = y[1] /\ x[2] < y[2]
  BY ExplorerAssumption DEF IsProgram
<1>2. \A type, b, c, i : <<c, i>> \in Places(type, b)
         <=> c \in Bodies /\ i \in DOMAIN prog[c] /\ prog[c][i].type = type
               /\ prog[c][i].aux = b
  OBVIOUS
<1>3. \A type, b : \A x \in Places(type, b) :
         /\ x = <<x[1], x[2]>> /\ x[1] \in Bodies /\ x[2] \in DOMAIN prog[x[1]]
         /\ prog[x[1]][x[2]].type = type /\ prog[x[1]][x[2]].aux = b
  OBVIOUS
<1> HIDE DEF Places
<1>4. 0 \in Bodies
  BY ExplorerAssumption DEF Bodies, Threads
<1>5. \A b \in Bodies : \A i \in DOMAIN prog[b] :
         /\ prog[b][i] \in Operations
         /\ prog[b][i].type \in {"THREAD_PRE_CREATE", "THREAD_JOIN"}
              => prog[b][i].aux \in Bodies \ {0}
  <2> SUFFICES ASSUME NEW b \in Bodies, NEW i \in DOMAIN prog[b]
               PROVE  prog[b][i] \in Operations
    BY DEF Operations
  <2>1. prog[b] \in Seq(Operations)
    BY <1>1
  <2> HIDE DEF Operations
  <2> QED
    BY <2>1
<1>6. \A b \in Bodies : \A i \in DOMAIN prog[b] :
         prog[b][i].type = "THREAD_PRE_CREATE"
           => prog[prog[b][i].aux] # <<>> /\ b # prog[b][i].aux
  <2> SUFFICES ASSUME NEW b \in Bodies, NEW i \in DOMAIN prog[b],
                      prog[b][i].type = "THREAD_PRE_CREATE"
               PROVE  prog[prog[b][i].aux] # <<>> /\ b # prog[b][i].aux
    OBVIOUS
  <2>1. <<b, i>> \in Places("THREAD_PRE_CREATE", prog[b][i].aux)
    BY <1>2
  <2>2. prog[b][i].aux \in Bodies \ {0}
    BY <1>5
  <2>3. prog[prog[b][i].aux] # <<>>
    BY <1>1, <2>1, <2>2
  <2>4. PICK x \in Places("THREAD_PRE_CREATE", prog[b][i].aux) :
           /\ Places("THREAD_PRE_CREATE", prog[b][i].aux) = {x} /\ x[1] < prog[b][i].aux
    BY <1>1, <2>2, <2>3
  <2>5. x = <<b, i>>
    BY <2>1, <2>4
  <2>6. b < prog[b][i].aux /\ b \in Int /\ prog[b][i].aux \in Int
    BY <2>2, <2>4, <2>5 DEF Bodies, Threads
  <2> QED
    BY <2>3, <2>6
<1>7. CreatesOnce(prog)
  <2> SUFFICES ASSUME NEW b \in Bodies, NEW c \in Bodies,
                      NEW i \in DOMAIN prog[b], NEW j \in DOMAIN prog[c],
                      prog[b][i].type = "THREAD_PRE_CREATE",
                      prog[c][j].type = "THREAD_PRE_CREATE",
                      prog[b][i].aux = prog[c][j].aux
               PROVE  b = c /\ i = j
    BY DEF CreatesOnce
  <2> DEFINE d == prog[b][i].aux
  <2>1. d \in Bodies \ {0} /\ prog[d] # <<>>
    BY <1>5, <1>6
  <2>2. <<b, i>> \in Places("THREAD_PRE_CREATE", d) /\ <<c, j>> \in Places("THREAD_PRE_CREATE", d)
    BY <1>2
  <2>3. <<b, i>> = <<c, j>>
    BY <1>1, <2>1, <2>2
  <2> QED
    BY <2>3
<1>8. JoinsCreated(prog)
  <2> SUFFICES ASSUME NEW c \in Bodies, NEW j \in DOMAIN prog[c],
                      prog[c][j].type = "THREAD_JOIN"
               PROVE  \E i \in DOMAIN prog[c] : /\ i < j
                                                /\ prog[c][i].type = "THREAD_PRE_CREATE"
                                                /\ prog[c][i].aux = prog[c][j].aux
    BY DEF JoinsCreated
  <2> DEFINE b == prog[c][j].aux
  <2>1. b \in Bodies \ {0} /\ <<c, j>> \in Places("THREAD_JOIN", b)
    BY <1>2, <1>5
  <2>2. PICK x \in Places("THREAD_PRE_CREATE", b) : x[1] = <<c, j>>[1] /\ x[2] < <<c, j>>[2]
    BY <1>1, <2>1
  <2> QED
    BY <1>3, <2>2
<1>9. prog[0][1] = Op("THREAD_START", NoId, NoId)
  BY <1>1, <1>4
<1> QED
  BY <1>1, <1>5, <1>6, <1>7, <1>8, <1>9

----------------------------------------------------------------------------
(* Processes.                                                              *)

\* The places of a process: its threads have the ids from 0 on; no two run
\* one body; and a body is run by some thread exactly if a creation of it is
\* done.
IsProcess(prog, at) ==
  /\ NewThread(at) \in 1 .. MaxThreads /\ DOMAIN at = 0 .. NewThread(at) - 1
  /\ at \in [DOMAIN at -> [body : Bodies, done : Nat]]
  /\ \A t \in DOMAIN at : at[t].done <= Len(prog[at[t].body])
  /\ at[0].body = 0
  /\ \A t, u \in DOMAIN at : at[t].body = at[u].body => t = u
  /\ \A t \in DOMAIN at : \A i \in 1 .. at[t].done :
       prog[at[t].body][i].type = "THREAD_PRE_CREATE"
         => \E u \in DOMAIN at : at[u].body = prog[at[t].body][i].aux
  /\ \A u \in DOMAIN at \ {0} : \E t \in DOMAIN at : \E i \in 1 .. at[t].done :
       /\ prog[at[t].body][i].type = "THREAD_PRE_CREATE"
       /\ prog[at[t].body][i].aux = at[u].body

\* The events a process announces are of these.
Events == [type : EventTypes, tid : Threads, obj : Int, aux : Int]

\* The next id is the number of threads.
LEMMA NewThreadOf ==
  ASSUME NEW n \in Nat, NEW at, DOMAIN at = 0 .. n - 1
  PROVE  NewThread(at) = n
BY FS_Interval DEF NewThread

\* A restarted process is one: it has main alone, before its first operation.
LEMMA RestartedIsProcess ==
  ASSUME NEW prog \in Programs
  PROVE  IsProcess(prog, Restarted) /\ NewThread(Restarted) = 1
         /\ DOMAIN Restarted = {0} /\ Restarted[0] = [body |-> 0, done |-> 0]
<1>1. DOMAIN Restarted = 0 .. 1 - 1 /\ DOMAIN Restarted = {0}
      /\ Restarted[0] = [body |-> 0, done |-> 0]
  BY DEF Restarted
<1>2. NewThread(Restarted) = 1
  BY <1>1, NewThreadOf
<1>3. prog \in [Bodies -> Seq(Operations)] /\ 0 \in Bodies
  BY ProgramFacts, ExplorerAssumption DEF Bodies, Threads
<1>4. Restarted \in [DOMAIN Restarted -> [body : Bodies, done : Nat]]
  BY <1>1, <1>3 DEF Restarted
<1>5. Len(prog[0]) \in Nat
  BY <1>3
<1> QED
  BY <1>1, <1>2, <1>3, <1>4, <1>5, ExplorerAssumption DEF IsProcess

\* Threads that run different bodies are at most as many as the bodies.
LEMMA ThreadsBounded ==
  ASSUME NEW n \in Nat, NEW at \in [0 .. n - 1 -> [body : Bodies, done : Nat]],
         \A t, u \in DOMAIN at : at[t].body = at[u].body => t = u
  PROVE  n <= MaxThreads
<1> DEFINE f == [t \in 0 .. n - 1 |-> at[t].body]
<1>1. f \in Injection(0 .. n - 1, Bodies)
  BY DEF Injection, IsInjective
<1>2. IsFiniteSet(Bodies) /\ Cardinality(Bodies) = MaxThreads
  BY FS_Interval, ExplorerAssumption DEF Bodies, Threads
<1>3. Cardinality(0 .. n - 1) <= MaxThreads
  BY <1>1, <1>2, FS_Injection
<1>4. Cardinality(0 .. n - 1) = n
  BY FS_Interval
<1> QED
  BY <1>3, <1>4

\* The operation a thread stands before.
LEMMA NextOperation ==
  ASSUME NEW prog \in Programs, NEW at, IsProcess(prog, at),
         NEW t \in DOMAIN at, HasNext(prog, at, t)
  PROVE  /\ at[t].body \in Bodies /\ at[t].done \in Nat
         /\ at[t].done + 1 \in DOMAIN prog[at[t].body]
         /\ at[t].done + 1 <= Len(prog[at[t].body]) /\ Len(prog[at[t].body]) \in Nat
         /\ NextOp(prog, at, t) = prog[at[t].body][at[t].done + 1]
         /\ NextOp(prog, at, t) \in Operations
<1>1. at[t].body \in Bodies /\ at[t].done \in Nat
  BY DEF IsProcess
<1>2. prog[at[t].body] \in Seq(Operations)
  BY <1>1, ProgramFacts
<1>3. at[t].done < Len(prog[at[t].body])
  BY DEF HasNext
<1>4. NextOp(prog, at, t) = prog[at[t].body][at[t].done + 1]
  BY DEF NextOp
<1>5. at[t].done + 1 \in DOMAIN prog[at[t].body] /\ Len(prog[at[t].body]) \in Nat
  BY <1>1, <1>2, <1>3
<1> QED
  BY <1>1, <1>2, <1>3, <1>4, <1>5

\* The thread of a body is the only one that runs it.
LEMMA ThreadOfBody ==
  ASSUME NEW prog, NEW at, IsProcess(prog, at), NEW u \in DOMAIN at
  PROVE  ThreadOf(at, at[u].body) = u
BY DEF IsProcess, ThreadOf

\* What a thread announces is an event of it; a join names a thread that has
\* been created, and not its own.
LEMMA AnnouncedEvent ==
  ASSUME NEW prog \in Programs, NEW at, IsProcess(prog, at),
         NEW t \in DOMAIN at, HasNext(prog, at, t)
  PROVE  LET e == Announced(prog, at, t)
             o == NextOp(prog, at, t)
         IN  /\ e \in Events /\ e.tid = t
             /\ e.type = o.type /\ e.obj = o.obj
             /\ e.type # "THREAD_CREATE"
             /\ e.type \in MutexTypes \cup {"COND_WAIT"} => e.obj \in Mutexes
             /\ e.type \in RwlockTypes => e.obj \in Rwlocks
             /\ e.type = "THREAD_END" <=> at[t].done + 1 = Len(prog[at[t].body])
             /\ e.type = "THREAD_JOIN" => /\ e.aux \in DOMAIN at /\ e.aux # t
                                          /\ at[e.aux].body = o.aux
<1> DEFINE o == NextOp(prog, at, t)
           e == Announced(prog, at, t)
<1>1. o \in Operations
  BY NextOperation
<1>2. /\ o.type \in EventTypes \ {"THREAD_CREATE"} /\ o.obj \in Int /\ o.aux \in Int
      /\ o.type \in MutexTypes \cup {"COND_WAIT"} => o.obj \in Mutexes
      /\ o.type \in RwlockTypes => o.obj \in Rwlocks
  BY <1>1 DEF Operations
<1>3. o.type = "THREAD_JOIN" => \E u \in DOMAIN at \ {t} : at[u].body = o.aux
  <2> SUFFICES ASSUME o.type = "THREAD_JOIN"
               PROVE  \E u \in DOMAIN at \ {t} : at[u].body = o.aux
    OBVIOUS
  <2> DEFINE b == at[t].body
             j == at[t].done + 1
  <2>1. b \in Bodies /\ j \in DOMAIN prog[b] /\ o = prog[b][j] /\ at[t].done \in Nat
        /\ prog[b] \in Seq(Operations)
    BY NextOperation, ProgramFacts
  <2>2. PICK i \in DOMAIN prog[b] : /\ i < j /\ prog[b][i].type = "THREAD_PRE_CREATE"
                                    /\ prog[b][i].aux = o.aux
    BY <2>1, ProgramFacts DEF JoinsCreated
  <2>3. i \in 1 .. at[t].done
    BY <2>1, <2>2
  <2>4. PICK u \in DOMAIN at : at[u].body = o.aux
    BY <2>2, <2>3 DEF IsProcess
  <2>5. b # o.aux
    BY <2>1, <2>2, ProgramFacts
  <2> QED
    BY <2>4, <2>5
<1>4. o.type = "THREAD_JOIN" => /\ ThreadOf(at, o.aux) \in DOMAIN at \ {t}
                                /\ at[ThreadOf(at, o.aux)].body = o.aux
  <2> SUFFICES ASSUME o.type = "THREAD_JOIN"
               PROVE  /\ ThreadOf(at, o.aux) \in DOMAIN at \ {t}
                      /\ at[ThreadOf(at, o.aux)].body = o.aux
    OBVIOUS
  <2>1. PICK u \in DOMAIN at \ {t} : at[u].body = o.aux
    BY <1>3
  <2> QED
    BY <2>1, ThreadOfBody
<1>5. t \in Threads /\ DOMAIN at \subseteq Threads
  BY ExplorerAssumption DEF IsProcess, Threads
<1>6. /\ e.type = o.type /\ e.obj = o.obj /\ e.tid = t
      /\ e = [type |-> o.type, tid |-> t, obj |-> o.obj, aux |-> e.aux]
      /\ o.type = "THREAD_JOIN" => e.aux = ThreadOf(at, o.aux)
      /\ o.type # "THREAD_JOIN" => e.aux \in {NoId, o.aux}
  BY DEF Announced, Ev
<1>7. DOMAIN at \subseteq Int /\ NoId \in Int
  BY <1>5 DEF Threads, NoId
<1>8. e \in Events
  <2>1. e.aux \in Int
    BY <1>2, <1>4, <1>6, <1>7
  <2> HIDE DEF o, e
  <2> QED
    BY <1>2, <1>5, <1>6, <2>1 DEF Events
<1>9. o.type = "THREAD_END" <=> at[t].done + 1 = Len(prog[at[t].body])
  BY NextOperation, ProgramFacts
<1> HIDE DEF o, e
<1> QED
  BY <1>2, <1>4, <1>6, <1>8, <1>9 DEF o, e

\* The process after a permit: one thread is one operation further, and a
\* creation adds a thread.
LEMMA PermitAt ==
  ASSUME NEW prog, NEW at, IsProcess(prog, at), NEW e, e.tid \in DOMAIN at
  PROVE  LET n == NewThread(at)
             q == Permit(prog, at, e)
         IN  /\ DOMAIN q = IF Creates(e) THEN 0 .. n ELSE 0 .. n - 1
             /\ NewThread(q) = IF Creates(e) THEN n + 1 ELSE n
             /\ q[e.tid] = [body |-> at[e.tid].body, done |-> at[e.tid].done + 1]
             /\ \A u \in DOMAIN at \ {e.tid} : q[u] = at[u]
             /\ Creates(e) => q[n] = [body |-> NextOp(prog, at, e.tid).aux, done |-> 0]
<1> DEFINE moved == [at EXCEPT ![e.tid].done = at[e.tid].done + 1]
           created == [body |-> NextOp(prog, at, e.tid).aux, done |-> 0]
           n == NewThread(at)
           q == Permit(prog, at, e)
<1>1. /\ n \in Nat /\ DOMAIN at = 0 .. n - 1
      /\ at \in [DOMAIN at -> [body : Bodies, done : Nat]]
  BY ExplorerAssumption DEF IsProcess
<1>2. q = IF Creates(e) THEN [t \in DOMAIN at \cup {n} |-> IF t \in DOMAIN at THEN moved[t] ELSE created]
          ELSE moved
  BY DEF Permit
<1> HIDE DEF n
<1>3. /\ DOMAIN moved = DOMAIN at
      /\ \A u \in DOMAIN at \ {e.tid} : moved[u] = at[u]
      /\ moved[e.tid] = [body |-> at[e.tid].body, done |-> at[e.tid].done + 1]
  BY <1>1
<1>4. DOMAIN at \cup {n} = 0 .. n /\ n \notin DOMAIN at
  BY <1>1
<1>5. 0 .. n = 0 .. (n + 1) - 1 /\ n + 1 \in Nat
  BY <1>1
<1> HIDE DEF q, moved, created
<1>6. CASE Creates(e)
  <2>1. /\ DOMAIN q = 0 .. n /\ q[n] = created
        /\ \A u \in DOMAIN at : q[u] = moved[u]
    BY <1>2, <1>4, <1>6
  <2>2. NewThread(q) = n + 1
    BY <1>5, <2>1, NewThreadOf
  <2> QED
    BY <1>3, <1>6, <2>1, <2>2 DEF q, created, n
<1>7. CASE ~Creates(e)
  <2>1. q = moved /\ DOMAIN q = 0 .. n - 1
    BY <1>1, <1>2, <1>3, <1>7
  <2>2. NewThread(q) = n
    BY <1>1, <2>1, NewThreadOf
  <2> QED
    BY <1>1, <1>3, <1>7, <2>1, <2>2 DEF q, n
<1> QED
  BY <1>6, <1>7

\* A permit makes a function of the thread ids.
LEMMA Permitted ==
  ASSUME NEW prog, NEW at, at = [u \in DOMAIN at |-> at[u]], NEW e
  PROVE  LET q == Permit(prog, at, e) IN q = [u \in DOMAIN q |-> q[u]]
BY DEF Permit

\* A permit leads from a process to a process.
LEMMA PermitIsProcess ==
  ASSUME NEW prog \in Programs, NEW at, IsProcess(prog, at),
         NEW t \in DOMAIN at, HasNext(prog, at, t)
  PROVE  IsProcess(prog, Permit(prog, at, Announced(prog, at, t)))
<1> DEFINE n == NewThread(at)
           e == Announced(prog, at, t)
           o == NextOp(prog, at, t)
           q == Permit(prog, at, e)
           b == at[t].body
           j == at[t].done + 1
<1>1. /\ n \in 1 .. MaxThreads /\ n \in Nat /\ DOMAIN at = 0 .. n - 1
      /\ at \in [DOMAIN at -> [body : Bodies, done : Nat]]
  BY ExplorerAssumption DEF IsProcess
<1>2. /\ b \in Bodies /\ j \in DOMAIN prog[b] /\ o = prog[b][j] /\ at[t].done \in Nat
      /\ j <= Len(prog[b]) /\ o \in Operations
      /\ prog \in [Bodies -> Seq(Operations)]
  BY NextOperation, ProgramFacts
<1>3. e.tid = t /\ e.type = o.type
  BY AnnouncedEvent
<1>4. /\ DOMAIN q = IF Creates(e) THEN 0 .. n ELSE 0 .. n - 1
      /\ NewThread(q) = IF Creates(e) THEN n + 1 ELSE n
      /\ q[t] = [body |-> b, done |-> j]
      /\ \A u \in DOMAIN at \ {t} : q[u] = at[u]
      /\ Creates(e) => q[n] = [body |-> o.aux, done |-> 0]
  <2> HIDE DEF n, e
  <2>1. /\ DOMAIN q = IF Creates(e) THEN 0 .. n ELSE 0 .. n - 1
        /\ NewThread(q) = IF Creates(e) THEN n + 1 ELSE n
        /\ q[e.tid] = [body |-> at[e.tid].body, done |-> at[e.tid].done + 1]
        /\ \A u \in DOMAIN at \ {e.tid} : q[u] = at[u]
        /\ Creates(e) => q[n] = [body |-> NextOp(prog, at, e.tid).aux, done |-> 0]
    BY <1>3, PermitAt DEF n
  <2> HIDE DEF q
  <2> QED
    BY <1>3, <2>1
<1>5. /\ DOMAIN at \subseteq DOMAIN q
      /\ \A u \in DOMAIN q : u \in DOMAIN at \/ (Creates(e) /\ u = n)
      /\ n \notin DOMAIN at
  BY <1>1, <1>4
<1>6. \A u \in DOMAIN at : /\ q[u].body = at[u].body /\ q[u].done \in Nat
                           /\ at[u].done <= q[u].done
                           /\ \A i \in 1 .. q[u].done : i \in 1 .. at[u].done \/ (u = t /\ i = j)
                           /\ q[u].done <= Len(prog[q[u].body])
  <2> SUFFICES ASSUME NEW u \in DOMAIN at
               PROVE  /\ q[u].body = at[u].body /\ q[u].done \in Nat
                      /\ at[u].done <= q[u].done
                      /\ \A i \in 1 .. q[u].done : i \in 1 .. at[u].done \/ (u = t /\ i = j)
                      /\ q[u].done <= Len(prog[q[u].body])
    OBVIOUS
  <2>1. at[u].done \in Nat /\ at[u].done <= Len(prog[at[u].body])
    BY <1>1 DEF IsProcess
  <2>2. CASE u = t
    BY <1>2, <1>4, <2>1, <2>2
  <2>3. CASE u # t
    BY <1>4, <2>1, <2>3
  <2> QED
    BY <2>2, <2>3
<1>0. \A u \in DOMAIN at : q[u].body = at[u].body
  BY <1>6
<1>7. Creates(e) => /\ q[n].body = o.aux /\ q[n].done = 0 /\ o.aux \in Bodies \ {0}
                    /\ o.type = "THREAD_PRE_CREATE"
  <2>1. o.type = "THREAD_PRE_CREATE" => o.aux \in Bodies \ {0}
    BY <1>2 DEF Operations
  <2> HIDE DEF e, q, n, o
  <2> QED
    BY <1>3, <1>4, <2>1 DEF Creates
<1> HIDE DEF e, q, n, o
\* The body of a new thread is not run by another: its creation would be done.
<1>8. ASSUME Creates(e), NEW u \in DOMAIN at, at[u].body = o.aux
      PROVE  FALSE
  <2>1. u # 0
    BY <1>7, <1>8 DEF IsProcess
  <2>2. PICK v \in DOMAIN at : \E i \in 1 .. at[v].done :
           /\ prog[at[v].body][i].type = "THREAD_PRE_CREATE"
           /\ prog[at[v].body][i].aux = at[u].body
    BY <2>1 DEF IsProcess
  <2>3. PICK i \in 1 .. at[v].done :
           /\ prog[at[v].body][i].type = "THREAD_PRE_CREATE"
           /\ prog[at[v].body][i].aux = o.aux
    BY <1>8, <2>2
  <2>4. at[v].body \in Bodies /\ at[v].done \in Nat /\ at[v].done <= Len(prog[at[v].body])
        /\ prog[at[v].body] \in Seq(Operations)
    BY <1>1, <1>2 DEF IsProcess
  <2>5. i \in DOMAIN prog[at[v].body]
    BY <2>3, <2>4
  <2>6. at[v].body = b /\ i = j
    BY <1>2, <1>7, <1>8, <2>3, <2>4, <2>5, ProgramFacts DEF CreatesOnce
  <2>7. v = t
    BY <2>6 DEF IsProcess
  <2> QED
    BY <1>2, <2>3, <2>6, <2>7
<1>9. \A u \in DOMAIN q : q[u].body \in Bodies /\ q[u].done \in Nat /\ q[u] = [body |-> q[u].body, done |-> q[u].done]
  <2> SUFFICES ASSUME NEW u \in DOMAIN q
               PROVE  q[u].body \in Bodies /\ q[u].done \in Nat /\ q[u] = [body |-> q[u].body, done |-> q[u].done]
    OBVIOUS
  <2>1. CASE u = t
    BY <1>2, <1>4, <2>1
  <2>2. CASE u \in DOMAIN at \ {t}
    BY <1>1, <1>4, <2>2
  <2>3. CASE Creates(e) /\ u = n
    BY <1>4, <1>7, <2>3
  <2> QED
    BY <1>5, <2>1, <2>2, <2>3
<1>10. q \in [DOMAIN q -> [body : Bodies, done : Nat]]
  <2>1. q = [u \in DOMAIN q |-> q[u]]
    BY <1>1, <1>3, <1>4, Permitted DEF q
  <2> QED
    BY <1>9, <2>1
<1>11. \A u \in DOMAIN q : q[u].done <= Len(prog[q[u].body])
  <2>1. Creates(e) => q[n].done <= Len(prog[q[n].body])
    BY <1>2, <1>7
  <2> QED
    BY <1>5, <1>6, <2>1
<1>12. q[0].body = 0
  <2>1. 0 \in DOMAIN at
    BY <1>1, ExplorerAssumption
  <2>2. at[0].body = 0
    BY DEF IsProcess
  <2> QED
    BY <1>0, <2>1, <2>2
<1>13. \A u, v \in DOMAIN q : q[u].body = q[v].body => u = v
  <2>1. \A u, v \in DOMAIN at : at[u].body = at[v].body => u = v
    BY DEF IsProcess
  <2> QED
    <3> SUFFICES ASSUME NEW u \in DOMAIN q, NEW v \in DOMAIN q, q[u].body = q[v].body
                 PROVE  u = v
      OBVIOUS
    <3>1. CASE u \in DOMAIN at /\ v \in DOMAIN at
      BY <1>0, <2>1, <3>1
    <3>2. CASE u \in DOMAIN at /\ v \notin DOMAIN at
      BY <1>0, <1>5, <1>7, <1>8, <3>2
    <3>3. CASE u \notin DOMAIN at /\ v \in DOMAIN at
      BY <1>0, <1>5, <1>7, <1>8, <3>3
    <3>4. CASE u \notin DOMAIN at /\ v \notin DOMAIN at
      BY <1>5, <3>4
    <3> QED
      BY <3>1, <3>2, <3>3, <3>4
<1>14. NewThread(q) \in 1 .. MaxThreads /\ DOMAIN q = 0 .. NewThread(q) - 1
  <2>1. NewThread(q) \in Nat /\ NewThread(q) >= 1 /\ DOMAIN q = 0 .. NewThread(q) - 1
    BY <1>1, <1>4
  <2> DEFINE m == NewThread(q)
  <2>2. q \in [0 .. m - 1 -> [body : Bodies, done : Nat]]
    BY <1>10, <2>1
  <2> HIDE DEF m
  <2>3. m <= MaxThreads
    BY <1>13, <2>1, <2>2, ThreadsBounded DEF m
  <2> QED
    BY <2>1, <2>3, ExplorerAssumption DEF m
<1>15. ASSUME NEW u \in DOMAIN q, NEW i \in 1 .. q[u].done,
              prog[q[u].body][i].type = "THREAD_PRE_CREATE"
       PROVE  \E v \in DOMAIN q : q[v].body = prog[q[u].body][i].aux
  <2>1. u \in DOMAIN at
    BY <1>5, <1>7
  <2>2. CASE i \in 1 .. at[u].done
    <3>1. PICK v \in DOMAIN at : at[v].body = prog[at[u].body][i].aux
      <4>1. \A x \in DOMAIN at : \A k \in 1 .. at[x].done :
               prog[at[x].body][k].type = "THREAD_PRE_CREATE"
                 => \E y \in DOMAIN at : at[y].body = prog[at[x].body][k].aux
        BY DEF IsProcess
      <4> QED
        BY <1>0, <1>15, <2>1, <2>2, <4>1
    <3> QED
      BY <1>0, <1>5, <2>1, <3>1
  <2>3. CASE u = t /\ i = j
    <3>1. Creates(e)
      BY <1>2, <1>3, <1>6, <1>15, <2>3 DEF Creates
    <3>2. n \in DOMAIN q
      BY <1>1, <1>4, <3>1
    <3> QED
      BY <1>2, <1>6, <1>7, <2>1, <2>3, <3>1, <3>2
  <2> QED
    BY <1>6, <2>1, <2>2, <2>3
<1>16. ASSUME NEW u \in DOMAIN q \ {0}
       PROVE  \E v \in DOMAIN q : \E i \in 1 .. q[v].done :
                 /\ prog[q[v].body][i].type = "THREAD_PRE_CREATE"
                 /\ prog[q[v].body][i].aux = q[u].body
  <2>1. CASE u \in DOMAIN at
    <3>1. PICK v \in DOMAIN at : \E i \in 1 .. at[v].done :
             /\ prog[at[v].body][i].type = "THREAD_PRE_CREATE"
             /\ prog[at[v].body][i].aux = at[u].body
      BY <2>1 DEF IsProcess
    <3>2. PICK i \in 1 .. at[v].done :
             /\ prog[at[v].body][i].type = "THREAD_PRE_CREATE"
             /\ prog[at[v].body][i].aux = at[u].body
      BY <3>1
    <3>3. i \in 1 .. q[v].done
      BY <1>1, <1>6
    <3> QED
      BY <1>5, <1>6, <2>1, <3>2, <3>3
  <2>2. CASE Creates(e) /\ u = n
    <3>1. t \in DOMAIN q /\ j \in 1 .. q[t].done /\ q[t].body = b
      BY <1>2, <1>4, <1>5
    <3> QED
      BY <1>2, <1>7, <2>2, <3>1
  <2> QED
    BY <1>5, <2>1, <2>2
<1>17. IsProcess(prog, q)
  BY <1>10, <1>11, <1>12, <1>13, <1>14, <1>15, <1>16 DEF IsProcess
<1> QED
  BY <1>17 DEF q, e

\* A permit changes what its own thread announces and, for a creation, adds
\* what the new thread announces; the new thread does not start with a join.
LEMMA PermitAnnounced ==
  ASSUME NEW prog \in Programs, NEW at, IsProcess(prog, at),
         NEW t \in DOMAIN at, HasNext(prog, at, t)
  PROVE  LET n == NewThread(at)
             e == Announced(prog, at, t)
             q == Permit(prog, at, e)
         IN  /\ DOMAIN q = IF Creates(e) THEN DOMAIN at \cup {n} ELSE DOMAIN at
             /\ n \notin DOMAIN at /\ n \in Nat /\ DOMAIN at = 0 .. n - 1
             /\ NewThread(q) = IF Creates(e) THEN n + 1 ELSE n
             /\ \A u \in DOMAIN at \ {t} :
                  /\ HasNext(prog, q, u) <=> HasNext(prog, at, u)
                  /\ HasNext(prog, at, u) => Announced(prog, q, u) = Announced(prog, at, u)
             /\ HasNext(prog, q, t) <=> e.type # "THREAD_END"
             /\ Creates(e) => /\ HasNext(prog, q, n)
                              /\ Announced(prog, q, n).type # "THREAD_JOIN"
<1> DEFINE n == NewThread(at)
           e == Announced(prog, at, t)
           o == NextOp(prog, at, t)
           q == Permit(prog, at, e)
<1>1. /\ e.tid = t /\ e.type = o.type
      /\ e.type = "THREAD_END" <=> at[t].done + 1 = Len(prog[at[t].body])
  BY AnnouncedEvent
<1>0. e.tid = t
  BY <1>1
<1>2. /\ DOMAIN q = IF Creates(e) THEN 0 .. n ELSE 0 .. n - 1
      /\ NewThread(q) = IF Creates(e) THEN n + 1 ELSE n
      /\ q[t] = [body |-> at[t].body, done |-> at[t].done + 1]
      /\ \A u \in DOMAIN at \ {t} : q[u] = at[u]
      /\ Creates(e) => q[n] = [body |-> NextOp(prog, at, t).aux, done |-> 0]
  <2> HIDE DEF n, e
  <2>1. /\ DOMAIN q = IF Creates(e) THEN 0 .. n ELSE 0 .. n - 1
        /\ NewThread(q) = IF Creates(e) THEN n + 1 ELSE n
        /\ q[e.tid] = [body |-> at[e.tid].body, done |-> at[e.tid].done + 1]
        /\ \A u \in DOMAIN at \ {e.tid} : q[u] = at[u]
        /\ Creates(e) => q[n] = [body |-> NextOp(prog, at, e.tid).aux, done |-> 0]
    BY <1>0, PermitAt DEF n
  <2> HIDE DEF q
  <2> QED
    BY <1>0, <2>1
<1>3. n \in Nat /\ n \in 1 .. MaxThreads /\ DOMAIN at = 0 .. n - 1
  BY ExplorerAssumption DEF IsProcess
<1>4. IsProcess(prog, q)
  BY PermitIsProcess
<1> HIDE DEF e, q, n, o
<1>5. n \notin DOMAIN at /\ DOMAIN q = IF Creates(e) THEN DOMAIN at \cup {n} ELSE DOMAIN at
  <2>1. n \notin 0 .. n - 1 /\ 0 .. n = (0 .. n - 1) \cup {n}
    BY <1>3
  <2> QED
    BY <1>2, <1>3, <2>1
<1>9. /\ DOMAIN at \subseteq DOMAIN q
      /\ Creates(e) => n \in DOMAIN q /\ q[n].body = o.aux /\ q[n].done = 0
      /\ q[t].body = at[t].body /\ q[t].done = at[t].done + 1
  <2>1. DOMAIN at \subseteq DOMAIN q /\ (Creates(e) => n \in DOMAIN q)
    BY <1>5
  <2>2. Creates(e) => q[n].body = o.aux /\ q[n].done = 0
    BY <1>2 DEF o
  <2>3. q[t].body = at[t].body /\ q[t].done = at[t].done + 1
    BY <1>2
  <2> QED
    BY <2>1, <2>2, <2>3
<1>6. ASSUME NEW u \in DOMAIN at \ {t}
      PROVE  /\ HasNext(prog, q, u) <=> HasNext(prog, at, u)
             /\ HasNext(prog, at, u) => Announced(prog, q, u) = Announced(prog, at, u)
  <2>1. u \in DOMAIN q /\ q[u] = at[u]
    BY <1>2, <1>5
  <2>2. HasNext(prog, q, u) <=> HasNext(prog, at, u)
    BY <2>1 DEF HasNext
  <2>3. NextOp(prog, q, u) = NextOp(prog, at, u)
    BY <2>1 DEF NextOp
  <2>4. ASSUME HasNext(prog, at, u), NextOp(prog, at, u).type = "THREAD_JOIN"
        PROVE  ThreadOf(q, NextOp(prog, at, u).aux) = ThreadOf(at, NextOp(prog, at, u).aux)
    <3> DEFINE w == Announced(prog, at, u).aux
    <3>1. w \in DOMAIN at /\ at[w].body = NextOp(prog, at, u).aux
      BY <2>4, AnnouncedEvent
    <3> HIDE DEF w
    <3>2. ThreadOf(at, at[w].body) = w
      BY <3>1, ThreadOfBody
    <3>3. w \in DOMAIN q /\ q[w].body = at[w].body
      <4>1. q[w].body = at[w].body
        BY <1>2, <1>9, <3>1
      <4> QED
        BY <1>9, <3>1, <4>1
    <3>4. ThreadOf(q, q[w].body) = w
      BY <1>4, <3>3, ThreadOfBody
    <3> QED
      BY <3>1, <3>2, <3>3, <3>4
  <2>5. HasNext(prog, at, u) => Announced(prog, q, u) = Announced(prog, at, u)
    BY <2>3, <2>4 DEF Announced
  <2> QED
    BY <2>2, <2>5
<1>7. HasNext(prog, q, t) <=> e.type # "THREAD_END"
  <2>1. at[t].done + 1 <= Len(prog[at[t].body]) /\ Len(prog[at[t].body]) \in Nat
        /\ at[t].done \in Nat
    BY NextOperation
  <2> QED
    BY <1>1, <1>9, <2>1 DEF HasNext
<1>8. ASSUME Creates(e)
      PROVE  HasNext(prog, q, n) /\ Announced(prog, q, n).type # "THREAD_JOIN"
  <2>1. /\ o.type = "THREAD_PRE_CREATE" /\ o \in Operations
        /\ at[t].body \in Bodies /\ at[t].done + 1 \in DOMAIN prog[at[t].body]
        /\ o = prog[at[t].body][at[t].done + 1]
    BY <1>1, <1>8, NextOperation DEF Creates, o
  <2>2. o.aux \in Bodies /\ prog[o.aux] # <<>> /\ prog[o.aux] \in Seq(Operations)
    <3>1. o.aux \in Bodies
      BY <2>1 DEF Operations
    <3> QED
      BY <2>1, <3>1, ProgramFacts
  <2>3. n \in DOMAIN q /\ q[n].body = o.aux /\ q[n].done = 0
    BY <1>8, <1>9
  <2>4. Len(prog[o.aux]) \in Nat /\ Len(prog[o.aux]) # 0
    BY <2>2
  <2>5. HasNext(prog, q, n)
    BY <2>3, <2>4 DEF HasNext
  <2>6. NextOp(prog, q, n) = prog[o.aux][1] /\ 1 \in DOMAIN prog[o.aux]
    BY <2>2, <2>3, <2>4 DEF NextOp
  <2>7. prog[o.aux][1].type # "THREAD_JOIN"
    <3> SUFFICES ASSUME prog[o.aux][1].type = "THREAD_JOIN" PROVE FALSE
      OBVIOUS
    <3>1. PICK i \in DOMAIN prog[o.aux] : i < 1
      BY <2>2, <2>6, ProgramFacts DEF JoinsCreated
    <3> QED
      BY <2>2, <3>1
  <2> QED
    BY <1>4, <2>3, <2>5, <2>6, <2>7, AnnouncedEvent
<1> QED
  BY <1>2, <1>3, <1>5, <1>6, <1>7, <1>8 DEF e, q, n

----------------------------------------------------------------------------
(* The pending events of a process.                                        *)

\* What the threads of a process announce.
Announcements(prog, at) ==
  {Announced(prog, at, t) : t \in {u \in DOMAIN at : HasNext(prog, at, u)}}

\* Every pending event is the one its thread announces.
LEMMA PendingEvent ==
  ASSUME NEW prog \in Programs, NEW at, IsProcess(prog, at),
         NEW e \in Announcements(prog, at)
  PROVE  /\ e.tid \in DOMAIN at /\ HasNext(prog, at, e.tid)
         /\ e = Announced(prog, at, e.tid)
         /\ e \in Events /\ e.tid \in Threads /\ e.type # "THREAD_CREATE"
         /\ e.type \in MutexTypes \cup {"COND_WAIT"} => e.obj \in Mutexes
         /\ e.type \in RwlockTypes => e.obj \in Rwlocks
         /\ e.type = "THREAD_JOIN" => e.aux \in DOMAIN at /\ e.aux # e.tid
<1>1. PICK t \in DOMAIN at : HasNext(prog, at, t) /\ e = Announced(prog, at, t)
  BY DEF Announcements
<1>2. /\ e \in Events /\ e.tid = t
      /\ e.type # "THREAD_CREATE"
      /\ e.type \in MutexTypes \cup {"COND_WAIT"} => e.obj \in Mutexes
      /\ e.type \in RwlockTypes => e.obj \in Rwlocks
      /\ e.type = "THREAD_JOIN" => e.aux \in DOMAIN at /\ e.aux # t
  BY <1>1, AnnouncedEvent
<1>3. e.tid \in Threads
  BY <1>2 DEF Events
<1> QED
  BY <1>1, <1>2, <1>3

\* A thread announces one event.
LEMMA PendingOfThread ==
  ASSUME NEW prog \in Programs, NEW at, IsProcess(prog, at)
  PROVE  /\ Announcements(prog, at) \subseteq Events
         /\ \A x, y \in Announcements(prog, at) : x.tid = y.tid => x = y
         /\ Tids(Announcements(prog, at)) = {u \in DOMAIN at : HasNext(prog, at, u)}
<1>1. \A x \in Announcements(prog, at) :
         /\ x \in Events /\ x = Announced(prog, at, x.tid)
         /\ x.tid \in DOMAIN at /\ HasNext(prog, at, x.tid)
  BY PendingEvent
<1>2. \A u \in DOMAIN at : HasNext(prog, at, u) =>
         Announced(prog, at, u) \in Announcements(prog, at) /\ Announced(prog, at, u).tid = u
  BY AnnouncedEvent DEF Announcements
<1> QED
  BY <1>1, <1>2 DEF Tids

\* The pending events after a permit: e's thread announces its next operation,
\* if it has one, and a new thread its first one.
PermitEffect(prog, at, e) ==
  LET n == NewThread(at)
      q == Permit(prog, at, e)
      next  == IF e.type = "THREAD_END" THEN {} ELSE {Announced(prog, q, e.tid)}
      first == IF Creates(e) THEN {Announced(prog, q, n)} ELSE {}
  IN  /\ IsProcess(prog, q)
      /\ Announcements(prog, q) = (Announcements(prog, at) \ {e}) \cup next \cup first
      /\ e.type # "THREAD_END" => /\ Announced(prog, q, e.tid) \in Events
                                  /\ Announced(prog, q, e.tid).tid = e.tid
      /\ Creates(e) => /\ Announced(prog, q, n) \in Events
                       /\ Announced(prog, q, n).tid = n
                       /\ Announced(prog, q, n).type # "THREAD_JOIN"
      /\ DOMAIN q = IF Creates(e) THEN DOMAIN at \cup {n} ELSE DOMAIN at
      /\ n \notin DOMAIN at /\ n \in Nat /\ DOMAIN at = 0 .. n - 1

\* A permit for a pending event has that effect.
LEMMA PermitAnnouncements ==
  ASSUME NEW prog \in Programs, NEW at, IsProcess(prog, at),
         NEW e \in Announcements(prog, at)
  PROVE  PermitEffect(prog, at, e)
<1> DEFINE t == e.tid
           n == NewThread(at)
           q == Permit(prog, at, e)
           A == Announcements(prog, at)
           B == Announcements(prog, q)
<1>1. t \in DOMAIN at /\ HasNext(prog, at, t) /\ e = Announced(prog, at, t)
  BY PendingEvent
<1>2. /\ DOMAIN q = IF Creates(e) THEN DOMAIN at \cup {n} ELSE DOMAIN at
      /\ n \notin DOMAIN at /\ n \in Nat /\ DOMAIN at = 0 .. n - 1
      /\ \A u \in DOMAIN at \ {t} :
           /\ HasNext(prog, q, u) <=> HasNext(prog, at, u)
           /\ HasNext(prog, at, u) => Announced(prog, q, u) = Announced(prog, at, u)
      /\ HasNext(prog, q, t) <=> e.type # "THREAD_END"
      /\ Creates(e) => /\ HasNext(prog, q, n)
                       /\ Announced(prog, q, n).type # "THREAD_JOIN"
  <2> HIDE DEF t
  <2> DEFINE a == Announced(prog, at, t)
             r == Permit(prog, at, a)
  <2>1. /\ DOMAIN r = IF Creates(a) THEN DOMAIN at \cup {n} ELSE DOMAIN at
        /\ n \notin DOMAIN at /\ n \in Nat /\ DOMAIN at = 0 .. n - 1
        /\ \A u \in DOMAIN at \ {t} :
             /\ HasNext(prog, r, u) <=> HasNext(prog, at, u)
             /\ HasNext(prog, at, u) => Announced(prog, r, u) = Announced(prog, at, u)
        /\ HasNext(prog, r, t) <=> a.type # "THREAD_END"
        /\ Creates(a) => /\ HasNext(prog, r, n)
                         /\ Announced(prog, r, n).type # "THREAD_JOIN"
    BY <1>1, PermitAnnounced
  <2>2. a = e
    BY <1>1
  <2> HIDE DEF n, a
  <2> QED
    BY <2>1, <2>2
<1>3. IsProcess(prog, q)
  BY <1>1, PermitIsProcess
<1>4. \A u \in DOMAIN at : HasNext(prog, at, u) => Announced(prog, at, u).tid = u
  BY AnnouncedEvent
<1> HIDE DEF t, n, q
<1>5. \A u \in DOMAIN q : HasNext(prog, q, u) =>
         Announced(prog, q, u) \in Events /\ Announced(prog, q, u).tid = u
  BY <1>3, AnnouncedEvent
<1>6. t \in DOMAIN q /\ (Creates(e) => n \in DOMAIN q)
  BY <1>1, <1>2
<1>7. ASSUME NEW x
      PROVE  x \in B <=> \/ x \in A \ {e}
                         \/ e.type # "THREAD_END" /\ x = Announced(prog, q, t)
                         \/ Creates(e) /\ x = Announced(prog, q, n)
  <2>1. x \in B <=> \E u \in DOMAIN q : HasNext(prog, q, u) /\ x = Announced(prog, q, u)
    BY DEF Announcements
  <2>2. x \in A <=> \E u \in DOMAIN at : HasNext(prog, at, u) /\ x = Announced(prog, at, u)
    BY DEF Announcements
  <2>3. x \in A \ {e} <=> \E u \in DOMAIN at \ {t} : HasNext(prog, at, u) /\ x = Announced(prog, at, u)
    BY <1>1, <1>4, <2>2
  <2> HIDE DEF A, B
  <2>4. ASSUME x \in B
        PROVE  \/ x \in A \ {e}
               \/ e.type # "THREAD_END" /\ x = Announced(prog, q, t)
               \/ Creates(e) /\ x = Announced(prog, q, n)
    <3>1. PICK u \in DOMAIN q : HasNext(prog, q, u) /\ x = Announced(prog, q, u)
      BY <2>1, <2>4
    <3>2. CASE u = t
      BY <1>2, <3>1, <3>2
    <3>3. CASE u \in DOMAIN at \ {t}
      BY <1>2, <2>3, <3>1, <3>3
    <3>4. CASE Creates(e) /\ u = n
      BY <3>1, <3>4
    <3> QED
      BY <1>2, <3>1, <3>2, <3>3, <3>4
  <2>5. ASSUME x \in A \ {e}
        PROVE  x \in B
    <3>1. PICK u \in DOMAIN at \ {t} : HasNext(prog, at, u) /\ x = Announced(prog, at, u)
      BY <2>3, <2>5
    <3>2. u \in DOMAIN q
      BY <1>2
    <3> QED
      BY <1>2, <2>1, <3>1, <3>2
  <2> QED
    BY <1>2, <1>6, <2>1, <2>4, <2>5
<1>8. B = (A \ {e}) \cup (IF e.type = "THREAD_END" THEN {} ELSE {Announced(prog, q, t)})
            \cup (IF Creates(e) THEN {Announced(prog, q, n)} ELSE {})
  <2> HIDE DEF A, B
  <2> QED
    BY <1>7
<1>9. /\ e.type # "THREAD_END" => /\ Announced(prog, q, t) \in Events
                                  /\ Announced(prog, q, t).tid = t
      /\ Creates(e) => /\ Announced(prog, q, n) \in Events
                       /\ Announced(prog, q, n).tid = n
                       /\ Announced(prog, q, n).type # "THREAD_JOIN"
  BY <1>2, <1>5, <1>6
<1> QED
  BY <1>2, <1>3, <1>8, <1>9 DEF t, n, q, PermitEffect

\* A pair of sets holds what the threads of a process announce, and is right
\* about the joins.
PendingRight(p, prog, at) ==
  /\ p \in PairsOver(Events) /\ OnePer(p)
  /\ PendingIn(p) = Announcements(prog, at)
  /\ JoinExact(p, Tids(PendingIn(p)))

\* next_state keeps the pending events those of the process, by increments:
\* it removes the executed event, blocks and wakes others, and adds the next
\* event of the thread and the first one of a new thread.
LEMMA NewPendingRight ==
  ASSUME program \in Programs, IsProcess(program, pc),
         NEW st, PendingRight(st.p, program, pc),
         NEW e \in st.p.enabled, NEW mu, NEW rw
  PROVE  LET at == Permit(program, pc, e)
         IN  PendingRight(NewPending(st, e, mu, rw, at), program, at)
<1> DEFINE at == Permit(program, pc, e)
           n == NewThread(pc)
           p == st.p
           T == Tids(PendingIn(p))
           T1 == IF e.type = "THREAD_END" THEN T \ {e.tid} ELSE T
           q == AfterExecuting(p, e)
           g == Announced(program, at, e.tid)
           f == Announced(program, at, n)
<1>1. /\ p \in PairsOver(Events) /\ OnePer(p)
      /\ PendingIn(p) = Announcements(program, pc) /\ JoinExact(p, T)
  BY DEF PendingRight
<1>2. e \in Announcements(program, pc)
  BY <1>1 DEF PendingIn
<1>3. /\ Announcements(program, at)
           = (PendingIn(p) \ {e}) \cup (IF e.type = "THREAD_END" THEN {} ELSE {g})
               \cup (IF Creates(e) THEN {f} ELSE {})
      /\ e.type # "THREAD_END" => g \in Events /\ g.tid = e.tid
      /\ Creates(e) => f \in Events /\ f.tid = n /\ f.type # "THREAD_JOIN"
      /\ DOMAIN at = IF Creates(e) THEN DOMAIN pc \cup {n} ELSE DOMAIN pc
      /\ n \notin DOMAIN pc
  <2>1. PermitEffect(program, pc, e)
    BY <1>2, PermitAnnouncements
  <2>2. /\ Announcements(program, at)
             = (Announcements(program, pc) \ {e}) \cup (IF e.type = "THREAD_END" THEN {} ELSE {g})
                 \cup (IF Creates(e) THEN {f} ELSE {})
        /\ e.type # "THREAD_END" => g \in Events /\ g.tid = e.tid
        /\ Creates(e) => f \in Events /\ f.tid = n /\ f.type # "THREAD_JOIN"
        /\ DOMAIN at = IF Creates(e) THEN DOMAIN pc \cup {n} ELSE DOMAIN pc
        /\ n \notin DOMAIN pc /\ IsProcess(program, at)
    BY <2>1 DEF PermitEffect
  <2> HIDE DEF at, n, f, g
  <2> QED
    BY <1>1, <2>2
<1>4. IsProcess(program, at)
  BY <1>2, PermitAnnouncements DEF PermitEffect
<1>5. \A x \in Announcements(program, pc) :
         /\ x.tid \in DOMAIN pc
         /\ x.type = "THREAD_JOIN" => x.aux \in DOMAIN pc /\ x.aux # x.tid
  BY PendingEvent
<1>6. \A x \in Announcements(program, at) :
         x.type = "THREAD_JOIN" => x.aux # x.tid
  BY <1>4, PendingEvent
<1> HIDE DEF at, n, g, f
<1>7. /\ q \in PairsOver(Events) /\ OnePer(q) /\ PendingIn(q) = PendingIn(p) \ {e}
      /\ \A x \in PendingIn(q) : x.tid # e.tid
  BY <1>1, AfterExecutingSets
<1>8. JoinExact(q, T1)
  <2>1. \A x \in PendingIn(p) : x.type = "THREAD_JOIN" => x.aux # x.tid
    BY <1>1, <1>5
  <2> QED
    BY <1>1, <2>1, ExecutingJoins
<1>9. e.tid \in T /\ e.tid \in DOMAIN pc /\ T \subseteq DOMAIN pc
      /\ Tids(PendingIn(q)) = T \ {e.tid}
  BY <1>1, <1>2, <1>5, <1>7 DEF Tids
<1> HIDE DEF q, T, p
<1>10. CASE e.type = "THREAD_END"
  <2>1. ~Creates(e)
    BY <1>10 DEF Creates
  <2>2. NewPending(st, e, mu, rw, at) = q
    BY <1>10, <2>1 DEF NewPending, q, p
  <2>3. PendingIn(q) = Announcements(program, at)
    BY <1>3, <1>7, <1>10, <2>1
  <2> QED
    BY <1>7, <1>8, <1>9, <1>10, <2>2, <2>3 DEF PendingRight, at
<1>11. CASE e.type # "THREAD_END" /\ ~Creates(e)
  <2> DEFINE r == AddTransition(q, mu, rw, g)
  <2>1. NewPending(st, e, mu, rw, at) = r
    BY <1>11 DEF NewPending, q, p, g
  <2>2. r \in PairsOver(Events) /\ OnePer(r) /\ PendingIn(r) = PendingIn(q) \cup {g}
    BY <1>3, <1>7, <1>11, AddTransitionSets
  <2>3. PendingIn(r) = Announcements(program, at)
    BY <1>3, <1>7, <1>11, <2>2
  <2>4. g.type = "THREAD_JOIN" => g.aux # e.tid
    BY <1>3, <1>6, <1>11, <2>2, <2>3
  <2>5. JoinExact(r, T)
    <3>1. g.type = "THREAD_JOIN" => (g.aux \in Tids(PendingIn(q)) <=> g.aux \in T)
      BY <1>9, <2>4
    <3>2. JoinExact(q, T)
      BY <1>8, <1>11
    <3> QED
      BY <1>3, <1>7, <1>11, <3>1, <3>2, AddingJoins
  <2>6. Tids(PendingIn(r)) = T
    BY <1>3, <1>9, <1>11, <2>2 DEF Tids
  <2> QED
    BY <2>1, <2>2, <2>3, <2>5, <2>6 DEF PendingRight, at
<1>12. CASE Creates(e)
  <2> DEFINE s == AddTransition(q, mu, rw, f)
             r == AddTransition(s, mu, rw, g)
             U == T \cup {n}
  <2>0. e.type # "THREAD_END"
    BY <1>12 DEF Creates
  <2>1. NewPending(st, e, mu, rw, at) = r
    BY <1>12, <2>0 DEF NewPending, q, p, g, f, n
  <2>2. \A x \in PendingIn(q) : x.tid # f.tid
    BY <1>1, <1>3, <1>5, <1>7, <1>12
  <2>3. s \in PairsOver(Events) /\ OnePer(s) /\ PendingIn(s) = PendingIn(q) \cup {f}
    BY <1>3, <1>7, <1>12, <2>2, AddTransitionSets
  <2>4. JoinExact(s, U)
    <3>1. \A x \in PendingIn(q) : x.type = "THREAD_JOIN" => (x.aux \in T <=> x.aux \in U)
      BY <1>1, <1>3, <1>5, <1>7
    <3>2. JoinExact(q, T)
      BY <1>8, <2>0
    <3> HIDE DEF U
    <3> QED
      BY <1>3, <1>7, <1>12, <2>2, <3>1, <3>2, AddingJoins
  <2>5. \A x \in PendingIn(s) : x.tid # g.tid
    BY <1>3, <1>7, <1>9, <1>12, <2>0, <2>3
  <2> HIDE DEF s
  <2>6. r \in PairsOver(Events) /\ OnePer(r) /\ PendingIn(r) = PendingIn(s) \cup {g}
    BY <1>3, <2>0, <2>3, <2>5, AddTransitionSets
  <2>7. PendingIn(r) = Announcements(program, at)
    BY <1>3, <1>7, <1>12, <2>0, <2>3, <2>6
  <2>8. g.type = "THREAD_JOIN" => g.aux # e.tid
    BY <1>3, <1>6, <2>0, <2>6, <2>7
  <2>9. Tids(PendingIn(s)) = U \ {e.tid}
    BY <1>3, <1>9, <1>12, <2>3 DEF Tids
  <2>10. JoinExact(r, U)
    <3>1. g.type = "THREAD_JOIN" => (g.aux \in Tids(PendingIn(s)) <=> g.aux \in U)
      BY <2>8, <2>9
    <3> HIDE DEF U
    <3> QED
      BY <1>3, <2>0, <2>3, <2>4, <2>5, <3>1, AddingJoins
  <2>11. Tids(PendingIn(r)) = U
    BY <1>3, <1>9, <2>0, <2>6, <2>9 DEF Tids
  <2> QED
    BY <2>1, <2>6, <2>7, <2>10, <2>11 DEF PendingRight, at
<1> QED
  BY <1>10, <1>11, <1>12

----------------------------------------------------------------------------
(* Clock vectors.                                                          *)

\* A clock vector: an entry for each thread from 0 on, -1 where nothing is known.
IsVector(v) == \E w \in Nat : v \in [0 .. w - 1 -> {-1} \cup Nat]

\* One clock vector for each of n threads.
IsVectors(clocks, n) ==
  DOMAIN clocks = 0 .. n - 1 /\ \A t \in DOMAIN clocks : IsVector(clocks[t])

\* A vector is as wide as its entries say.
LEMMA VectorsAreLists ==
  ASSUME NEW n \in Nat, NEW clocks, IsVectors(clocks, n)
  PROVE  IsClockVectorList(clocks) /\ Cardinality(DOMAIN clocks) = n
<1>1. Cardinality(DOMAIN clocks) = n /\ DOMAIN clocks = 0 .. n - 1
  BY FS_Interval DEF IsVectors
<1>2. ASSUME NEW t \in DOMAIN clocks
      PROVE  /\ DOMAIN clocks[t] = 0 .. Width(clocks[t]) - 1
             /\ \A i \in DOMAIN clocks[t] : clocks[t][i] \in {-1} \cup Nat
  <2>1. PICK w \in Nat : clocks[t] \in [0 .. w - 1 -> {-1} \cup Nat]
    BY DEF IsVectors, IsVector
  <2>2. Cardinality(0 .. w - 1) = w
    BY FS_Interval
  <2> QED
    BY <2>1, <2>2 DEF Width
<1> QED
  BY <1>1, <1>2 DEF IsClockVectorList

\* The count of one more event leaves every vector as wide as it was.
LEMMA TickVectors ==
  ASSUME NEW n \in Nat, NEW clocks, IsVectors(clocks, n), NEW tid
  PROVE  IsVectors(Tick(clocks, tid), n)
<1> DEFINE v == clocks[tid]
           c == Tick(clocks, tid)
<1>1. DOMAIN c = DOMAIN clocks /\ \A t \in DOMAIN clocks :
         c[t] = IF t = tid THEN Store(v, tid, Entry(v, tid) + 1) ELSE clocks[t]
  BY DEF Tick
<1>2. ASSUME tid \in DOMAIN clocks
      PROVE  IsVector(Store(v, tid, Entry(v, tid) + 1))
  <2>1. PICK w \in Nat : v \in [0 .. w - 1 -> {-1} \cup Nat]
    BY <1>2 DEF IsVectors, IsVector
  <2> HIDE DEF v
  <2>2. Entry(v, tid) + 1 \in {-1} \cup Nat
    BY <2>1 DEF Entry
  <2>3. Store(v, tid, Entry(v, tid) + 1) \in [0 .. w - 1 -> {-1} \cup Nat]
    BY <2>1, <2>2 DEF Store
  <2> QED
    BY <2>1, <2>3 DEF IsVector
<1> HIDE DEF v, c
<1>3. IsVectors(c, n)
  BY <1>1, <1>2 DEF IsVectors
<1> QED
  BY <1>3 DEF c

\* The vectors of the threads after a creation.
LEMMA AddThreadVectors ==
  ASSUME NEW n \in Nat, NEW clocks, IsVectors(clocks, n), NEW parent \in 0 .. n - 1
  PROVE  IsVectors(AddThread(clocks, n, parent), n + 1)
<1> DEFINE wide == Widened(clocks[parent])
           c == AddThread(clocks, n, parent)
<1>1. PICK w \in Nat : clocks[parent] \in [0 .. w - 1 -> {-1} \cup Nat]
  BY DEF IsVectors, IsVector
<1>2. Width(clocks[parent]) = w
  <2>1. Cardinality(0 .. w - 1) = w
    BY FS_Interval
  <2> QED
    BY <1>1, <2>1 DEF Width
<1>3. w + 1 \in Nat /\ wide \in [0 .. (w + 1) - 1 -> {-1} \cup Nat]
  <2>1. (w + 1) - 1 = w /\ w + 1 \in Nat
    OBVIOUS
  <2>2. \A i : Entry(clocks[parent], i) \in {-1} \cup Nat
    BY <1>1 DEF Entry
  <2>3. wide = [i \in 0 .. w |-> Entry(clocks[parent], i)]
    BY <1>2 DEF Widened
  <2> HIDE DEF wide
  <2> QED
    BY <2>1, <2>2, <2>3
<1> HIDE DEF wide
<1>4. IsVector(wide)
  BY <1>3 DEF IsVector
<1>5. IsVector(Store(wide, n, 0))
  <2>1. Store(wide, n, 0) \in [0 .. (w + 1) - 1 -> {-1} \cup Nat]
    BY <1>3 DEF Store
  <2> QED
    BY <1>3, <2>1 DEF IsVector
<1>6. DOMAIN clocks \cup {n} = 0 .. (n + 1) - 1 /\ n \notin DOMAIN clocks
  BY DEF IsVectors
<1>7. c = [t \in DOMAIN clocks \cup {n} |-> CASE t = parent -> wide
                                              [] t = n -> Store(wide, n, 0)
                                              [] OTHER -> clocks[t]]
  BY DEF AddThread, wide
<1>8. DOMAIN c = 0 .. (n + 1) - 1 /\ \A t \in DOMAIN c : c[t] = wide \/ c[t] = Store(wide, n, 0)
                                                         \/ (t \in DOMAIN clocks /\ c[t] = clocks[t])
  BY <1>6, <1>7
<1> HIDE DEF c
<1>9. IsVectors(c, n + 1)
  BY <1>4, <1>5, <1>8 DEF IsVectors
<1> QED
  BY <1>9 DEF c

----------------------------------------------------------------------------
(* States of the stack.                                                    *)

\* The fields of State.
StateFields == {"p", "mutexes", "rwlocks", "locksets", "clocks", "sleepset",
                "backtrack", "done", "sel", "removeFromSleep", "switches"}

\* The lock tables of a state.
MutexTable == [Mutexes -> Threads \cup {Free, Absent}]

\* The lock sets: a thread that has not been created has none.
LocksetTable == [Threads -> (SUBSET Mutexes) \cup {NoLockset}]

\* st is a state of the exploration in which the process is at "at": its
\* tables have their types, what is pending is what the process announces, a
\* thread that has not been created has no lock set, there is one clock vector
\* per thread, and its backtrack points can be explored.
GoodState(st, prog, at) ==
  /\ DOMAIN st = StateFields
  /\ PendingRight(st.p, prog, at)
  /\ st.mutexes \in MutexTable /\ st.locksets \in LocksetTable
  /\ \A t \in Threads : t >= NewThread(at) => st.locksets[t] = NoLockset
  /\ IsVectors(st.clocks, NewThread(at))
  /\ st.backtrack \subseteq st.p.enabled \ st.sleepset
  /\ st.done \subseteq st.sleepset

\* Executing an event for which the assertions hold keeps the types of the
\* lock tables: a thread without a lock set, whose table entry is no set of
\* mutexes, neither locks nor unlocks.
LEMMA TablesTyped ==
  ASSUME NEW mu \in MutexTable, NEW rw, NEW ls \in LocksetTable, NEW e,
         e.tid \in Threads,
         e.type \in MutexTypes \cup {"COND_WAIT"} => e.obj \in Mutexes,
         ExecuteAsserts(mu, rw, ls, e)
  PROVE  ExecuteMutexes(mu, e) \in MutexTable /\ ExecuteLocksets(ls, e) \in LocksetTable
<1>1. ExecuteMutexes(mu, e) \in MutexTable
  BY DEF ExecuteMutexes, MutexTable
<1>2. ASSUME NEW x \in (SUBSET Mutexes) \cup {NoLockset}
      PROVE  [ls EXCEPT ![e.tid] = x] \in LocksetTable
  BY DEF LocksetTable
<1>3. {} \in (SUBSET Mutexes) \cup {NoLockset} /\ NoLockset \in (SUBSET Mutexes) \cup {NoLockset}
  OBVIOUS
<1>4. ls[e.tid] \in (SUBSET Mutexes) \cup {NoLockset}
  BY DEF LocksetTable
<1>5. CASE e.type = "MUTEX_LOCK"
  <2>1. ls[e.tid] \in SUBSET Mutexes
    BY <1>4, <1>5 DEF ExecuteAsserts, MutexAsserts
  <2>2. e.obj \in Mutexes
    BY <1>5 DEF MutexTypes
  <2>3. ls[e.tid] \cup {e.obj} \in (SUBSET Mutexes) \cup {NoLockset}
    BY <2>1, <2>2
  <2>4. ExecuteLocksets(ls, e) = [ls EXCEPT ![e.tid] = ls[e.tid] \cup {e.obj}]
    BY <1>5 DEF ExecuteLocksets
  <2> QED
    BY <1>1, <1>2, <2>3, <2>4
<1>6. CASE e.type = "MUTEX_UNLOCK"
  <2>1. e.obj \in ls[e.tid] /\ e.obj \in Mutexes
    BY <1>6 DEF ExecuteAsserts, MutexAsserts, MutexTypes
  <2>2. e.obj # NoId
    BY <2>1, ExplorerAssumption DEF NoId
  <2>3. ls[e.tid] \in SUBSET Mutexes
    BY <1>4, <2>1, <2>2 DEF NoLockset
  <2>4. ls[e.tid] \ {e.obj} \in (SUBSET Mutexes) \cup {NoLockset}
    BY <2>3
  <2>5. ExecuteLocksets(ls, e) = [ls EXCEPT ![e.tid] = ls[e.tid] \ {e.obj}]
    BY <1>6 DEF ExecuteLocksets
  <2> QED
    BY <1>1, <1>2, <2>4, <2>5
<1>7. CASE e.type \notin {"MUTEX_LOCK", "MUTEX_UNLOCK"}
  <2>1. ExecuteLocksets(ls, e) \in {ls, [ls EXCEPT ![e.tid] = {}], [ls EXCEPT ![e.tid] = NoLockset]}
    BY <1>7 DEF ExecuteLocksets
  <2> QED
    BY <1>1, <1>2, <1>3, <2>1
<1> QED
  BY <1>5, <1>6, <1>7

\* next_state returns a good state for the process after the permit, with
\* nothing to backtrack to.
LEMMA NewStateGood ==
  ASSUME program \in Programs, IsProcess(program, pc),
         NEW st, GoodState(st, program, pc), NEW e \in st.p.enabled, StateAsserts(st, e)
  PROVE  LET at == Permit(program, pc, e)
         IN  /\ GoodState(NewState(st, e, at), program, at)
             /\ NewState(st, e, at).backtrack = {}
             /\ NewState(st, e, at).sleepset = UpdateSleepset(st.sleepset, e)
<1> DEFINE at == Permit(program, pc, e)
           n  == NewThread(pc)
           mu == ExecuteMutexes(st.mutexes, e)
           rw == ExecuteRwlocks(st.rwlocks, e)
           new == NewState(st, e, at)
<1>1. e \in Announcements(program, pc)
  BY DEF GoodState, PendingRight, PendingIn
<1>2. /\ e.tid \in DOMAIN pc /\ HasNext(program, pc, e.tid)
      /\ e.tid \in Threads
      /\ e.type \in MutexTypes \cup {"COND_WAIT"} => e.obj \in Mutexes
      /\ e = Announced(program, pc, e.tid)
  BY <1>1, PendingEvent
<1>3. n \in Nat /\ DOMAIN pc = 0 .. n - 1 /\ n \in 1 .. MaxThreads
  BY ExplorerAssumption DEF IsProcess
<1>4. PendingRight(NewPending(st, e, mu, rw, at), program, at)
  BY NewPendingRight DEF GoodState
<1>5. NewThread(at) = IF Creates(e) THEN n + 1 ELSE n
  BY <1>2, PermitAt
<1>6. mu \in MutexTable
  BY <1>2, TablesTyped DEF GoodState, StateAsserts
<1>7. NewLocksets(st, e) \in LocksetTable
  <2>1. CASE Creates(e)
    <3> DEFINE x == Ev("THREAD_START", n, NoId, NoId)
    <3>1. NewLocksets(st, e) = [st.locksets EXCEPT ![n] = {}]
      BY <2>1 DEF NewLocksets, ExecuteLocksets, Ev
    <3> QED
      BY <3>1 DEF GoodState, LocksetTable
  <2>2. CASE ~Creates(e)
    <3>1. NewLocksets(st, e) = ExecuteLocksets(st.locksets, e)
      BY <2>2 DEF NewLocksets
    <3> QED
      BY <1>2, <3>1, TablesTyped DEF GoodState, StateAsserts
  <2> QED
    BY <2>1, <2>2
<1>12. ASSUME NEW t \in Threads, t >= NewThread(at)
       PROVE  NewLocksets(st, e)[t] = NoLockset
  <2>1. t >= n /\ t # e.tid /\ (Creates(e) => t # n)
    BY <1>2, <1>3, <1>5, <1>12 DEF Threads
  <2>2. st.locksets[t] = NoLockset /\ st.locksets \in LocksetTable
    BY <2>1 DEF GoodState
  <2>3. CASE Creates(e)
    BY <2>1, <2>2, <2>3 DEF NewLocksets, ExecuteLocksets, Ev
  <2>4. CASE ~Creates(e)
    <3>1. NewLocksets(st, e) = ExecuteLocksets(st.locksets, e)
      BY <2>4 DEF NewLocksets
    <3> QED
      BY <2>1, <2>2, <3>1 DEF ExecuteLocksets
  <2> QED
    BY <2>3, <2>4
<1>8. IsVectors(NewClocks(st, e), NewThread(at))
  <2>1. IsVectors(Tick(st.clocks, e.tid), n)
    BY <1>3, TickVectors DEF GoodState
  <2>2. Creates(e) => IsVectors(AddThread(Tick(st.clocks, e.tid), n, e.tid), n + 1)
    BY <1>2, <1>3, <2>1, AddThreadVectors
  <2> QED
    BY <1>5, <2>1, <2>2 DEF NewClocks
<1> HIDE DEF at, mu, rw
<1>9. new = [ p |-> NewPending(st, e, mu, rw, at), mutexes |-> mu, rwlocks |-> rw,
              locksets |-> NewLocksets(st, e), clocks |-> NewClocks(st, e),
              sleepset |-> UpdateSleepset(st.sleepset, e),
              backtrack |-> {}, done |-> {}, sel |-> NoEvent,
              removeFromSleep |-> st.removeFromSleep, switches |-> st.switches ]
  BY DEF NewState, mu, rw
<1> HIDE DEF new
<1>10. /\ DOMAIN new = StateFields
       /\ new.p = NewPending(st, e, mu, rw, at) /\ new.mutexes = mu
       /\ new.locksets = NewLocksets(st, e) /\ new.clocks = NewClocks(st, e)
       /\ new.backtrack = {} /\ new.done = {}
       /\ new.sleepset = UpdateSleepset(st.sleepset, e)
  BY <1>9 DEF StateFields
<1>11. GoodState(new, program, at)
  BY <1>4, <1>6, <1>7, <1>8, <1>10, <1>12 DEF GoodState
<1> QED
  BY <1>10, <1>11 DEF new, at

----------------------------------------------------------------------------
(* The stack.                                                              *)

\* A sequence that is not empty, of whatever states.
IsStack(s) ==
  /\ Len(s) \in Nat \ {0}
  /\ s \in [1 .. Len(s) -> {s[k] : k \in 1 .. Len(s)}]

\* A stack is a sequence of its states.
LEMMA StackIsSequence ==
  ASSUME NEW s, IsStack(s)
  PROVE  s \in Seq({s[k] : k \in 1 .. Len(s)}) /\ DOMAIN s = 1 .. Len(s)
BY DEF IsStack

\* Any sequence that is not empty is a stack.
LEMMA SequenceIsStack ==
  ASSUME NEW n \in Nat \ {0}, NEW S, NEW s \in [1 .. n -> S]
  PROVE  IsStack(s) /\ Len(s) = n
<1>1. s \in Seq(S) /\ Len(s) = n
  OBVIOUS
<1>2. s = [k \in 1 .. n |-> s[k]]
  OBVIOUS
<1>3. s \in [1 .. n -> {s[k] : k \in 1 .. n}]
  BY <1>2
<1> QED
  BY <1>1, <1>3 DEF IsStack

\* stk with its top replaced by x, and y pushed.
Pushed(stk, x, y) == Append([stk EXCEPT ![Len(stk)] = x], y)

\* Replacing the top and pushing a state changes no other state.
LEMMA PushedShape ==
  ASSUME NEW stk, IsStack(stk), NEW x, NEW y
  PROVE  LET n == Len(stk)
             s == Pushed(stk, x, y)
         IN  /\ IsStack(s) /\ Len(s) = n + 1
             /\ \A k \in 1 .. n - 1 : s[k] = stk[k]
             /\ s[n] = x /\ s[n + 1] = y
<1> DEFINE n == Len(stk)
           S == {stk[k] : k \in 1 .. n} \cup {x, y}
           r == [stk EXCEPT ![n] = x]
           s == Append(r, y)
<1>1. n \in Nat \ {0} /\ stk \in [1 .. n -> {stk[k] : k \in 1 .. n}]
  BY DEF IsStack
<1>2. y \in S /\ x \in S /\ \A k \in 1 .. n : stk[k] \in S
  OBVIOUS
<1>3. stk \in [1 .. n -> S] /\ DOMAIN stk = 1 .. n
  BY <1>1
<1> HIDE DEF S, n
<1>4. r \in [1 .. n -> S] /\ r[n] = x /\ \A k \in 1 .. n - 1 : r[k] = stk[k]
  BY <1>1, <1>2, <1>3
<1> HIDE DEF r
<1>5. r \in Seq(S) /\ Len(r) = n
  BY <1>1, <1>4
<1>6. /\ s \in Seq(S) /\ Len(s) = n + 1
      /\ \A k \in 1 .. n : s[k] = r[k]
      /\ s[n + 1] = y
  BY <1>2, <1>5
<1>7. s = Pushed(stk, x, y)
  BY DEF r, n, Pushed
<1> HIDE DEF s
<1>8. n + 1 \in Nat \ {0} /\ s \in [1 .. n + 1 -> S]
  BY <1>1, <1>6
<1>9. IsStack(s)
  BY <1>8, SequenceIsStack
<1>10. n \in 1 .. n /\ \A k \in 1 .. n - 1 : k \in 1 .. n
  BY <1>1
<1>11. s[n] = x /\ \A k \in 1 .. n - 1 : s[k] = stk[k]
  BY <1>4, <1>6, <1>10
<1> QED
  BY <1>6, <1>7, <1>9, <1>11 DEF n

\* What a state remembers of the event executed from it: a creation by the id
\* of the new thread.
Selected(at, e) ==
  IF Creates(e) THEN Ev("THREAD_CREATE", e.tid, NoId, NewThread(at)) ELSE e

\* Only the sets of explored events and the selected event change in the
\* state an event is executed from.
LEMMA ExecutedFields ==
  ASSUME NEW st, DOMAIN st = StateFields, NEW e
  PROVE  LET x == Executed(st, e)
         IN  /\ DOMAIN x = StateFields
             /\ x.p = st.p /\ x.mutexes = st.mutexes /\ x.locksets = st.locksets
             /\ x.clocks = st.clocks /\ x.backtrack = st.backtrack
             /\ x.sleepset = Insert(st.sleepset, e) /\ x.done = Insert(st.done, e)
             /\ x.sel = Selected(pc, e)
BY DEF Executed, Selected, StateFields

\* The executed event goes to the sets of explored events, and must leave the
\* backtrack set: it sleeps now.
LEMMA ExecutedGood ==
  ASSUME NEW prog, NEW at, NEW st, GoodState(st, prog, at), NEW e,
         NEW x, DOMAIN x = StateFields,
         x.p = st.p, x.mutexes = st.mutexes, x.locksets = st.locksets,
         x.clocks = st.clocks, x.backtrack = st.backtrack \ {e},
         x.sleepset = Insert(st.sleepset, e), x.done = Insert(st.done, e)
  PROVE  GoodState(x, prog, at)
BY DEF GoodState, Insert, EventsOf

----------------------------------------------------------------------------
(* The backtrack points.                                                   *)

\* get_transition returns an element.
LEMMA FirstChosen ==
  ASSUME NEW S, S # {}, S \subseteq Events
  PROVE  First(S) \in S
<1>1. \A x \in S : x.tid \in Nat
  BY DEF Events, Threads
<1>2. \E x \in S : \A y \in S : x.tid <= y.tid
  BY <1>1, LowestThread
<1> QED
  BY <1>2 DEF First

\* backtrack_SourceDPOR_helper inserts only events that are enabled and do not
\* sleep.
LEMMA InsertedExecutable ==
  ASSUME NEW k, NEW e, stack[k].p.enabled \subseteq Events
  PROVE  ToInsert(stack[k], k, e) \subseteq stack[k].p.enabled \ stack[k].sleepset
<1> DEFINE usable == {n \in ReturnMin(k, NotDep(k, e)) :
                        n.tid # Sel(k).tid /\ n \notin stack[k].sleepset}
<1>1. usable \subseteq stack[k].p.enabled \ stack[k].sleepset
  BY DEF ReturnMin
<1>2. ToInsert(stack[k], k, e) = {} \/ (usable # {} /\ ToInsert(stack[k], k, e) = {First(usable)})
  BY DEF ToInsert
<1>3. usable # {} => First(usable) \in usable
  BY <1>1, FirstChosen
<1> QED
  BY <1>1, <1>2, <1>3

\* The races of an event change the backtrack sets of the states below the top
\* one, and leave them good.
LEMMA UpdateBacktrackGood ==
  ASSUME IsStack(stack), NEW prog, NEW ats,
         \A k \in 1 .. Len(stack) : GoodState(stack[k], prog, ats[k]),
         NEW e
  PROVE  LET s == UpdateBacktrack(e)
         IN  /\ IsStack(s) /\ Len(s) = Len(stack) /\ s[Len(stack)] = Top
             /\ \A k \in 1 .. Len(stack) : /\ GoodState(s[k], prog, ats[k])
                                           /\ s[k].p = stack[k].p /\ s[k].sel = stack[k].sel
                                           /\ s[k].clocks = stack[k].clocks
<1> DEFINE s == UpdateBacktrack(e)
           N == Len(stack)
<1>1. N \in Nat \ {0} /\ DOMAIN stack = 1 .. N
  BY DEF IsStack
<1>2. s = [k \in 1 .. N |->
             IF k < N /\ ReversibleRace(k, e)
             THEN [stack[k] EXCEPT !.backtrack = stack[k].backtrack \cup ToInsert(stack[k], k, e)]
             ELSE stack[k]]
  BY DEF UpdateBacktrack
<1>3. s \in [1 .. N -> {s[k] : k \in 1 .. N}]
  BY <1>2
<1>4. s[N] = Top
  BY <1>1, <1>2 DEF Top
<1> HIDE DEF s, N
<1>5. IsStack(s) /\ Len(s) = N
  BY <1>1, <1>3, SequenceIsStack
<1>6. ASSUME NEW k \in 1 .. N
      PROVE  /\ GoodState(s[k], prog, ats[k])
             /\ s[k].p = stack[k].p /\ s[k].sel = stack[k].sel
             /\ s[k].clocks = stack[k].clocks
  <2> DEFINE st == stack[k]
             new == st.backtrack \cup ToInsert(st, k, e)
             x == [st EXCEPT !.backtrack = new]
  <2>1. s[k] = x \/ s[k] = st
    BY <1>2
  <2>2. GoodState(st, prog, ats[k])
    BY DEF N
  <2>3. new \subseteq st.p.enabled \ st.sleepset
    <3>1. st.p.enabled \subseteq Events
      BY <2>2 DEF GoodState, PendingRight, PairsOver
    <3>2. ToInsert(st, k, e) \subseteq st.p.enabled \ st.sleepset
      BY <3>1, InsertedExecutable
    <3> QED
      BY <2>2, <3>2 DEF GoodState
  <2> HIDE DEF st, new
  <2>4. DOMAIN st = StateFields
    BY <2>2 DEF GoodState
  <2>5. /\ DOMAIN x = StateFields
        /\ x.p = st.p /\ x.mutexes = st.mutexes /\ x.locksets = st.locksets
        /\ x.clocks = st.clocks /\ x.backtrack = new
        /\ x.sleepset = st.sleepset /\ x.done = st.done /\ x.sel = st.sel
    BY <2>4 DEF StateFields
  <2> HIDE DEF x
  <2>6. GoodState(x, prog, ats[k])
    BY <2>2, <2>3, <2>5 DEF GoodState
  <2> QED
    BY <2>1, <2>2, <2>5, <2>6 DEF st
<1> QED
  BY <1>4, <1>5, <1>6 DEF s, N

----------------------------------------------------------------------------
(* The history of a stack.                                                 *)

\* An event enabled in st is the one selected there, and leads to "next".
Linked(prog, st, at, next) ==
  \E e \in st.p.enabled : st.sel = Selected(at, e) /\ next = Permit(prog, at, e)

\* ats are the processes in which the states of s were reached.
History(prog, s, ats) ==
  /\ IsStack(s)
  /\ ats[1] = Restarted
  /\ \A k \in 1 .. Len(s) : IsProcess(prog, ats[k]) /\ GoodState(s[k], prog, ats[k])
  /\ \A k \in 1 .. Len(s) - 1 : Linked(prog, s[k], ats[k], ats[k + 1])

\* One more state.
LEMMA HistoryExtended ==
  ASSUME NEW prog, NEW s, NEW ats, History(prog, s, ats),
         NEW r, IsStack(r), Len(r) = Len(s) + 1,
         NEW q, IsProcess(prog, q), GoodState(r[Len(r)], prog, q),
         \A k \in 1 .. Len(s) : GoodState(r[k], prog, ats[k]) /\ r[k].p = s[k].p,
         \A k \in 1 .. Len(s) - 1 : r[k].sel = s[k].sel,
         Linked(prog, r[Len(s)], ats[Len(s)], q)
  PROVE  \E a : History(prog, r, a) /\ a[Len(r)] = q
<1> DEFINE n == Len(s)
           a == [k \in 1 .. n + 1 |-> IF k <= n THEN ats[k] ELSE q]
<1>1. n \in Nat \ {0}
  BY DEF History, IsStack
<1> HIDE DEF n
<1>2. a[n + 1] = q /\ \A k \in 1 .. n : a[k] = ats[k]
  BY <1>1
<1> HIDE DEF a
<1>3. a[1] = Restarted
  BY <1>1, <1>2 DEF History
<1>4. ASSUME NEW k \in 1 .. Len(r)
      PROVE  IsProcess(prog, a[k]) /\ GoodState(r[k], prog, a[k])
  <2>1. CASE k \in 1 .. n
    BY <1>2, <2>1 DEF History, n
  <2>2. CASE k = n + 1
    BY <1>2, <2>2 DEF n
  <2> QED
    BY <1>1, <2>1, <2>2 DEF n
<1>5. ASSUME NEW k \in 1 .. Len(r) - 1
      PROVE  Linked(prog, r[k], a[k], a[k + 1])
  <2>1. CASE k = n
    BY <1>1, <1>2, <2>1 DEF n
  <2>2. CASE k \in 1 .. n - 1
    <3>1. k \in 1 .. n /\ k + 1 \in 1 .. n
      BY <1>1, <2>2
    <3>2. Linked(prog, s[k], ats[k], ats[k + 1])
      BY <2>2 DEF History, n
    <3>3. r[k].p = s[k].p /\ r[k].sel = s[k].sel
      BY <2>2, <3>1 DEF n
    <3> QED
      BY <1>2, <3>1, <3>2, <3>3 DEF Linked
  <2> QED
    BY <1>1, <2>1, <2>2 DEF n
<1>6. History(prog, r, a)
  BY <1>3, <1>4, <1>5 DEF History
<1> QED
  BY <1>2, <1>6 DEF n

\* What is left of a stack after pops.
LEMMA HistoryPrefix ==
  ASSUME NEW prog, NEW s, NEW ats, History(prog, s, ats), NEW m \in 1 .. Len(s)
  PROVE  LET r == SubSeq(s, 1, m)
         IN  /\ History(prog, r, ats) /\ Len(r) = m
             /\ \A k \in 1 .. m : r[k] = s[k]
<1> DEFINE S == {s[k] : k \in 1 .. Len(s)}
           r == SubSeq(s, 1, m)
<1>1. s \in Seq(S) /\ Len(s) \in Nat \ {0} /\ m \in Nat \ {0} /\ m <= Len(s)
  <2>1. IsStack(s)
    BY DEF History
  <2>2. s \in Seq(S)
    BY <2>1, StackIsSequence
  <2> HIDE DEF S
  <2> QED
    BY <2>1, <2>2 DEF IsStack
<1> HIDE DEF S
<1>2. r \in Seq(S) /\ Len(r) = m /\ \A k \in 1 .. m : r[k] = s[k]
  BY <1>1
<1> HIDE DEF r
<1>3. IsStack(r)
  <2>1. r \in [1 .. m -> S]
    BY <1>1, <1>2
  <2> QED
    BY <1>1, <2>1, SequenceIsStack
<1>4. \A k \in 1 .. Len(r) : k \in 1 .. Len(s) /\ r[k] = s[k]
  BY <1>1, <1>2
<1>5. \A k \in 1 .. Len(r) - 1 : k \in 1 .. Len(s) - 1 /\ r[k] = s[k]
  BY <1>1, <1>2
<1>6. History(prog, r, ats)
  BY <1>3, <1>4, <1>5 DEF History
<1> QED
  BY <1>2, <1>6 DEF r

\* What Push does.
LEMMA PushShape ==
  ASSUME NEW stk, IsStack(stk), DOMAIN stk[Len(stk)] = StateFields, NEW e
  PROVE  LET n == Len(stk)
             st == stk[n]
             s == Push(stk, e)
             new == NewState(st, e, Permit(program, pc, e))
         IN  /\ IsStack(s) /\ Len(s) = n + 1
             /\ \A k \in 1 .. n - 1 : s[k] = stk[k]
             /\ s[n] = Executed(st, e)
             /\ s[n + 1] \in {new, [new EXCEPT !.switches = new.switches + 1]}
<1> DEFINE n == Len(stk)
           st == stk[n]
           new == NewState(st, e, Permit(program, pc, e))
           y == IF Preempts(stk, e) THEN [new EXCEPT !.switches = new.switches + 1] ELSE new
           s == Pushed(stk, Executed(st, e), y)
<1>1. Push(stk, e) = s
  BY DEF Push, Pushed
<1>2. y \in {new, [new EXCEPT !.switches = new.switches + 1]}
  OBVIOUS
<1> HIDE DEF new, y
<1>3. /\ IsStack(s) /\ Len(s) = n + 1
      /\ \A k \in 1 .. n - 1 : s[k] = stk[k]
      /\ s[n] = Executed(st, e) /\ s[n + 1] = y
  BY PushedShape
<1> HIDE DEF s
<1> QED
  BY <1>1, <1>2, <1>3 DEF new

\* s is stk with e executed from its top and removed from its backtrack set,
\* and the new state on top.
Pushes(stk, e, s) ==
  LET n == Len(stk)
      y == Executed(stk[n], e)
      new == NewState(stk[n], e, Permit(program, pc, e))
  IN  /\ IsStack(s) /\ Len(s) = n + 1
      /\ \A k \in 1 .. n - 1 : s[k] = stk[k]
      /\ DOMAIN s[n] = StateFields
      /\ \A f \in StateFields \ {"backtrack"} : s[n][f] = y[f]
      /\ s[n].backtrack = stk[n].backtrack \ {e}
      /\ s[n + 1] \in {new, [new EXCEPT !.switches = new.switches + 1]}

\* Such a stack has a history, and nothing to backtrack to in its new state.
LEMMA PushGood ==
  ASSUME program \in Programs, NEW stk, NEW ats, History(program, stk, ats),
         NEW n, n = Len(stk), pc = ats[n],
         NEW e \in stk[n].p.enabled, StateAsserts(stk[n], e),
         NEW s, Pushes(stk, e, s)
  PROVE  /\ \E a : History(program, s, a) /\ a[n + 1] = Permit(program, pc, e)
         /\ s[n + 1].backtrack = {}
         /\ s[n + 1].sleepset = UpdateSleepset(stk[n].sleepset, e)
<1> DEFINE new == NewState(stk[n], e, Permit(program, pc, e))
           y == Executed(stk[n], e)
<1>0. /\ IsStack(s) /\ Len(s) = n + 1
      /\ \A k \in 1 .. n - 1 : s[k] = stk[k]
      /\ DOMAIN s[n] = StateFields
      /\ \A f \in StateFields \ {"backtrack"} : s[n][f] = y[f]
      /\ s[n].backtrack = stk[n].backtrack \ {e}
      /\ s[n + 1] \in {new, [new EXCEPT !.switches = new.switches + 1]}
  BY DEF Pushes
<1> DEFINE st == stk[n]
           x == s[n]
           q == Permit(program, pc, e)
<1>1. n \in Nat \ {0} /\ n \in 1 .. n
  BY DEF History, IsStack
<1>2. GoodState(st, program, pc) /\ IsProcess(program, pc)
  BY <1>1 DEF History
<1>3. DOMAIN st = StateFields /\ e \in Announcements(program, pc)
  BY <1>2 DEF GoodState, PendingRight, PendingIn
<1>4. IsProcess(program, q)
  BY <1>2, <1>3, PermitAnnouncements DEF PermitEffect
<1>5. /\ GoodState(new, program, q) /\ new.backtrack = {}
      /\ new.sleepset = UpdateSleepset(st.sleepset, e)
  BY <1>2, NewStateGood
<1> HIDE DEF st, x, q, new
<1>6. /\ x.p = st.p /\ x.mutexes = st.mutexes /\ x.locksets = st.locksets
      /\ x.clocks = st.clocks /\ x.backtrack = st.backtrack \ {e}
      /\ x.sleepset = Insert(st.sleepset, e) /\ x.done = Insert(st.done, e)
      /\ x.sel = Selected(pc, e) /\ DOMAIN x = StateFields
  <2>1. /\ y.p = st.p /\ y.mutexes = st.mutexes /\ y.locksets = st.locksets
        /\ y.clocks = st.clocks
        /\ y.sleepset = Insert(st.sleepset, e) /\ y.done = Insert(st.done, e)
        /\ y.sel = Selected(pc, e)
    BY <1>3, ExecutedFields DEF st
  <2> HIDE DEF y
  <2>2. /\ x.p = y.p /\ x.mutexes = y.mutexes /\ x.locksets = y.locksets
        /\ x.clocks = y.clocks /\ x.sleepset = y.sleepset /\ x.done = y.done
        /\ x.sel = y.sel
    BY <1>0 DEF StateFields, x
  <2> QED
    BY <1>0, <2>1, <2>2 DEF st, x
<1>7. GoodState(x, program, pc)
  BY <1>2, <1>6, ExecutedGood
<1>8. /\ GoodState(s[n + 1], program, q) /\ s[n + 1].backtrack = {}
      /\ s[n + 1].sleepset = UpdateSleepset(st.sleepset, e)
  <2> DEFINE z == [new EXCEPT !.switches = new.switches + 1]
  <2>1. DOMAIN new = StateFields
    BY <1>5 DEF GoodState
  <2>2. /\ DOMAIN z = StateFields /\ z.p = new.p /\ z.mutexes = new.mutexes
        /\ z.locksets = new.locksets /\ z.clocks = new.clocks
        /\ z.backtrack = new.backtrack /\ z.sleepset = new.sleepset /\ z.done = new.done
    BY <2>1 DEF StateFields
  <2> HIDE DEF z
  <2>3. GoodState(z, program, q)
    BY <1>5, <2>2 DEF GoodState
  <2> QED
    BY <1>0, <1>5, <2>2, <2>3 DEF z
<1>9. Linked(program, x, pc, q)
  BY <1>6 DEF Linked, st, q
<1>10. \E a : History(program, s, a) /\ a[Len(s)] = q
  <2>1. ASSUME NEW k \in 1 .. n
        PROVE  GoodState(s[k], program, ats[k]) /\ s[k].p = stk[k].p
    <3>1. CASE k = n
      BY <1>6, <1>7, <3>1 DEF x, st
    <3>2. CASE k \in 1 .. n - 1
      BY <1>0, <3>2 DEF History
    <3> QED
      BY <1>1, <3>1, <3>2
  <2>2. \A k \in 1 .. n - 1 : s[k].sel = stk[k].sel
    BY <1>0
  <2> QED
    BY <1>0, <1>1, <1>4, <1>8, <1>9, <2>1, <2>2, HistoryExtended DEF x
<1> QED
  BY <1>0, <1>8, <1>10 DEF q, st

----------------------------------------------------------------------------
(* The invariant.                                                          *)

\* Where in the stack the running process is.
Where == IF phase = "replay" THEN replayed + 1 ELSE Len(stack)

\* The process that runs is the one the state was reached in, whatever was
\* popped, restarted and replayed in between; a state explored for the first
\* time has no backtrack point yet, one that is gone back to has one; and no
\* event sleeps in the first run.
Inv ==
  /\ program \in Programs
  /\ phase \in Phases
  /\ replayed \in 0 .. Len(stack) /\ (phase = "replay" => replayed < Len(stack))
  /\ errors \in 0 .. MaxErrors
  /\ phase \in {"explore", "replay", "backtrack"} => errors < MaxErrors
  /\ phase \in {"first", "explore"} => Top.backtrack = {}
  /\ phase \in {"replay", "backtrack"} => Top.backtrack # {}
  /\ phase = "first" => Top.sleepset = {}
  /\ threads = DOMAIN pc
  /\ \E ats : History(program, stack, ats) /\ pc = ats[Where]

\* The invariant holds when monitor_first_run starts.
LEMMA InitInv == Init => Inv
<1> SUFFICES ASSUME Init PROVE Inv
  OBVIOUS
<1> DEFINE e == Ev("THREAD_START", 0, NoId, NoId)
<1>1. program \in Programs /\ phase = "first" /\ replayed = 0 /\ errors = 0
      /\ threads = {0} /\ pc = Restarted /\ stack = <<InitialState>>
  BY DEF Init
<1>2. IsProcess(program, Restarted) /\ NewThread(Restarted) = 1
      /\ DOMAIN Restarted = {0} /\ Restarted[0] = [body |-> 0, done |-> 0]
  BY <1>1, RestartedIsProcess
<1>3. Announcements(program, Restarted) = {e}
  <2>1. program[0] \in Seq(Operations) /\ program[0] # <<>>
        /\ program[0][1] = Op("THREAD_START", NoId, NoId)
    <3>1. 0 \in Bodies
      BY ExplorerAssumption DEF Bodies, Threads
    <3> QED
      BY <1>1, <3>1, ProgramFacts
  <2>2. HasNext(program, Restarted, 0)
    BY <1>2, <2>1 DEF HasNext
  <2>3. NextOp(program, Restarted, 0) = Op("THREAD_START", NoId, NoId)
    BY <1>2, <2>1 DEF NextOp
  <2>4. Announced(program, Restarted, 0) = e
    BY <2>3 DEF Announced, Op, Ev
  <2> HIDE DEF e
  <2> QED
    BY <1>2, <2>2, <2>4 DEF Announcements
<1>4. e \in Events /\ e.tid = 0 /\ e.type = "THREAD_START"
  BY ExplorerAssumption DEF Ev, Events, Threads, EventTypes, ThreadTypes, NoId
<1> HIDE DEF e
<1>5. PendingRight(InitialState.p, program, Restarted)
  <2>1. InitialState.p = [enabled |-> {e}, disabled |-> {}]
    BY DEF InitialState, e
  <2>2. InitialState.p \in PairsOver(Events)
    BY <1>4, <2>1 DEF PairsOver
  <2>3. PendingIn(InitialState.p) = {e} /\ InitialState.p.enabled = {e} /\ InitialState.p.disabled = {}
    BY <2>1 DEF PendingIn
  <2>4. OnePer(InitialState.p)
    BY <2>3 DEF OnePer
  <2>5. JoinExact(InitialState.p, Tids(PendingIn(InitialState.p)))
    BY <1>4, <2>3 DEF JoinExact
  <2> QED
    BY <1>3, <2>2, <2>3, <2>4, <2>5 DEF PendingRight
<1>6. IsVectors(FirstClocks, 1)
  <2>1. DOMAIN FirstClocks = {0} /\ FirstClocks[0] = [i \in {0} |-> 0]
    BY DEF FirstClocks
  <2>2. {0} = 0 .. 1 - 1
    OBVIOUS
  <2>3. FirstClocks[0] \in [0 .. 1 - 1 -> {-1} \cup Nat]
    BY <2>1, <2>2
  <2>4. IsVector(FirstClocks[0])
    BY <2>3 DEF IsVector
  <2> QED
    BY <2>1, <2>2, <2>4 DEF IsVectors
<1>7. GoodState(InitialState, program, Restarted)
  <2>1. /\ DOMAIN InitialState = StateFields
        /\ InitialState.backtrack = {} /\ InitialState.done = {}
        /\ InitialState.clocks = FirstClocks
        /\ InitialState.mutexes = [m \in Mutexes |-> Absent]
        /\ InitialState.locksets = [t \in Threads |-> NoLockset]
    BY DEF InitialState, StateFields
  <2> QED
    BY <1>2, <1>5, <1>6, <2>1 DEF GoodState, MutexTable, LocksetTable
<1>8. IsStack(stack) /\ Len(stack) = 1 /\ stack[1] = InitialState
  <2> DEFINE S == {InitialState}
             n == 1
  <2>1. stack \in [1 .. n -> S] /\ n \in Nat \ {0}
    BY <1>1
  <2> HIDE DEF S, n
  <2>2. IsStack(stack) /\ Len(stack) = n
    BY <2>1, SequenceIsStack
  <2> QED
    BY <1>1, <2>2 DEF n
<1>9. History(program, stack, [k \in {1} |-> Restarted])
  BY <1>2, <1>7, <1>8 DEF History
<1>10. Top.backtrack = {} /\ Top.sleepset = {}
  BY <1>8 DEF Top, InitialState
<1>11. \E ats : History(program, stack, ats) /\ pc = ats[Where]
  <2>1. Where = 1
    BY <1>1, <1>8 DEF Where
  <2>2. [k \in {1} |-> Restarted][Where] = pc
    BY <1>1, <2>1
  <2> QED
    BY <1>9, <2>2
<1> QED
  BY <1>1, <1>2, <1>8, <1>10, <1>11, ExplorerAssumption DEF Inv, Phases

\* The state the process is in, while nothing is replayed.
LEMMA TopGood ==
  ASSUME Inv, phase # "replay", NEW ats, History(program, stack, ats), pc = ats[Where]
  PROVE  /\ IsProcess(program, pc) /\ GoodState(Top, program, pc)
         /\ Len(stack) \in Nat \ {0} /\ pc = ats[Len(stack)]
<1>1. Len(stack) \in Nat \ {0} /\ Where = Len(stack)
  BY DEF History, IsStack, Where
<1>2. Len(stack) \in 1 .. Len(stack)
  BY <1>1
<1> QED
  BY <1>1, <1>2 DEF History, Top

\* The event the scheduler chooses is enabled, and not asleep; at a backtrack
\* point it is one.
LEMMA ChosenEnabled ==
  ASSUME Inv, CanStep
  PROVE  /\ Chosen \in Top.p.enabled
         /\ phase = "backtrack" => Chosen \in Top.backtrack
<1>0. phase # "replay" /\ phase \in {"first", "explore", "backtrack"}
  BY DEF CanStep
<1>1. PICK ats : History(program, stack, ats) /\ pc = ats[Where]
  BY DEF Inv
<1>2. GoodState(Top, program, pc)
  BY <1>0, <1>1, TopGood
<1>3. /\ Top.p.enabled \subseteq Events
      /\ Top.backtrack \subseteq Top.p.enabled
      /\ Executable(Top) \subseteq Top.p.enabled
  BY <1>2 DEF GoodState, PendingRight, PairsOver, Executable
<1>4. CASE phase = "backtrack"
  <2>1. Top.backtrack # {} /\ Chosen = First(Top.backtrack)
    BY <1>4 DEF Inv, Chosen
  <2> QED
    BY <1>3, <2>1, FirstChosen
<1>5. CASE phase # "backtrack"
  <2>1. Executable(Top) # {}
    BY <1>5 DEF CanStep, Inv, Executable
  <2>2. Chosen = First(Executable(Top))
    BY <1>5 DEF Chosen
  <2> QED
    BY <1>3, <1>5, <2>1, <2>2, FirstChosen
<1> QED
  BY <1>4, <1>5

\* The thread table follows the process.
LEMMA TableFollows ==
  ASSUME program \in Programs, IsProcess(program, pc), threads = DOMAIN pc,
         NEW e \in Announcements(program, pc),
         AddToTable(e), pc' = Permit(program, pc, e)
  PROVE  threads' = DOMAIN pc'
<1>1. PermitEffect(program, pc, e)
  BY PermitAnnouncements
<1>2. DOMAIN Permit(program, pc, e) = IF Creates(e) THEN DOMAIN pc \cup {NewThread(pc)} ELSE DOMAIN pc
  BY <1>1 DEF PermitEffect
<1> QED
  BY <1>2 DEF AddToTable

\* An iteration of the loops, and the first step of a run, push a good state.
LEMMA StepInv ==
  ASSUME Inv, phase \in {"first", "explore", "backtrack"},
         NEW ats, History(program, stack, ats), pc = ats[Where],
         NEW e \in Top.p.enabled, StateAsserts(Top, e),
         NEW stk, History(program, stk, ats), Len(stk) = Len(stack), stk[Len(stack)] = Top,
         Pushes(stk, e, stack'), pc' = Permit(program, pc, e), AddToTable(e),
         phase' = IF phase = "backtrack" THEN "explore" ELSE phase,
         program' = program, replayed' = replayed, errors' = errors
  PROVE  Inv'
<1> DEFINE n == Len(stack)
<1>1. /\ n \in Nat \ {0} /\ pc = ats[n] /\ IsProcess(program, pc)
      /\ e \in Announcements(program, pc)
  <2>1. IsProcess(program, pc) /\ GoodState(Top, program, pc) /\ n \in Nat \ {0} /\ pc = ats[n]
    BY TopGood
  <2>2. e \in Announcements(program, pc)
    BY <2>1 DEF GoodState, PendingRight, PendingIn
  <2> QED
    BY <2>1, <2>2
<1> HIDE DEF n
<1>2. /\ program \in Programs /\ n = Len(stk) /\ stk[n] = Top
      /\ e \in stk[n].p.enabled /\ StateAsserts(stk[n], e)
      /\ IsStack(stack') /\ Len(stack') = n + 1
  BY DEF Inv, n, Pushes
<1>3. /\ \E a : History(program, stack', a) /\ a[n + 1] = pc'
      /\ stack'[n + 1].backtrack = {}
      /\ stack'[n + 1].sleepset = UpdateSleepset(Top.sleepset, e)
  BY <1>1, <1>2, PushGood
<1>4. threads' = DOMAIN pc'
  BY <1>1, <1>2, TableFollows DEF Inv
<1>5. Where' = n + 1 /\ Top' = stack'[n + 1]
  BY <1>2 DEF Where, Top, Inv, Phases
<1>6. phase' = "first" => Top'.sleepset = {}
  BY <1>3, <1>5 DEF Inv, UpdateSleepset, n
<1>7. \E a : History(program', stack', a) /\ pc' = a[Where']
  BY <1>3, <1>5
<1>8. Top'.backtrack = {}
  BY <1>3, <1>5
<1>9. replayed' \in 0 .. Len(stack') /\ phase' \in {"first", "explore"} /\ phase' \in Phases
  BY <1>1, <1>2 DEF Inv, Phases, n
<1>10. errors' \in 0 .. MaxErrors /\ (phase' = "explore" => errors' < MaxErrors)
  BY DEF Inv
<1> QED
  BY <1>2, <1>4, <1>6, <1>7, <1>8, <1>9, <1>10 DEF Inv

\* A step extends the execution: it pushes a good state for the chosen event,
\* and before that changes at most backtrack sets.
Extends(stk, ats) ==
  /\ History(program, stk, ats)
  /\ Len(stk) = Len(stack) /\ stk[Len(stack)] = Top
  /\ \A k \in 1 .. Len(stack) : /\ stk[k].p = stack[k].p /\ stk[k].sel = stack[k].sel
                                /\ stk[k].clocks = stack[k].clocks
  /\ Chosen \in Top.p.enabled /\ StateAsserts(Top, Chosen)
  /\ Pushes(stk, Chosen, stack')
  /\ pc' = Permit(program, pc, Chosen) /\ AddToTable(Chosen)
  /\ program' = program

\* An iteration of the loops does.
LEMMA ExploreStepExtends ==
  ASSUME Inv, ExploreStep, NEW ats, History(program, stack, ats), pc = ats[Where]
  PROVE  \E stk : Extends(stk, ats)
<1> DEFINE n == Len(stack)
           e == Chosen
           stk == UpdateBacktrack(e)
<1>1. /\ phase \in {"first", "explore"} /\ CanStep /\ StateAsserts(Top, e)
      /\ stack' = Push(stk, e) /\ pc' = Permit(program, pc, e) /\ AddToTable(e)
      /\ program' = program /\ phase' = phase /\ replayed' = replayed /\ errors' = errors
  BY DEF ExploreStep
<1>3. e \in Top.p.enabled
  BY <1>1, ChosenEnabled
<1> HIDE DEF e
<1>4. IsStack(stack) /\ n \in Nat \ {0}
  BY DEF History, IsStack
<1>5. /\ IsStack(stk) /\ Len(stk) = n /\ stk[n] = Top
      /\ \A k \in 1 .. n : /\ GoodState(stk[k], program, ats[k])
                           /\ stk[k].p = stack[k].p /\ stk[k].sel = stack[k].sel
                           /\ stk[k].clocks = stack[k].clocks
  <2>1. \A k \in 1 .. Len(stack) : GoodState(stack[k], program, ats[k])
    BY DEF History
  <2> QED
    BY <1>4, <2>1, UpdateBacktrackGood
<1> HIDE DEF stk, n
<1>6. History(program, stk, ats)
  <2>1. \A k \in 1 .. n - 1 : Linked(program, stk[k], ats[k], ats[k + 1])
    <3> SUFFICES ASSUME NEW k \in 1 .. n - 1
                 PROVE  Linked(program, stk[k], ats[k], ats[k + 1])
      OBVIOUS
    <3>1. Linked(program, stack[k], ats[k], ats[k + 1])
      BY DEF History, n
    <3>2. k \in 1 .. n
      BY <1>4
    <3>3. stk[k].p = stack[k].p /\ stk[k].sel = stack[k].sel
      BY <1>5, <3>2
    <3> QED
      BY <3>1, <3>3 DEF Linked
  <2>2. ats[1] = Restarted /\ \A k \in 1 .. n : IsProcess(program, ats[k])
    BY DEF History, n
  <2> QED
    BY <1>5, <2>1, <2>2 DEF History
<1>7. DOMAIN Top = StateFields /\ Top.backtrack = {}
  <2>1. GoodState(Top, program, pc)
    BY <1>1, TopGood
  <2> QED
    BY <1>1, <2>1 DEF GoodState, Inv
<1> DEFINE new == NewState(Top, e, Permit(program, pc, e))
<1>8. /\ IsStack(stack') /\ Len(stack') = n + 1
      /\ \A k \in 1 .. n - 1 : stack'[k] = stk[k]
      /\ stack'[n] = Executed(Top, e)
      /\ stack'[n + 1] \in {new, [new EXCEPT !.switches = new.switches + 1]}
  <2>1. IsStack(stk) /\ Len(stk) = n /\ stk[n] = Top
    BY <1>5
  <2> QED
    BY <1>1, <1>7, <2>1, PushShape
<1>9. /\ DOMAIN stack'[n] = StateFields
      /\ \A f \in StateFields \ {"backtrack"} : stack'[n][f] = Executed(Top, e)[f]
      /\ stack'[n].backtrack = Top.backtrack \ {e}
  <2>1. DOMAIN Executed(Top, e) = StateFields /\ Executed(Top, e).backtrack = Top.backtrack
    BY <1>7, ExecutedFields
  <2> QED
    BY <1>7, <1>8, <2>1
<1> HIDE DEF new
<1>10. Pushes(stk, e, stack')
  BY <1>5, <1>8, <1>9 DEF Pushes, new
<1>11. Extends(stk, ats)
  BY <1>1, <1>3, <1>5, <1>6, <1>10 DEF Extends, n, e
<1> QED
  BY <1>11

\* An iteration of the loops keeps the invariant.
LEMMA ExploreStepInv == Inv /\ ExploreStep => Inv'
<1> SUFFICES ASSUME Inv, ExploreStep PROVE Inv'
  OBVIOUS
<1>1. /\ phase \in {"first", "explore"} /\ phase' = phase
      /\ replayed' = replayed /\ errors' = errors
  BY DEF ExploreStep
<1>2. PICK ats : History(program, stack, ats) /\ pc = ats[Where]
  BY DEF Inv
<1>3. PICK stk : Extends(stk, ats)
  BY <1>2, ExploreStepExtends
<1> QED
  BY <1>1, <1>2, <1>3, StepInv DEF Extends

\* The first step of a run does.
LEMMA BacktrackStepExtends ==
  ASSUME Inv, BacktrackStep, NEW ats, History(program, stack, ats), pc = ats[Where]
  PROVE  Extends(stack, ats)
<1> DEFINE n == Len(stack)
           e == Chosen
           r == Push(stack, e)
           new == NewState(Top, e, Permit(program, pc, e))
<1>1. /\ phase = "backtrack" /\ StateAsserts(Top, e)
      /\ stack' = [r EXCEPT ![n].backtrack = r[n].backtrack \ {e}]
      /\ pc' = Permit(program, pc, e) /\ AddToTable(e)
      /\ program' = program /\ phase' = "explore" /\ replayed' = replayed /\ errors' = errors
  BY DEF BacktrackStep
<1>3. e \in Top.p.enabled
  BY <1>1, ChosenEnabled DEF CanStep
<1> HIDE DEF e
<1>4. IsStack(stack) /\ n \in Nat \ {0} /\ stack[n] = Top
  BY DEF History, IsStack, Top
<1>5. DOMAIN Top = StateFields
  BY <1>1, TopGood DEF GoodState
<1>6. /\ IsStack(r) /\ Len(r) = n + 1
      /\ \A k \in 1 .. n - 1 : r[k] = stack[k]
      /\ r[n] = Executed(Top, e)
      /\ r[n + 1] \in {new, [new EXCEPT !.switches = new.switches + 1]}
  BY <1>4, <1>5, PushShape
<1>7. /\ DOMAIN r[n] = StateFields /\ r[n].backtrack = Top.backtrack
  BY <1>5, <1>6, ExecutedFields
<1> HIDE DEF r, n, new
<1> DEFINE x == [r[n] EXCEPT !.backtrack = r[n].backtrack \ {e}]
<1>8. /\ DOMAIN x = StateFields /\ x.backtrack = Top.backtrack \ {e}
      /\ \A f \in StateFields \ {"backtrack"} : x[f] = Executed(Top, e)[f]
  BY <1>6, <1>7 DEF StateFields
<1>9. stack' = [r EXCEPT ![n] = x]
  BY <1>1
<1> HIDE DEF x
<1>10. /\ IsStack(stack') /\ Len(stack') = n + 1
       /\ \A k \in 1 .. n - 1 : stack'[k] = stack[k]
       /\ stack'[n] = x /\ stack'[n + 1] = r[n + 1]
  <2> DEFINE S == {r[k] : k \in 1 .. n + 1} \cup {x}
  <2>1. r \in [1 .. n + 1 -> {r[k] : k \in 1 .. n + 1}] /\ n + 1 \in Nat \ {0}
    BY <1>4, <1>6 DEF IsStack
  <2>2. r \in [1 .. n + 1 -> S] /\ x \in S
    BY <2>1
  <2> HIDE DEF S
  <2>3. /\ stack' \in [1 .. n + 1 -> S]
        /\ \A k \in 1 .. n + 1 : stack'[k] = IF k = n THEN x ELSE r[k]
    BY <1>9, <2>2
  <2>4. IsStack(stack') /\ Len(stack') = n + 1
    BY <2>1, <2>3, SequenceIsStack
  <2>5. \A k \in 1 .. n - 1 : k \in 1 .. n + 1 /\ k # n
    BY <1>4
  <2>6. n \in 1 .. n + 1 /\ n + 1 \in 1 .. n + 1 /\ n + 1 # n
    BY <1>4
  <2> QED
    BY <1>6, <2>3, <2>4, <2>5, <2>6
<1>11. Pushes(stack, e, stack')
  BY <1>4, <1>6, <1>8, <1>10 DEF Pushes, new, n
<1> QED
  BY <1>1, <1>3, <1>4, <1>11 DEF Extends, e, n

\* The first step of a run keeps the invariant.
LEMMA BacktrackStepInv == Inv /\ BacktrackStep => Inv'
<1> SUFFICES ASSUME Inv, BacktrackStep PROVE Inv'
  OBVIOUS
<1>1. /\ phase = "backtrack" /\ phase' = "explore"
      /\ replayed' = replayed /\ errors' = errors
  BY DEF BacktrackStep
<1>2. PICK ats : History(program, stack, ats) /\ pc = ats[Where]
  BY DEF Inv
<1>3. Extends(stack, ats)
  BY <1>2, BacktrackStepExtends
<1> QED
  BY <1>1, <1>2, <1>3, StepInv DEF Extends

\* The steps that leave the stack and the process alone.
LEMMA SameStack ==
  ASSUME Inv, program' = program, stack' = stack, pc' = pc, threads' = threads,
         Where' = Where
  PROVE  /\ \E ats : History(program', stack', ats) /\ pc' = ats[Where']
         /\ program' \in Programs /\ threads' = DOMAIN pc' /\ Top' = Top
         /\ Len(stack') = Len(stack) /\ Len(stack) \in Nat \ {0}
BY DEF Inv, Top, History, IsStack

\* The end of the first run keeps the invariant.
LEMMA FirstRunEndInv == Inv /\ FirstRunEnd => Inv'
<1> SUFFICES ASSUME Inv, FirstRunEnd PROVE Inv'
  OBVIOUS
<1>1. /\ program' = program /\ stack' = stack /\ pc' = pc /\ threads' = threads
      /\ phase = "first" /\ phase' = "decide" /\ replayed' = replayed /\ errors' = errors
  BY DEF FirstRunEnd
<1>2. Where' = Where
  BY <1>1 DEF Where
<1> QED
  BY <1>1, <1>2, SameStack DEF Inv, Phases

\* A deadlock is counted when fewer than MaxErrors are.
LEMMA ExploreEndInv == Inv /\ ExploreEnd => Inv'
<1> SUFFICES ASSUME Inv, ExploreEnd PROVE Inv'
  OBVIOUS
<1>1. /\ program' = program /\ stack' = stack /\ pc' = pc /\ threads' = threads
      /\ phase = "explore" /\ phase' = "decide" /\ replayed' = replayed
      /\ errors' \in {errors, errors + 1}
  BY DEF ExploreEnd
<1>2. Where' = Where
  BY <1>1 DEF Where
<1>3. errors' \in 0 .. MaxErrors
  BY <1>1, ExplorerAssumption DEF Inv
<1> QED
  BY <1>1, <1>2, <1>3, SameStack DEF Inv, Phases

\* The end of the exploration keeps the invariant.
LEMMA FinishInv == Inv /\ Finish => Inv'
<1> SUFFICES ASSUME Inv, Finish PROVE Inv'
  OBVIOUS
<1>1. /\ program' = program /\ stack' = stack /\ pc' = pc /\ threads' = threads
      /\ phase = "decide" /\ phase' = "done" /\ replayed' = replayed /\ errors' = errors
  BY DEF Finish
<1>2. Where' = Where
  BY <1>1 DEF Where
<1> QED
  BY <1>1, <1>2, SameStack DEF Inv, Phases

\* A failed assertion keeps the invariant.
LEMMA AbortInv == Inv /\ Abort => Inv'
<1> SUFFICES ASSUME Inv, Abort PROVE Inv'
  OBVIOUS
<1>1. /\ program' = program /\ stack' = stack /\ pc' = pc /\ threads' = threads
      /\ phase # "replay" /\ phase' = "aborted" /\ replayed' = replayed /\ errors' = errors
  BY DEF Abort, CanStep
<1>2. Where' = Where
  BY <1>1 DEF Where
<1> QED
  BY <1>1, <1>2, SameStack DEF Inv, Phases

\* The end of a replay keeps the invariant: the process is back in the top state.
LEMMA ReplayEndInv == Inv /\ ReplayEnd => Inv'
<1> SUFFICES ASSUME Inv, ReplayEnd PROVE Inv'
  OBVIOUS
<1>1. /\ program' = program /\ stack' = stack /\ pc' = pc /\ threads' = threads
      /\ phase = "replay" /\ phase' = "backtrack" /\ replayed' = replayed /\ errors' = errors
      /\ replayed = Len(stack) - 1
  BY DEF ReplayEnd
<1>2. Len(stack) \in Nat
  BY DEF Inv, History, IsStack
<1>3. Where' = Where
  BY <1>1, <1>2 DEF Where
<1> QED
  BY <1>1, <1>3, SameStack DEF Inv, Phases

\* A set of places that is not empty has a least one.
LEMMA LeastPlace ==
  ASSUME NEW T, T # {}, T \subseteq Nat
  PROVE  \E k \in T : \A j \in T : ~(j < k)
<1> DEFINE Less == OpToRel(<, Nat)
<1>1. \A i, j \in Nat : i < j => <<i, j>> \in Less
  BY DEF OpToRel
<1>2. IsWellFoundedOn(Less, Nat)
  BY NatLessThanWellFounded
<1> HIDE DEF Less
<1>3. PICK k \in T : \A j \in T : ~(<<j, k>> \in Less)
  BY <1>2, WFMin
<1> QED
  BY <1>1, <1>3

\* A set of places of the stack that is not empty has a greatest one.
LEMMA GreatestPlace ==
  ASSUME NEW n \in Nat, NEW T, T # {}, T \subseteq 1 .. n
  PROVE  \E k \in T : \A j \in T : j <= k
<1> DEFINE Less == OpToRel(<, Nat)
           Depths == {n - k : k \in T}
<1>1. \A i, j \in Nat : i < j => <<i, j>> \in Less
  BY DEF OpToRel
<1>2. IsWellFoundedOn(Less, Nat)
  BY NatLessThanWellFounded
<1>3. Depths \subseteq Nat /\ Depths # {}
  <2>1. \A k \in T : n - k \in Nat
    OBVIOUS
  <2> QED
    BY <2>1
<1> HIDE DEF Less, Depths
<1>4. PICK d \in Depths : \A c \in Depths : ~(<<c, d>> \in Less)
  BY <1>2, <1>3, WFMin
<1>5. \A c \in Depths : d \in Nat /\ c \in Nat /\ ~(c < d)
  BY <1>1, <1>3, <1>4
<1>6. PICK k \in T : d = n - k
  BY DEF Depths
<1>7. \A j \in T : n - j \in Depths
  BY DEF Depths
<1>8. \A j \in T : j <= k
  BY <1>5, <1>6, <1>7
<1> QED
  BY <1>8

\* The deepest state with a backtrack point is one.
LEMMA DeepestHasPoint ==
  ASSUME Len(stack) \in Nat, HasBacktrackPoints
  PROVE  DeepestBacktrack \in 1 .. Len(stack) /\ stack[DeepestBacktrack].backtrack # {}
<1> DEFINE T == {k \in 1 .. Len(stack) : stack[k].backtrack # {}}
<1>1. T # {} /\ T \subseteq 1 .. Len(stack)
  BY DEF HasBacktrackPoints
<1>2. PICK k \in T : \A j \in T : j <= k
  BY <1>1, GreatestPlace
<1>3. k \in 1 .. Len(stack) /\ stack[k].backtrack # {}
  OBVIOUS
<1>4. \A j \in k + 1 .. Len(stack) : stack[j].backtrack = {}
  <2> SUFFICES ASSUME NEW j \in k + 1 .. Len(stack), stack[j].backtrack # {} PROVE FALSE
    OBVIOUS
  <2>1. j \in 1 .. Len(stack) /\ ~(j <= k)
    BY <1>3
  <2> QED
    BY <1>2, <2>1
<1> HIDE DEF T
<1> QED
  BY <1>3, <1>4 DEF DeepestBacktrack

\* A restart keeps the invariant: the process is in the first state of what is
\* left of the stack, which has a backtrack point in its top state.
LEMMA NextRunInv == Inv /\ NextRun => Inv'
<1> SUFFICES ASSUME Inv, NextRun PROVE Inv'
  OBVIOUS
<1> DEFINE m == DeepestBacktrack
<1>1. /\ program' = program /\ stack' = SubSeq(stack, 1, m) /\ pc' = Restarted /\ threads' = {0}
      /\ phase' = "replay" /\ replayed' = 0 /\ errors' = errors /\ errors < MaxErrors
      /\ HasBacktrackPoints
  BY DEF NextRun
<1>2. PICK ats : History(program, stack, ats)
  BY DEF Inv
<1>3. Len(stack) \in Nat
  BY <1>2 DEF History, IsStack
<1>4. m \in 1 .. Len(stack) /\ stack[m].backtrack # {}
  BY <1>1, <1>3, DeepestHasPoint
<1> HIDE DEF m
<1>5. /\ History(program, stack', ats) /\ Len(stack') = m
      /\ \A k \in 1 .. m : stack'[k] = stack[k]
  BY <1>1, <1>2, <1>4, HistoryPrefix
<1>6. Where' = 1 /\ ats[1] = Restarted
  BY <1>1, <1>2 DEF Where, History
<1>7. \E a : History(program', stack', a) /\ pc' = a[Where']
  BY <1>1, <1>5, <1>6
<1>8. Top'.backtrack # {}
  BY <1>3, <1>4, <1>5 DEF Top
<1>9. program' \in Programs /\ DOMAIN pc' = {0}
  BY <1>1, RestartedIsProcess DEF Inv
<1>10. replayed' \in 0 .. Len(stack') /\ replayed' < Len(stack')
  BY <1>1, <1>3, <1>4, <1>5
<1> QED
  BY <1>1, <1>7, <1>8, <1>9, <1>10 DEF Inv, Phases

\* While a prefix is replayed, the event of the next state is the one its
\* thread announces again, and its permit leads to the process of that state.
LEMMA ReplayedEvent ==
  ASSUME Inv, phase = "replay", replayed < Len(stack) - 1,
         NEW ats, History(program, stack, ats), pc = ats[Where]
  PROVE  LET e == Announced(program, pc, Replayed.tid)
         IN  /\ e \in Announcements(program, pc)
             /\ IsProcess(program, pc)
             /\ Replayed = Selected(pc, e) /\ e.tid = Replayed.tid
             /\ Permit(program, pc, e) = ats[replayed + 2]
<1> DEFINE k == replayed + 1
<1>1. k \in 1 .. Len(stack) - 1 /\ k \in 1 .. Len(stack) /\ k + 1 = replayed + 2
      /\ pc = ats[k] /\ Replayed = stack[k].sel
  BY DEF Inv, History, IsStack, Where, Replayed
<1> HIDE DEF k
<1>2. Linked(program, stack[k], pc, ats[k + 1])
  BY <1>1 DEF History
<1>3. IsProcess(program, pc) /\ GoodState(stack[k], program, pc)
  BY <1>1 DEF History
<1>4. PICK e \in stack[k].p.enabled :
         stack[k].sel = Selected(pc, e) /\ ats[k + 1] = Permit(program, pc, e)
  BY <1>2 DEF Linked
<1>5. e \in Announcements(program, pc)
  BY <1>3 DEF GoodState, PendingRight, PendingIn
<1>6. e = Announced(program, pc, e.tid)
  BY <1>3, <1>5, PendingEvent DEF Inv
<1>7. Replayed.tid = e.tid
  BY <1>1, <1>4 DEF Selected, Ev
<1> QED
  BY <1>1, <1>3, <1>4, <1>5, <1>6, <1>7

\* A replayed event keeps the invariant: it leads to the next state of the stack.
LEMMA ReplayEventInv == Inv /\ ReplayEvent => Inv'
<1> SUFFICES ASSUME Inv, ReplayEvent PROVE Inv'
  OBVIOUS
<1> DEFINE e == Announced(program, pc, Replayed.tid)
<1>1. /\ phase = "replay" /\ replayed < Len(stack) - 1
      /\ pc' = Permit(program, pc, e) /\ AddToTable(e) /\ replayed' = replayed + 1
      /\ program' = program /\ stack' = stack /\ phase' = phase /\ errors' = errors
  BY DEF ReplayEvent
<1>2. PICK ats : History(program, stack, ats) /\ pc = ats[Where]
  BY DEF Inv
<1>3. /\ e \in Announcements(program, pc) /\ IsProcess(program, pc)
      /\ Permit(program, pc, e) = ats[replayed + 2]
  BY <1>1, <1>2, ReplayedEvent
<1> HIDE DEF e
<1>4. threads' = DOMAIN pc'
  BY <1>1, <1>3, TableFollows DEF Inv
<1>5. replayed \in Nat /\ Len(stack) \in Nat \ {0}
  BY <1>2 DEF Inv, History, IsStack
<1>6. Where' = replayed + 2
  BY <1>1, <1>5 DEF Where
<1>7. \E a : History(program', stack', a) /\ pc' = a[Where']
  BY <1>1, <1>2, <1>3, <1>6
<1>8. replayed' \in 0 .. Len(stack') /\ replayed' < Len(stack')
  BY <1>1, <1>5
<1>9. Top' = Top
  BY <1>1 DEF Top
<1> QED
  BY <1>1, <1>4, <1>7, <1>8, <1>9 DEF Inv

\* Every step keeps the invariant.
LEMMA NextInv == Inv /\ [Next]_vars => Inv'
<1> SUFFICES ASSUME Inv, [Next]_vars PROVE Inv'
  OBVIOUS
<1>1. CASE UNCHANGED vars
  <2>1. Where' = Where
    BY <1>1 DEF vars, Where
  <2>2. /\ program' = program /\ stack' = stack /\ pc' = pc /\ threads' = threads
        /\ phase' = phase /\ replayed' = replayed /\ errors' = errors
    BY <1>1 DEF vars
  <2> QED
    BY <2>1, <2>2, SameStack DEF Inv
<1>2. CASE ExploreStep
  BY <1>2, ExploreStepInv
<1>3. CASE BacktrackStep
  BY <1>3, BacktrackStepInv
<1>4. CASE FirstRunEnd
  BY <1>4, FirstRunEndInv
<1>5. CASE ExploreEnd
  BY <1>5, ExploreEndInv
<1>6. CASE Finish
  BY <1>6, FinishInv
<1>7. CASE NextRun
  BY <1>7, NextRunInv
<1>8. CASE ReplayEvent
  BY <1>8, ReplayEventInv
<1>9. CASE ReplayEnd
  BY <1>9, ReplayEndInv
<1>10. CASE Abort
  BY <1>10, AbortInv
<1> QED
  BY <1>1, <1>2, <1>3, <1>4, <1>5, <1>6, <1>7, <1>8, <1>9, <1>10 DEF Next

\* The invariant always holds.
LEMMA InvHolds == Spec => []Inv
BY InitInv, NextInv, PTL DEF Spec

----------------------------------------------------------------------------
(* The theorems.                                                           *)

\* Every state of the stack is good.
LEMMA StatesGood ==
  ASSUME Inv
  PROVE  \A k \in 1 .. Len(stack) : \E at : IsProcess(program, at) /\ GoodState(stack[k], program, at)
BY DEF Inv, History

\* Whatever waits in a backtrack set is enabled in its state and does not
\* sleep, and whatever was explored sleeps, at every moment of the exploration.
THEOREM BacktrackSetsConsistentHolds == Spec => []BacktrackSetsConsistent
<1>1. Inv => BacktrackSetsConsistent
  <2> SUFFICES ASSUME Inv, NEW k \in 1 .. Len(stack)
               PROVE  /\ stack[k].backtrack \subseteq Executable(stack[k])
                      /\ stack[k].done \subseteq stack[k].sleepset
    BY DEF BacktrackSetsConsistent
  <2>1. PICK at : GoodState(stack[k], program, at)
    BY StatesGood
  <2> QED
    BY <2>1 DEF GoodState, Executable
<1> QED
  BY <1>1, InvHolds, PTL

\* The replay of a prefix meets every event executed there before, and then
\* every event that was pending in the top state: a restarted process can be
\* brought back to any state of the stack, however the exploration came there.
THEOREM ReplayFaithfulHolds == Spec => []ReplayFaithful
<1>1. Inv => ReplayFaithful
  <2> SUFFICES ASSUME Inv, phase = "replay"
               PROVE  IF replayed < Len(stack) - 1 THEN ReplayMatches ELSE PendingMatch
    BY DEF ReplayFaithful
  <2>1. PICK ats : History(program, stack, ats) /\ pc = ats[Where]
    BY DEF Inv
  <2>2. CASE replayed < Len(stack) - 1
    <3> DEFINE e == Announced(program, pc, Replayed.tid)
    <3>1. /\ e \in Announcements(program, pc) /\ IsProcess(program, pc)
          /\ Replayed = Selected(pc, e) /\ e.tid = Replayed.tid
      BY <2>1, <2>2, ReplayedEvent
    <3> HIDE DEF e
    <3>2. HasNext(program, pc, Replayed.tid) /\ e.type # "THREAD_CREATE"
      BY <3>1, PendingEvent DEF Inv
    <3>3. PermitEffect(program, pc, e)
      BY <3>1, PermitAnnouncements DEF Inv
    <3>4. CASE Creates(e)
      <4>1. Replayed.type = "THREAD_CREATE" /\ Replayed.aux = NewThread(pc)
        BY <3>1, <3>4 DEF Selected, Ev
      <4>2. Replayed.aux \notin threads
        BY <3>3, <4>1 DEF PermitEffect, Inv
      <4> QED
        BY <2>2, <3>2, <3>4, <4>1, <4>2 DEF ReplayMatches, e
    <3>5. CASE ~Creates(e)
      <4>1. Replayed = e
        BY <3>1, <3>5 DEF Selected
      <4>2. Replayed.type # "THREAD_CREATE" /\ SameEvent(e, Replayed)
        BY <3>2, <4>1 DEF SameEvent
      <4> QED
        BY <2>2, <3>2, <4>2 DEF ReplayMatches, e
    <3> QED
      BY <3>4, <3>5
  <2>3. CASE ~(replayed < Len(stack) - 1)
    <3>1. Where = Len(stack) /\ Len(stack) \in Nat \ {0} /\ Len(stack) \in 1 .. Len(stack)
      BY <2>1, <2>3 DEF Where, Inv, History, IsStack
    <3>2. GoodState(Top, program, pc) /\ IsProcess(program, pc)
      BY <2>1, <3>1 DEF History, Top
    <3>3. PendingIn(Top.p) = Announcements(program, pc)
      BY <3>2 DEF GoodState, PendingRight
    <3>4. \A e \in PendingIn(Top.p) : /\ HasNext(program, pc, e.tid)
                                      /\ e = Announced(program, pc, e.tid)
      BY <3>2, <3>3, PendingEvent DEF Inv
    <3>5. PendingMatch
      BY <3>4 DEF PendingMatch, SameEvent
    <3> QED
      BY <2>3, <3>5
  <2> QED
    BY <2>2, <2>3
<1> QED
  BY <1>1, InvHolds, PTL

\* The thread table and the clock vectors list the threads the process has, at
\* every moment and through every restart.
THEOREM ThreadTableAgreesHolds == Spec => []ThreadTableAgrees
<1>1. Inv => ThreadTableAgrees
  <2> SUFFICES ASSUME Inv
               PROVE  threads = DOMAIN pc /\ (phase # "replay" => DOMAIN Top.clocks = threads)
    BY DEF ThreadTableAgrees
  <2>1. threads = DOMAIN pc
    BY DEF Inv
  <2>2. ASSUME phase # "replay"
        PROVE  DOMAIN Top.clocks = DOMAIN pc
    <3>1. IsProcess(program, pc) /\ GoodState(Top, program, pc)
      BY <2>2, TopGood DEF Inv
    <3> QED
      BY <3>1 DEF IsProcess, GoodState, IsVectors
  <2> QED
    BY <2>1, <2>2
<1> QED
  BY <1>1, InvHolds, PTL

\* The state of the exploration has its type: the lock tables, whose entries
\* are only ever sets of mutexes or no set at all, and the clock vectors of
\* every state of the stack among it.
THEOREM TypeCorrect == Spec => []TypeOK
<1>1. Inv => TypeOK
  <2> SUFFICES ASSUME Inv PROVE TypeOK
    OBVIOUS
  <2>1. PICK ats : History(program, stack, ats) /\ pc = ats[Where]
    BY DEF Inv
  <2>2. Where \in 1 .. Len(stack)
    BY <2>1 DEF Where, Inv, History, IsStack
  <2>3. IsProcess(program, pc)
    BY <2>1, <2>2 DEF History
  <2>4. program \in [Bodies -> Seq(Operations)]
    BY ProgramFacts DEF Inv
  <2>5. \A t \in DOMAIN pc : pc[t].body \in Bodies /\ pc[t].done \in 0 .. Len(program[pc[t].body])
    <3>1. \A t \in DOMAIN pc : pc[t].body \in Bodies /\ pc[t].done \in Nat
      BY <2>3 DEF IsProcess
    <3>2. \A t \in DOMAIN pc : pc[t].done <= Len(program[pc[t].body])
      BY <2>3 DEF IsProcess
    <3>3. \A b \in Bodies : Len(program[b]) \in Nat
      BY <2>4
    <3> QED
      BY <3>1, <3>2, <3>3
  <2>6. ASSUME NEW k \in 1 .. Len(stack)
        PROVE  StateRecord(stack[k])
    <3>1. PICK at : IsProcess(program, at) /\ GoodState(stack[k], program, at)
      BY StatesGood
    <3>2. NewThread(at) \in Nat
      BY <3>1, ExplorerAssumption DEF IsProcess
    <3>3. IsClockVectorList(stack[k].clocks)
      BY <3>1, <3>2, VectorsAreLists DEF GoodState
    <3>4. PendingIn(stack[k].p) \subseteq Events
      BY <3>1 DEF GoodState, PendingRight, PairsOver, PendingIn
    <3> QED
      BY <3>1, <3>3, <3>4 DEF StateRecord, GoodState, Events, MutexTable, LocksetTable
  <2> QED
    BY <2>3, <2>4, <2>5, <2>6 DEF TypeOK, Inv, IsProcess
<1> QED
  BY <1>1, InvHolds, PTL

\* The assertions of the add_thread of Locksets, ClockVectorList and ThreadTable
\* (lockset.cc, clock_vector.cc, thread_table.cc) hold of every creation the
\* exploration is about to execute.
CreationsAccepted == CanStep /\ Creates(Chosen) => CreateAsserts(Top, Chosen)

\* No creation aborts the exploration: a new thread has no lock set yet and an
\* id the table does not have, which is greater than its creator's and the next
\* one of the clock vectors.
THEOREM CreationsAcceptedHolds == Spec => []CreationsAccepted
<1>1. Inv => CreationsAccepted
  <2> SUFFICES ASSUME Inv, CanStep, Creates(Chosen) PROVE CreateAsserts(Top, Chosen)
    BY DEF CreationsAccepted
  <2>1. phase # "replay"
    BY DEF CanStep
  <2>2. IsProcess(program, pc) /\ GoodState(Top, program, pc)
    BY <2>1, TopGood DEF Inv
  <2>3. Chosen \in Announcements(program, pc)
    BY <2>2, ChosenEnabled DEF GoodState, PendingRight, PendingIn
  <2> DEFINE e == Chosen
  <2> HIDE DEF e
  <2>4. Chosen.tid \in DOMAIN pc
    BY <2>2, <2>3, PendingEvent DEF Inv
  <2>5. NewThread(pc) \in Nat /\ DOMAIN pc = 0 .. NewThread(pc) - 1
    BY <2>2, ExplorerAssumption DEF IsProcess
  <2>6. Cardinality(DOMAIN Top.clocks) = NewThread(pc)
    BY <2>2, <2>5, VectorsAreLists DEF GoodState
  <2>7. NewThread(pc) \notin threads /\ NewThread(pc) > Chosen.tid
    BY <2>4, <2>5 DEF Inv
  <2>8. NewThread(pc) \in Threads
    <3>1. NewThread(Permit(program, pc, Chosen)) = NewThread(pc) + 1
      BY <2>2, <2>4, PermitAt
    <3>2. NewThread(Permit(program, pc, Chosen)) \in 1 .. MaxThreads
      BY <2>2, <2>3, PermitAnnouncements DEF PermitEffect, IsProcess, Inv
    <3> QED
      BY <2>5, <3>1, <3>2, ExplorerAssumption DEF Threads
  <2>9. Top.locksets[NewThread(pc)] = NoLockset
    BY <2>2, <2>5, <2>8 DEF GoodState
  <2> QED
    BY <2>6, <2>7, <2>9 DEF CreateAsserts, AddThreadAsserts
<1> QED
  BY <1>1, InvHolds, PTL

----------------------------------------------------------------------------
(* The clock vectors along the stack.                                      *)

\* The clock vectors a state leaves to the next one, by the event it remembers.
ClocksAfter(st) ==
  LET ticked == Tick(st.clocks, st.sel.tid)
  IN  IF st.sel.type = "THREAD_CREATE"
      THEN AddThread(ticked, st.sel.aux, st.sel.tid) ELSE ticked

\* A creation a state remembers is one by a thread it knows, and of the thread
\* after the last one it knows.
Numbered(st) ==
  st.sel.type = "THREAD_CREATE"
    => st.sel.tid \in DOMAIN st.clocks /\ st.sel.aux = Cardinality(DOMAIN st.clocks)

\* The clock vectors of each state are those the remembered events lead to.
ClocksFollow(s) ==
  /\ s[1].clocks = FirstClocks
  /\ \A k \in 1 .. Len(s) : Numbered(s[k])
  /\ \A k \in 1 .. Len(s) - 1 : s[k + 1].clocks = ClocksAfter(s[k])

\* The clock vectors of a new state are those the event it was reached by leads
\* to.
LEMMA NewClocksFollow ==
  ASSUME program \in Programs, IsProcess(program, pc),
         NEW st, GoodState(st, program, pc), NEW e \in st.p.enabled,
         NEW x, x.clocks = st.clocks, x.sel = Selected(pc, e)
  PROVE  Numbered(x) /\ ClocksAfter(x) = NewClocks(st, e)
<1> DEFINE n == NewThread(pc)
<1>1. e.tid \in DOMAIN pc /\ e.type # "THREAD_CREATE"
  <2>1. e \in Announcements(program, pc)
    BY DEF GoodState, PendingRight, PendingIn
  <2> QED
    BY <2>1, PendingEvent
<1>2. n \in Nat /\ DOMAIN pc = 0 .. n - 1
  BY ExplorerAssumption DEF IsProcess
<1>3. DOMAIN st.clocks = DOMAIN pc /\ Cardinality(DOMAIN st.clocks) = n
  BY <1>2, VectorsAreLists DEF GoodState, IsVectors
<1> HIDE DEF n
<1>4. CASE Creates(e)
  <2>1. x.sel = Ev("THREAD_CREATE", e.tid, NoId, n)
    BY <1>4 DEF Selected, n
  <2>2. x.sel.type = "THREAD_CREATE" /\ x.sel.tid = e.tid /\ x.sel.aux = n
    BY <2>1 DEF Ev
  <2> QED
    BY <1>1, <1>3, <1>4, <2>2 DEF Numbered, ClocksAfter, NewClocks, n
<1>5. CASE ~Creates(e)
  <2>1. x.sel = e
    BY <1>5 DEF Selected
  <2> QED
    BY <1>1, <1>5, <2>1 DEF Numbered, ClocksAfter, NewClocks
<1> QED
  BY <1>4, <1>5

\* A step that extends the execution leaves the vectors right.
LEMMA ExtendsClocks ==
  ASSUME Inv, phase # "replay", ClocksFollow(stack),
         NEW ats, History(program, stack, ats), pc = ats[Where],
         NEW stk, Extends(stk, ats)
  PROVE  ClocksFollow(stack')
<1> DEFINE n == Len(stack)
           e == Chosen
           s == stack'
           new == NewState(Top, e, Permit(program, pc, e))
<1>1. n \in Nat \ {0} /\ IsProcess(program, pc) /\ GoodState(Top, program, pc)
  BY TopGood
<1>2. /\ Len(stk) = n /\ stk[n] = Top /\ Pushes(stk, e, s)
      /\ e \in Top.p.enabled
      /\ \A k \in 1 .. n : stk[k].sel = stack[k].sel /\ stk[k].clocks = stack[k].clocks
  BY DEF Extends
<1> HIDE DEF e, s
<1>3. /\ Len(s) = n + 1
      /\ \A k \in 1 .. n - 1 : s[k] = stk[k]
      /\ \A f \in StateFields \ {"backtrack"} : s[n][f] = Executed(Top, e)[f]
      /\ s[n + 1] \in {new, [new EXCEPT !.switches = new.switches + 1]}
  BY <1>2 DEF Pushes
<1>4. s[n].clocks = Top.clocks /\ s[n].sel = Selected(pc, e)
  <2> DEFINE y == Executed(Top, e)
  <2>1. DOMAIN Top = StateFields
    BY <1>1 DEF GoodState
  <2>2. y.clocks = Top.clocks /\ y.sel = Selected(pc, e)
    BY <2>1, ExecutedFields
  <2> HIDE DEF y
  <2>3. s[n].clocks = y.clocks /\ s[n].sel = y.sel
    BY <1>3 DEF StateFields, y
  <2> QED
    BY <2>2, <2>3
<1>5. s[n + 1].clocks = NewClocks(Top, e) /\ s[n + 1].sel = NoEvent
  <2>1. new.clocks = NewClocks(Top, e) /\ new.sel = NoEvent
    BY DEF NewState
  <2> DEFINE z == [new EXCEPT !.switches = new.switches + 1]
  <2>2. "clocks" \in DOMAIN new /\ "sel" \in DOMAIN new
    BY DEF NewState
  <2> HIDE DEF new
  <2>3. z.clocks = new.clocks /\ z.sel = new.sel
    BY <2>2
  <2> QED
    BY <1>3, <2>1, <2>3
<1> HIDE DEF new, n
<1>6. \A k \in 1 .. n - 1 : s[k].clocks = stack[k].clocks /\ s[k].sel = stack[k].sel
  BY <1>1, <1>2, <1>3
<1>7. s[n].clocks = stack[n].clocks
  BY <1>4 DEF Top, n
<1>8. Numbered(s[n]) /\ ClocksAfter(s[n]) = NewClocks(Top, e)
  BY <1>1, <1>2, <1>4, NewClocksFollow DEF Inv
<1>9. Numbered(s[n + 1])
  BY <1>5 DEF Numbered, NoEvent, Ev
<1>10. /\ stack[1].clocks = FirstClocks /\ \A k \in 1 .. n : Numbered(stack[k])
       /\ \A k \in 1 .. n - 1 : stack[k + 1].clocks = ClocksAfter(stack[k])
  BY DEF ClocksFollow, n
<1>11. s[1].clocks = FirstClocks
  <2>1. 1 = n \/ 1 \in 1 .. n - 1
    BY <1>1
  <2> QED
    BY <1>6, <1>7, <1>10, <2>1
<1>12. ASSUME NEW k \in 1 .. Len(s) PROVE Numbered(s[k])
  <2>1. k = n + 1 \/ k = n \/ (k \in 1 .. n - 1 /\ k \in 1 .. n)
    BY <1>1, <1>3
  <2>2. CASE k \in 1 .. n - 1 /\ k \in 1 .. n
    BY <1>6, <1>10, <2>2 DEF Numbered
  <2> QED
    BY <1>8, <1>9, <2>1, <2>2
<1>13. ASSUME NEW k \in 1 .. Len(s) - 1 PROVE s[k + 1].clocks = ClocksAfter(s[k])
  <2>1. k = n \/ (k \in 1 .. n - 1 /\ (k + 1 = n \/ k + 1 \in 1 .. n - 1))
    BY <1>1, <1>3
  <2>2. CASE k = n
    BY <1>5, <1>8, <2>2
  <2>3. CASE k \in 1 .. n - 1 /\ (k + 1 = n \/ k + 1 \in 1 .. n - 1)
    <3>1. s[k + 1].clocks = stack[k + 1].clocks
      BY <1>6, <1>7, <2>3
    <3>2. ClocksAfter(s[k]) = ClocksAfter(stack[k])
      BY <1>6, <2>3 DEF ClocksAfter
    <3> QED
      BY <1>10, <2>3, <3>1, <3>2
  <2> QED
    BY <2>1, <2>2, <2>3
<1>14. ClocksFollow(s)
  BY <1>11, <1>12, <1>13 DEF ClocksFollow
<1> QED
  BY <1>14 DEF s

\* The vectors of the states are right at every moment.
ClocksRight == ClocksFollow(stack)

\* So they are when monitor_first_run starts.
LEMMA InitClocks == Init => ClocksRight
<1> SUFFICES ASSUME Init PROVE ClocksRight
  OBVIOUS
<1>1. stack = <<InitialState>>
  BY DEF Init
<1>2. Len(stack) = 1 /\ stack[1] = InitialState
  BY <1>1
<1>3. InitialState.clocks = FirstClocks /\ InitialState.sel = NoEvent
  BY DEF InitialState
<1>4. Numbered(InitialState)
  BY <1>3 DEF Numbered, NoEvent, Ev
<1> QED
  BY <1>2, <1>3, <1>4 DEF ClocksRight, ClocksFollow

\* Every step keeps them right.
LEMMA NextClocks == Inv /\ ClocksRight /\ [Next]_vars => ClocksRight'
<1> SUFFICES ASSUME Inv, ClocksRight, [Next]_vars PROVE ClocksRight'
  OBVIOUS
<1>1. PICK ats : History(program, stack, ats) /\ pc = ats[Where]
  BY DEF Inv
<1>2. CASE stack' = stack
  BY <1>2 DEF ClocksRight
<1>3. CASE ExploreStep
  <2>1. phase # "replay"
    BY <1>3 DEF ExploreStep
  <2>2. PICK stk : Extends(stk, ats)
    BY <1>1, <1>3, ExploreStepExtends
  <2> QED
    BY <1>1, <2>1, <2>2, ExtendsClocks DEF ClocksRight
<1>4. CASE BacktrackStep
  <2>1. phase # "replay"
    BY <1>4 DEF BacktrackStep
  <2>2. Extends(stack, ats)
    BY <1>1, <1>4, BacktrackStepExtends
  <2> QED
    BY <1>1, <2>1, <2>2, ExtendsClocks DEF ClocksRight
<1>5. CASE NextRun
  <2> DEFINE m == DeepestBacktrack
  <2>1. stack' = SubSeq(stack, 1, m) /\ HasBacktrackPoints
    BY <1>5 DEF NextRun
  <2>2. Len(stack) \in Nat
    BY <1>1 DEF History, IsStack
  <2>3. m \in 1 .. Len(stack)
    BY <2>1, <2>2, DeepestHasPoint
  <2> HIDE DEF m
  <2>4. Len(stack') = m /\ \A k \in 1 .. m : stack'[k] = stack[k]
    BY <1>1, <2>1, <2>3, HistoryPrefix
  <2>5. /\ 1 \in 1 .. m /\ \A k \in 1 .. m : k \in 1 .. Len(stack)
        /\ \A k \in 1 .. m - 1 : /\ k \in 1 .. m /\ k + 1 \in 1 .. m
                                 /\ k \in 1 .. Len(stack) - 1
    BY <2>2, <2>3
  <2> QED
    BY <2>4, <2>5 DEF ClocksRight, ClocksFollow
<1>6. CASE FirstRunEnd \/ ExploreEnd \/ Finish \/ ReplayEvent \/ ReplayEnd \/ Abort
  <2>1. stack' = stack
    BY <1>6 DEF FirstRunEnd, ExploreEnd, Finish, ReplayEvent, ReplayEnd, Abort
  <2> QED
    BY <1>2, <2>1
<1>7. CASE UNCHANGED vars
  BY <1>2, <1>7 DEF vars
<1> QED
  BY <1>3, <1>4, <1>5, <1>6, <1>7 DEF Next

\* They always are.
LEMMA ClocksRightAlways == Spec => [](Inv /\ ClocksRight)
BY InitInv, NextInv, InitClocks, NextClocks, PTL DEF Spec

----------------------------------------------------------------------------
(* The widths of the clock vectors.                                        *)

\* A vector has its entries from 0 on.
LEMMA VectorWidth ==
  ASSUME NEW v, IsVector(v)
  PROVE  Width(v) \in Nat /\ DOMAIN v = 0 .. Width(v) - 1
<1>1. PICK w \in Nat : v \in [0 .. w - 1 -> {-1} \cup Nat]
  BY DEF IsVector
<1>2. Cardinality(0 .. w - 1) = w
  BY FS_Interval
<1> QED
  BY <1>1, <1>2 DEF Width

\* The count of one more event widens no vector.
LEMMA TickWidths ==
  ASSUME NEW clocks, NEW tid, NEW t \in DOMAIN clocks
  PROVE  /\ DOMAIN Tick(clocks, tid) = DOMAIN clocks
         /\ DOMAIN Tick(clocks, tid)[t] = DOMAIN clocks[t]
<1>1. \A v, i, stamp : DOMAIN Store(v, i, stamp) = DOMAIN v
  BY DEF Store
<1>2. /\ DOMAIN Tick(clocks, tid) = DOMAIN clocks
      /\ \/ Tick(clocks, tid)[t] = clocks[t]
         \/ Tick(clocks, tid)[t] = Store(clocks[t], tid, Entry(clocks[t], tid) + 1)
  BY DEF Tick
<1> QED
  BY <1>1, <1>2

\* A creation gives the creator and the new thread vectors one entry wider than
\* the creator's was, and leaves the others.
LEMMA AddThreadWidths ==
  ASSUME NEW n \in Nat, NEW clocks, IsVectors(clocks, n), NEW p \in 0 .. n - 1,
         NEW t \in 0 .. n
  PROVE  LET c == AddThread(clocks, n, p)
         IN  /\ DOMAIN c = 0 .. n
             /\ Width(c[t]) = IF t \in {p, n} THEN Width(clocks[p]) + 1
                              ELSE Width(clocks[t])
<1> DEFINE wide == Widened(clocks[p])
           c == AddThread(clocks, n, p)
           w == Width(clocks[p])
<1>1. w \in Nat
  BY VectorWidth DEF IsVectors
<1>2. DOMAIN wide = 0 .. w
  BY DEF Widened
<1> HIDE DEF w
<1>3. Cardinality(0 .. w) = w + 1
  BY <1>1, FS_Interval
<1>4. DOMAIN Store(wide, n, 0) = DOMAIN wide
  BY DEF Store
<1>5. c = [u \in DOMAIN clocks \cup {n} |-> CASE u = p -> wide
                                              [] u = n -> Store(wide, n, 0)
                                              [] OTHER -> clocks[u]]
  BY DEF AddThread
<1> HIDE DEF wide, c
<1>6. DOMAIN clocks \cup {n} = 0 .. n /\ n # p
  BY DEF IsVectors
<1>7. /\ DOMAIN c = 0 .. n
      /\ t = p => c[t] = wide
      /\ t = n => c[t] = Store(wide, n, 0)
      /\ t \notin {p, n} => c[t] = clocks[t]
  BY <1>5, <1>6
<1>8. t \in {p, n} => Width(c[t]) = w + 1
  BY <1>2, <1>3, <1>4, <1>7 DEF Width
<1> QED
  BY <1>7, <1>8 DEF c, w

\* How many threads the k-th state knows, and how wide the vector of t is there.
Known(k) == Cardinality(DOMAIN stack[k].clocks)
Wide(k, t) == Width(stack[k].clocks[t])

\* The vectors of every state have their type.
VectorsTyped == \A k \in 1 .. Len(stack) : \E n \in Nat : IsVectors(stack[k].clocks, n)

\* So they have at every moment.
LEMMA InvVectors == Inv => VectorsTyped
<1> SUFFICES ASSUME Inv, NEW k \in 1 .. Len(stack)
             PROVE  \E n \in Nat : IsVectors(stack[k].clocks, n)
  BY DEF VectorsTyped
<1>1. PICK ats : History(program, stack, ats)
  BY DEF Inv
<1>2. GoodState(stack[k], program, ats[k]) /\ IsProcess(program, ats[k])
  BY <1>1 DEF History
<1>3. NewThread(ats[k]) \in Nat
  BY <1>2, ExplorerAssumption DEF IsProcess
<1> QED
  BY <1>2, <1>3 DEF GoodState

\* The threads of a state are numbered from 0 on, and so are the entries of a
\* vector.
LEMMA KnownThreads ==
  ASSUME VectorsTyped, NEW k \in 1 .. Len(stack)
  PROVE  /\ Known(k) \in Nat /\ DOMAIN stack[k].clocks = 0 .. Known(k) - 1
         /\ IsVectors(stack[k].clocks, Known(k))
         /\ \A t \in 0 .. Known(k) - 1 : /\ Wide(k, t) \in Nat
                                         /\ DOMAIN stack[k].clocks[t] = 0 .. Wide(k, t) - 1
<1>1. PICK n \in Nat : IsVectors(stack[k].clocks, n)
  BY DEF VectorsTyped
<1>2. Known(k) = n
  BY <1>1, VectorsAreLists DEF Known
<1>3. DOMAIN stack[k].clocks = 0 .. n - 1
  BY <1>1 DEF IsVectors
<1>4. \A t \in 0 .. n - 1 : IsVector(stack[k].clocks[t])
  BY <1>1, <1>3 DEF IsVectors
<1> QED
  BY <1>1, <1>2, <1>3, <1>4, VectorWidth DEF Wide

\* What the event remembered in the k-th state does to the widths.
LEMMA WidthsFollow ==
  ASSUME VectorsTyped, ClocksRight, NEW k \in 1 .. Len(stack) - 1
  PROVE  IF Sel(k).type = "THREAD_CREATE"
         THEN /\ Known(k + 1) = Known(k) + 1
              /\ Sel(k).tid \in 0 .. Known(k) - 1
              /\ \A t \in 0 .. Known(k) :
                   Wide(k + 1, t) = IF t \in {Sel(k).tid, Known(k)}
                                    THEN Wide(k, Sel(k).tid) + 1 ELSE Wide(k, t)
         ELSE /\ Known(k + 1) = Known(k)
              /\ \A t \in 0 .. Known(k) - 1 : Wide(k + 1, t) = Wide(k, t)
<1> DEFINE n == Known(k)
           clocks == stack[k].clocks
           p == Sel(k).tid
           ticked == Tick(clocks, p)
<1>0. k \in 1 .. Len(stack) /\ k + 1 \in 1 .. Len(stack)
  <2>1. Len(stack) \in Int
    OBVIOUS
  <2> QED
    BY <2>1
<1>1. /\ n \in Nat /\ DOMAIN clocks = 0 .. n - 1 /\ IsVectors(clocks, n)
  BY <1>0, KnownThreads
<1>2. /\ Sel(k).type = "THREAD_CREATE" => p \in DOMAIN clocks /\ Sel(k).aux = n
      /\ stack[k + 1].clocks = IF Sel(k).type = "THREAD_CREATE"
                               THEN AddThread(ticked, Sel(k).aux, p) ELSE ticked
  BY <1>0 DEF ClocksRight, ClocksFollow, Numbered, ClocksAfter, Sel, Known
<1>3. /\ IsVectors(ticked, n) /\ DOMAIN ticked = 0 .. n - 1
      /\ \A t \in 0 .. n - 1 : Width(ticked[t]) = Wide(k, t)
  <2>1. IsVectors(ticked, n)
    BY <1>1, TickVectors
  <2>2. \A t \in DOMAIN clocks : DOMAIN ticked[t] = DOMAIN clocks[t]
    BY TickWidths
  <2> QED
    BY <1>1, <2>1, <2>2 DEF IsVectors, Width, Wide
<1> HIDE DEF n, ticked, p, clocks
<1>4. Cardinality(0 .. n) = n + 1 /\ Cardinality(0 .. n - 1) = n
  BY <1>1, FS_Interval
<1>5. CASE Sel(k).type = "THREAD_CREATE"
  <2> DEFINE c == AddThread(ticked, n, p)
  <2>1. stack[k + 1].clocks = c /\ p \in 0 .. n - 1
    BY <1>1, <1>2, <1>5
  <2>2. ASSUME NEW t \in 0 .. n
        PROVE  /\ DOMAIN c = 0 .. n
               /\ Width(c[t]) = IF t \in {p, n} THEN Width(ticked[p]) + 1
                                ELSE Width(ticked[t])
    <3>1. n \in Nat /\ IsVectors(ticked, n) /\ p \in 0 .. n - 1
      BY <1>1, <1>3, <2>1
    <3> QED
      BY <3>1, AddThreadWidths
  <2> HIDE DEF c
  <2>3. 0 \in 0 .. n
    BY <1>1
  <2>4. Known(k + 1) = n + 1
    BY <1>4, <2>1, <2>2, <2>3 DEF Known
  <2>5. ASSUME NEW t \in 0 .. n
        PROVE  Wide(k + 1, t) = IF t \in {p, n} THEN Wide(k, p) + 1 ELSE Wide(k, t)
    <3>1. Wide(k + 1, t) = Width(c[t])
      BY <2>1 DEF Wide
    <3>2. t = n \/ t \in 0 .. n - 1
      BY <1>1
    <3> QED
      BY <1>3, <2>1, <2>2, <3>1, <3>2
  <2> QED
    BY <1>5, <2>1, <2>4, <2>5 DEF n, p
<1>6. CASE Sel(k).type # "THREAD_CREATE"
  BY <1>2, <1>3, <1>4, <1>6 DEF n, Known, Wide
<1> QED
  BY <1>5, <1>6

\* In the first state there is one thread, with one entry.
LEMMA FirstWidth ==
  ASSUME ClocksRight
  PROVE  Known(1) = 1 /\ Wide(1, 0) = 1
<1>1. stack[1].clocks = FirstClocks
  BY DEF ClocksRight, ClocksFollow
<1>2. DOMAIN FirstClocks = {0} /\ DOMAIN FirstClocks[0] = {0}
  BY DEF FirstClocks
<1> QED
  BY <1>1, <1>2, FS_Singleton DEF Known, Wide, Width

----------------------------------------------------------------------------
(* Chains of creations.                                                    *)

\* A creation made along the stack, and what Creations says of it.
LEMMA CreationFacts ==
  ASSUME ClocksRight
  PROVE  /\ DOMAIN Creations = {k \in 1 .. Len(stack) : Sel(k).type = "THREAD_CREATE"}
         /\ \A k \in DOMAIN Creations :
              Creations[k].creator = Sel(k).tid /\ Creations[k].id = Known(k)
<1>1. DOMAIN Creations = {k \in 1 .. Len(stack) : Sel(k).type = "THREAD_CREATE"}
  BY DEF Creations
<1>2. \A k \in DOMAIN Creations :
         Creations[k].creator = Sel(k).tid /\ Creations[k].id = Sel(k).aux
  BY DEF Creations
<1>3. \A k \in DOMAIN Creations : Sel(k).aux = Known(k)
  BY <1>1 DEF ClocksRight, ClocksFollow, Numbered, Sel, Known
<1> QED
  BY <1>1, <1>2, <1>3

\* No thread is ever forgotten on the way.
LEMMA KnownGrows ==
  ASSUME VectorsTyped, ClocksRight, Len(stack) \in Nat,
         NEW i \in 1 .. Len(stack), NEW j \in i .. Len(stack)
  PROVE  Known(i) <= Known(j)
<1> DEFINE T == {l \in i .. Len(stack) : ~(Known(i) <= Known(l))}
<1> SUFFICES ASSUME T # {} PROVE FALSE
  OBVIOUS
<1>1. T \subseteq Nat
  OBVIOUS
<1>2. PICK l \in T : \A h \in T : ~(h < l)
  BY <1>1, LeastPlace
<1>3. l \in i .. Len(stack) /\ ~(Known(i) <= Known(l))
  OBVIOUS
<1>4. Known(i) \in Nat
  BY KnownThreads
<1>5. l # i
  BY <1>3, <1>4
<1>6. l - 1 \in i .. Len(stack) /\ l - 1 < l /\ l - 1 \in 1 .. Len(stack) - 1 /\ (l - 1) + 1 = l
  BY <1>3, <1>5
<1>7. Known(i) <= Known(l - 1)
  BY <1>2, <1>6
<1>8. Known(l) \in {Known(l - 1), Known(l - 1) + 1} /\ Known(l - 1) \in Nat
  <2>1. Known((l - 1) + 1) \in {Known(l - 1), Known(l - 1) + 1}
    BY <1>6, WidthsFollow
  <2>2. l - 1 \in 1 .. Len(stack)
    BY <1>6
  <2> QED
    BY <1>6, <2>1, <2>2, KnownThreads
<1> QED
  BY <1>3, <1>4, <1>7, <1>8

\* Two creations have two ids.
LEMMA IdsDiffer ==
  ASSUME VectorsTyped, ClocksRight, Len(stack) \in Nat,
         NEW i \in DOMAIN Creations, NEW j \in DOMAIN Creations,
         Creations[i].id = Creations[j].id
  PROVE  i = j
<1>1. ASSUME NEW a \in DOMAIN Creations, NEW b \in DOMAIN Creations, a < b
      PROVE  Creations[a].id # Creations[b].id
  <2>1. /\ a \in 1 .. Len(stack) /\ b \in 1 .. Len(stack)
        /\ Sel(a).type = "THREAD_CREATE"
    BY CreationFacts
  <2>2. a \in 1 .. Len(stack) - 1 /\ a + 1 \in 1 .. Len(stack) /\ b \in a + 1 .. Len(stack)
    BY <1>1, <2>1
  <2>3. Known(a + 1) = Known(a) + 1
    BY <2>1, <2>2, WidthsFollow
  <2>4. Known(a + 1) <= Known(b)
    BY <2>2, KnownGrows
  <2>5. Known(a) \in Nat /\ Known(b) \in Nat
    BY <2>1, KnownThreads
  <2>6. Known(a) # Known(b)
    BY <2>3, <2>4, <2>5
  <2> QED
    BY <2>6, CreationFacts
<1>2. i \in Int /\ j \in Int
  BY CreationFacts
<1>3. i < j \/ j < i \/ i = j
  BY <1>2
<1> QED
  BY <1>1, <1>3

\* Thread t carries the chain on after thread n: it is n or n's creator, and the
\* chain reached n.
CarriesChain(n, t) ==
  /\ ChainOfCreations(n)
  /\ \A c \in DOMAIN Creations :
       Creations[c].id = n => t \in {Creations[c].creator, n}

\* The chain reaches a new thread exactly if its creator carried it on.
LEMMA ChainStep ==
  ASSUME VectorsTyped, ClocksRight, Len(stack) \in Nat, NEW k \in DOMAIN Creations
  PROVE  ChainOfCreations(Known(k)) <=> CarriesChain(Known(k) - 1, Sel(k).tid)
<1> DEFINE n == Known(k)
           p == Sel(k).tid
           id(c) == Creations[c].id
           by(c) == Creations[c].creator
           Chain(m) == \A c, d \in DOMAIN Creations :
                         id(c) = id(d) + 1 /\ id(c) <= m => by(c) \in {by(d), id(d)}
<1>1. id(k) = n /\ by(k) = p
  BY CreationFacts
<1>2. \A c \in DOMAIN Creations : id(c) \in Nat
  BY CreationFacts, KnownThreads
<1>3. \A c \in DOMAIN Creations : id(c) = id(k) => c = k
  BY IdsDiffer
<1>4. \A m : ChainOfCreations(m) <=> Chain(m)
  BY DEF ChainOfCreations
<1>5. n \in Nat
  BY <1>1, <1>2
<1>6. CarriesChain(n - 1, p)
        <=> Chain(n - 1) /\ \A c \in DOMAIN Creations : id(c) = n - 1 => p \in {by(c), n - 1}
  BY <1>4 DEF CarriesChain
<1> HIDE DEF n, p, id, by
<1>7. ASSUME Chain(n)
      PROVE  Chain(n - 1) /\ \A c \in DOMAIN Creations : id(c) = n - 1 => p \in {by(c), n - 1}
  <2>1. Chain(n - 1)
    BY <1>2, <1>5, <1>7
  <2>2. ASSUME NEW c \in DOMAIN Creations, id(c) = n - 1
        PROVE  p \in {by(c), n - 1}
    <3>1. id(k) = id(c) + 1 /\ id(k) <= n
      BY <1>1, <1>5, <2>2
    <3> QED
      BY <1>1, <1>7, <2>2, <3>1
  <2> QED
    BY <2>1, <2>2
<1>8. ASSUME Chain(n - 1), \A c \in DOMAIN Creations : id(c) = n - 1 => p \in {by(c), n - 1}
      PROVE  Chain(n)
  <2> SUFFICES ASSUME NEW c \in DOMAIN Creations, NEW d \in DOMAIN Creations,
                      id(c) = id(d) + 1, id(c) <= n
               PROVE  by(c) \in {by(d), id(d)}
    OBVIOUS
  <2>1. CASE id(c) <= n - 1
    BY <1>8, <2>1
  <2>2. CASE ~(id(c) <= n - 1)
    <3>1. id(c) = n /\ id(d) = n - 1
      BY <1>2, <1>5, <2>2
    <3>2. c = k
      BY <1>1, <1>3, <3>1
    <3> QED
      BY <1>1, <1>8, <3>1, <3>2
  <2> QED
    BY <2>1, <2>2
<1>9. Chain(n) <=> CarriesChain(n - 1, p)
  BY <1>6, <1>7, <1>8
<1>10. ChainOfCreations(n) <=> CarriesChain(n - 1, p)
  BY <1>4, <1>9
<1> QED
  BY <1>10 DEF n, p

\* What the widths in the k-th state say of the chain: a vector has entries for
\* all threads exactly if its thread carries the chain on, and an entry for its
\* own thread if the chain reaches the thread, or if the thread has created
\* others.
WidthsTell(k) ==
  \A t \in 0 .. Known(k) - 1 :
    /\ Wide(k, t) <= Known(k)
    /\ Wide(k, t) = Known(k) <=> CarriesChain(Known(k) - 1, t)
    /\ ChainOfCreations(t) => t < Wide(k, t)
    /\ t < Wide(k, t) => ChainOfCreations(t) \/ HasCreated(k, t)

\* They tell it in the first state, where nothing has been created.
LEMMA WidthsTellFirst ==
  ASSUME VectorsTyped, ClocksRight, Len(stack) \in Nat \ {0}
  PROVE  WidthsTell(1)
<1>1. Known(1) = 1 /\ Wide(1, 0) = 1
  BY FirstWidth
<1>2. 1 \in 1 .. Len(stack)
  OBVIOUS
<1>3. ASSUME NEW c \in DOMAIN Creations
      PROVE  Creations[c].id \in Nat /\ Creations[c].id >= 1
  <2>1. c \in 1 .. Len(stack) /\ Creations[c].id = Known(c)
    BY CreationFacts
  <2>2. c \in 1 .. Len(stack) /\ Known(1) <= Known(c)
    BY <1>2, <2>1, KnownGrows
  <2> QED
    BY <1>1, <2>1, <2>2, KnownThreads
<1>4. ChainOfCreations(0)
  BY <1>3 DEF ChainOfCreations
<1>5. CarriesChain(0, 0)
  BY <1>3, <1>4 DEF CarriesChain
<1>6. \A t \in 0 .. Known(1) - 1 : t = 0
  BY <1>1
<1> QED
  BY <1>1, <1>4, <1>5, <1>6 DEF WidthsTell

\* An event that creates no thread changes nothing of it.
LEMMA WidthsTellOther ==
  ASSUME VectorsTyped, ClocksRight, Len(stack) \in Nat, NEW k \in 1 .. Len(stack) - 1,
         WidthsTell(k), Sel(k).type # "THREAD_CREATE"
  PROVE  WidthsTell(k + 1)
<1>1. /\ Known(k + 1) = Known(k)
      /\ \A t \in 0 .. Known(k) - 1 : Wide(k + 1, t) = Wide(k, t)
  BY WidthsFollow
<1>2. \A t : HasCreated(k, t) => HasCreated(k + 1, t)
  BY DEF HasCreated
<1> QED
  BY <1>1, <1>2 DEF WidthsTell

\* A creation keeps it right: the new thread and its creator have entries for
\* all threads exactly if the creator's vector had.
LEMMA WidthsTellCreation ==
  ASSUME VectorsTyped, ClocksRight, Len(stack) \in Nat, NEW k \in 1 .. Len(stack) - 1,
         WidthsTell(k), Sel(k).type = "THREAD_CREATE"
  PROVE  WidthsTell(k + 1)
<1> DEFINE n == Known(k)
           p == Sel(k).tid
<1>1. /\ Known(k + 1) = n + 1 /\ p \in 0 .. n - 1
      /\ \A t \in 0 .. n :
           Wide(k + 1, t) = IF t \in {p, n} THEN Wide(k, p) + 1 ELSE Wide(k, t)
  BY WidthsFollow
<1>2. k \in 1 .. Len(stack) /\ k \in DOMAIN Creations
  BY CreationFacts
<1>3. n \in Nat /\ \A t \in 0 .. n - 1 : Wide(k, t) \in Nat
  BY <1>2, KnownThreads
<1>4. Creations[k].id = n /\ Creations[k].creator = p
  BY <1>2, CreationFacts
<1>5. ChainOfCreations(n) <=> Wide(k, p) = n
  BY <1>1, <1>2, ChainStep DEF WidthsTell
<1>6. \A t : CarriesChain(n, t) <=> ChainOfCreations(n) /\ t \in {p, n}
  <2>1. \A c \in DOMAIN Creations : Creations[c].id = n => c = k
    BY <1>2, <1>4, IdsDiffer
  <2> QED
    BY <1>2, <1>4, <2>1 DEF CarriesChain
<1>7. HasCreated(k + 1, p) /\ \A t : HasCreated(k, t) => HasCreated(k + 1, t)
  <2>1. k \in 1 .. (k + 1) - 1 /\ \A j \in 1 .. k - 1 : j \in 1 .. (k + 1) - 1
    BY <1>2
  <2> QED
    BY <2>1 DEF HasCreated
<1>8. \A t \in 0 .. n - 1 : /\ Wide(k, t) <= n
                            /\ ChainOfCreations(t) => t < Wide(k, t)
                            /\ t < Wide(k, t) => ChainOfCreations(t) \/ HasCreated(k, t)
  BY DEF WidthsTell
<1> HIDE DEF n, p
<1>9. ASSUME NEW t \in 0 .. n
      PROVE  /\ Wide(k + 1, t) <= n + 1
             /\ Wide(k + 1, t) = n + 1 <=> CarriesChain(n, t)
             /\ ChainOfCreations(t) => t < Wide(k + 1, t)
             /\ t < Wide(k + 1, t) => ChainOfCreations(t) \/ HasCreated(k + 1, t)
  <2>1. p \in 0 .. n - 1 /\ Wide(k, p) \in Nat /\ Wide(k, p) <= n
    BY <1>1, <1>3, <1>8
  <2>2. CASE t = n
    <3>1. Wide(k + 1, t) = Wide(k, p) + 1
      BY <1>1, <2>2
    <3>2. t < Wide(k + 1, t) <=> Wide(k, p) = n
      BY <1>3, <2>1, <2>2, <3>1
    <3>3. Wide(k + 1, t) <= n + 1 /\ (Wide(k + 1, t) = n + 1 <=> Wide(k, p) = n)
      BY <1>3, <2>1, <3>1
    <3> QED
      BY <1>5, <1>6, <2>2, <3>2, <3>3
  <2>3. CASE t = p
    <3>1. Wide(k + 1, t) = Wide(k, p) + 1
      BY <1>1, <2>3
    <3>2. Wide(k + 1, t) <= n + 1 /\ (Wide(k + 1, t) = n + 1 <=> Wide(k, p) = n)
      BY <1>3, <2>1, <3>1
    <3>3. ChainOfCreations(t) => t < Wide(k + 1, t)
      BY <1>8, <2>1, <2>3, <3>1
    <3> QED
      BY <1>5, <1>6, <1>7, <2>3, <3>2, <3>3
  <2>4. CASE t \notin {p, n}
    <3>1. t \in 0 .. n - 1 /\ Wide(k + 1, t) = Wide(k, t) /\ Wide(k, t) \in Nat
      BY <1>1, <1>3, <2>4
    <3>2. Wide(k + 1, t) <= n + 1 /\ Wide(k + 1, t) # n + 1
      BY <1>3, <1>8, <3>1
    <3>3. ~CarriesChain(n, t)
      BY <1>6, <2>4
    <3> QED
      BY <1>7, <1>8, <3>1, <3>2, <3>3
  <2> QED
    BY <2>2, <2>3, <2>4
<1>10. (n + 1) - 1 = n
  BY <1>3
<1> QED
  BY <1>1, <1>9, <1>10 DEF WidthsTell

\* They tell it in every state.
LEMMA WidthsTellAlways ==
  ASSUME VectorsTyped, ClocksRight, Len(stack) \in Nat \ {0}, NEW k \in 1 .. Len(stack)
  PROVE  WidthsTell(k)
<1> DEFINE T == {j \in 1 .. Len(stack) : ~WidthsTell(j)}
<1> SUFFICES ASSUME T # {} PROVE FALSE
  OBVIOUS
<1>1. T \subseteq Nat
  OBVIOUS
<1>2. PICK l \in T : \A j \in T : ~(j < l)
  BY <1>1, LeastPlace
<1>3. l \in 1 .. Len(stack) /\ ~WidthsTell(l)
  OBVIOUS
<1>4. l # 1
  BY <1>3, WidthsTellFirst
<1>5. l - 1 \in 1 .. Len(stack) /\ l - 1 < l /\ l - 1 \in 1 .. Len(stack) - 1 /\ (l - 1) + 1 = l
  BY <1>3, <1>4
<1>6. WidthsTell(l - 1)
  BY <1>2, <1>5
<1>7. WidthsTell((l - 1) + 1)
  BY <1>5, <1>6, WidthsTellOther, WidthsTellCreation
<1> QED
  BY <1>3, <1>5, <1>7

\* The clock vector of a thread has an entry for the thread itself as long as
\* the creations form a chain, and only then or when the thread has created
\* others: elsewhere the events of the thread are not counted
\* (clock_vector.cc:233, state.cc:445).
THEOREM OwnEntryOfChainsHolds == Spec => []OwnEntryOfChains
<1>1. Inv /\ ClocksRight => OwnEntryOfChains
  <2> SUFFICES ASSUME Inv, ClocksRight, NEW k \in 1 .. Len(stack),
                      NEW t \in DOMAIN stack[k].clocks
               PROVE  /\ ChainOfCreations(t) => t \in DOMAIN stack[k].clocks[t]
                      /\ t \in DOMAIN stack[k].clocks[t]
                           => ChainOfCreations(t) \/ HasCreated(k, t)
    BY DEF OwnEntryOfChains
  <2>1. VectorsTyped /\ Len(stack) \in Nat \ {0}
    BY InvVectors DEF Inv, History, IsStack
  <2>2. /\ t \in 0 .. Known(k) - 1 /\ Wide(k, t) \in Nat
        /\ DOMAIN stack[k].clocks[t] = 0 .. Wide(k, t) - 1
    BY <2>1, KnownThreads
  <2>3. t \in DOMAIN stack[k].clocks[t] <=> t < Wide(k, t)
    BY <2>2
  <2>4. WidthsTell(k)
    BY <2>1, WidthsTellAlways
  <2> QED
    BY <2>2, <2>3, <2>4 DEF WidthsTell
<1> QED
  BY <1>1, ClocksRightAlways, PTL
=============================================================================
