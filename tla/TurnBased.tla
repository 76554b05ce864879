----------------------------- MODULE TurnBased ------------------------------
(***************************************************************************)
(* What the protocol with the program under test promises to the           *)
(* exploration: a program whose threads take turns.  Between two turns     *)
(* every thread stands before its next visible operation; a turn moves one *)
(* thread past one operation, and a restart and replay bring the program   *)
(* back to a state it has been in before.  Processes, sockets, permits and *)
(* the messages of a creation are not to be seen.                          *)
(*                                                                         *)
(* Handshake implements this, and the exploration of SourceDPOR is one way *)
(* to use it.                                                              *)
(***************************************************************************)
EXTENDS InspectEvent, Sequences

VARIABLES
  ops,     \* the program: body of a thread -> its operations [type, obj, aux];
           \* "aux" of a creation and of a join is the body of the other thread
  stack    \* the states of the execution: the events pending there and the
           \* one executed from there, None in the last state

vars == <<ops, stack>>

None == Ev("UNKNOWN", NoId, NoId, NoId)

----------------------------------------------------------------------------
\* The threads of a process, in the order of their ids from 0 on: the body of
\* each and how many of its operations are done.
Process == << [body |-> 0, done |-> 0] >>

NextOp(process, t) ==
  LET at == process[t + 1] IN ops[at.body][at.done + 1]

HasNext(process, t) ==
  LET at == process[t + 1] IN at.done < Len(ops[at.body])

\* The thread of a body: threads of one body are not told apart.
ThreadOf(process, body) ==
  (CHOOSE i \in DOMAIN process : process[i].body = body) - 1

\* The event of the operation thread t stands before.
Before(process, t) ==
  LET o == NextOp(process, t)
  IN  Ev(o.type, t, o.obj,
         CASE o.type = "THREAD_PRE_CREATE" -> NoId
           [] o.type = "THREAD_JOIN"       -> ThreadOf(process, o.aux)
           [] OTHER                        -> o.aux)

Pending(process) ==
  {Before(process, t) : t \in {u \in 0 .. Len(process) - 1 : HasNext(process, u)}}

\* The process after its thread t has performed its operation; a new thread
\* comes to its first operation in the turn of its creator.
Moved(process, t) ==
  LET moved == [process EXCEPT ![t + 1].done = @ + 1]
      o     == NextOp(process, t)
  IN  IF o.type # "THREAD_PRE_CREATE" THEN moved
      ELSE Append(moved, [body |-> o.aux, done |-> 0])

\* The process in the last state.
Reached ==
  LET at[k \in 1 .. Len(stack)] ==
        IF k = 1 THEN Process ELSE Moved(at[k - 1], stack[k - 1].sel.tid)
  IN  at[Len(stack)]

State(process) == [pending |-> Pending(process), sel |-> None]

----------------------------------------------------------------------------
Boot ==
  /\ stack = <<>>
  /\ stack' = <<State(Process)>>
  /\ UNCHANGED ops

\* An event as it is remembered: a creation by the id of the new thread.
Remembered(process, e) ==
  IF e.type = "THREAD_PRE_CREATE" THEN Ev("THREAD_CREATE", e.tid, NoId, Len(process)) ELSE e

\* A join waits for the end of its thread.
MayMove(process, e) == e.type = "THREAD_JOIN" => ~HasNext(process, e.aux)

\* Some thread takes its turn.
Execute ==
  /\ stack # <<>>
  /\ \E e \in {f \in stack[Len(stack)].pending : MayMove(Reached, f)} :
       stack' = Append([stack EXCEPT ![Len(stack)].sel = Remembered(Reached, e)],
                       State(Moved(Reached, e.tid)))
  /\ UNCHANGED ops

\* The execution goes back to an earlier state.
Cut ==
  /\ \E k \in 1 .. Len(stack) - 1 :
       stack' = [SubSeq(stack, 1, k) EXCEPT ![k].sel = None]
  /\ UNCHANGED ops

Init == stack \in {<<>>, <<State(Process)>>}

Next == Boot \/ Execute \/ Cut

Spec == Init /\ [][Next]_vars
=============================================================================
