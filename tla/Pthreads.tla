------------------------------ MODULE Pthreads ------------------------------
(***************************************************************************)
(* What POSIX promises of the operations the wrappers replace: the         *)
(* abstract specification that SchedulerRun implements.  There is no       *)
(* enabled and no disabled set here.  An operation can be performed when   *)
(* the objects it works on allow it, and pthread_cond_wait releases its    *)
(* mutex and starts to wait in one step.                                   *)
(***************************************************************************)
EXTENDS ProgramState

CONSTANTS Mutexes, Rwlocks

VARIABLES
  pending,    \* the next operation of each running thread
  waiting,    \* those of them that wait for a signal
  mutexes,    \* owner of each mutex, or Free, or Absent
  rwlocks     \* [status, readers, writer] of each read-write lock

vars == <<pending, waiting, mutexes, rwlocks>>

Init ==
  /\ pending = {Ev("THREAD_START", 0, NoId, NoId)}
  /\ waiting = {}
  /\ mutexes = [m \in Mutexes |-> Absent]
  /\ rwlocks = [l \in Rwlocks |-> RwAbsent]

\* Whether POSIX lets the operation e complete now.
MayPerform(e) ==
  /\ e \notin waiting
  /\ e.type = "MUTEX_LOCK"    => mutexes[e.obj] = Free
  /\ e.type = "MUTEX_UNLOCK"  => mutexes[e.obj] = e.tid
  /\ e.type = "RWLOCK_RDLOCK" => rwlocks[e.obj].status
                                   \in {"RWLS_IDLE", "RWLS_READING"}
  /\ e.type = "RWLOCK_WRLOCK" => rwlocks[e.obj].status = "RWLS_IDLE"
  /\ e.type = "THREAD_JOIN"   => ~Alive(pending, e.aux)

\* The waiters that e may release: one for a signal, all for a broadcast.
Released(e) ==
  LET waiters == {x \in waiting : x.aux = e.aux}
  IN  CASE e.type = "COND_BROADCAST" -> {waiters}
        [] e.type = "COND_SIGNAL" /\ waiters # {} -> {{x} : x \in waiters}
        [] OTHER -> {{}}

\* The thread of e performs e; "announced" are the operations that threads
\* turn to next: its own unless it ends, and that of a thread it creates.
Perform(e, announced) ==
  /\ e \in pending
  /\ MayPerform(e)
  /\ pending' = (pending \ {e}) \cup announced
  /\ \A x \in announced : \A y \in pending' : x.tid = y.tid => x = y
  /\ e.type # "THREAD_END" => \E x \in announced : x.tid = e.tid
  /\ \A x \in announced : x.tid # e.tid => e.type = "THREAD_PRE_CREATE"
  /\ \E released \in Released(e) :
        waiting' = (waiting \ released)
                     \cup {x \in announced : x.type = "COND_WAIT"}
  /\ mutexes' = ExecuteMutexes(mutexes, e)
  /\ rwlocks' = ExecuteRwlocks(rwlocks, e)

Next == \E e \in pending : Perform(e, pending' \ (pending \ {e}))

Spec == Init /\ [][Next]_vars
=============================================================================
