---------------------------- MODULE InspectEvent ----------------------------
(***************************************************************************)
(* The visible operations of the program under test, as the scheduler sees *)
(* them (inspect_event.hh, inspect_event.cc), and the three relations every *)
(* other part of the scheduler is built on: which events race (Dependent), *)
(* which block one another (CanDisable) and which wake one another         *)
(* (CanEnable).                                                            *)
(*                                                                         *)
(* An event is a record.  "obj" is the first union of the C++ class (mutex, *)
(* read-write lock or shared object id), "aux" the second one (condition   *)
(* variable or child thread id); NoId stands for a field the type does not *)
(* use.  The location and the local-state flag are left out: they are      *)
(* functions of the thread's position in its program, and a thread has one *)
(* outstanding event at a time.                                            *)
(***************************************************************************)
EXTENDS Integers

NoId == -1

MutexTypes  == {"MUTEX_INIT", "MUTEX_DESTROY", "MUTEX_LOCK", "MUTEX_UNLOCK"}
CondTypes   == {"COND_INIT", "COND_DESTROY", "COND_WAIT", "COND_SIGNAL", "COND_BROADCAST"}
RwlockTypes == {"RWLOCK_INIT", "RWLOCK_DESTROY", "RWLOCK_RDLOCK",
                "RWLOCK_WRLOCK", "RWLOCK_UNLOCK"}
ObjectTypes == {"OBJ_READ", "OBJ_WRITE"}
ThreadTypes == {"THREAD_START", "THREAD_END", "THREAD_PRE_CREATE",
                "THREAD_CREATE", "THREAD_JOIN"}

EventTypes == MutexTypes \cup CondTypes \cup RwlockTypes \cup ObjectTypes
                \cup ThreadTypes

Ev(type, tid, obj, aux) == [type |-> type, tid |-> tid, obj |-> obj, aux |-> aux]

\* InspectEvent::operator ==: the same operation of one thread, on the same
\* objects as far as the category of its type has any (semantic_equal).
SameEvent(e, f) ==
  /\ e.type = f.type
  /\ e.tid  = f.tid
  /\ e.type \notin ThreadTypes             => e.obj = f.obj
  /\ e.type \in ThreadTypes \cup CondTypes => e.aux = f.aux

\* Mutant: acquisitions of one mutex are independent.
DependentNotMutex(e, f) ==
  /\ e.obj = f.obj
  /\ \/ /\ {e.type, f.type} \subseteq RwlockTypes \ {"RWLOCK_UNLOCK"}
        /\ "RWLOCK_WRLOCK" \in {e.type, f.type}
     \/ /\ {e.type, f.type} \subseteq ObjectTypes
        /\ "OBJ_WRITE" \in {e.type, f.type}

(***************************************************************************)
(* InspectEvent::dependent.  Only acquisitions of one mutex, acquisitions  *)
(* of one read-write lock of which one writes, and accesses to one object  *)
(* of which one writes are dependent.  In particular no release, no signal *)
(* and no thread event is dependent with anything.                         *)
(***************************************************************************)
Dependent(e, f) ==
  /\ e.obj = f.obj
  /\ \/ e.type = "MUTEX_LOCK" /\ f.type = "MUTEX_LOCK"
     \/ /\ {e.type, f.type} \subseteq RwlockTypes \ {"RWLOCK_UNLOCK"}
        /\ "RWLOCK_WRLOCK" \in {e.type, f.type}
     \/ /\ {e.type, f.type} \subseteq ObjectTypes
        /\ "OBJ_WRITE" \in {e.type, f.type}

\* InspectEvent::can_disable: executing e blocks the pending event f.
CanDisable(e, f) ==
  /\ e.tid # f.tid
  /\ e.obj = f.obj
  /\ \/ e.type = "MUTEX_LOCK"    /\ f.type = "MUTEX_LOCK"
     \/ e.type = "RWLOCK_WRLOCK" /\ f.type \in {"RWLOCK_RDLOCK", "RWLOCK_WRLOCK"}
     \/ e.type = "RWLOCK_RDLOCK" /\ f.type = "RWLOCK_WRLOCK"

\* Mutant: an unlock enables nothing.
CanEnableNotUnlock(e, f) ==
  e.tid # f.tid /\ e.type = "THREAD_END" /\ f.type = "THREAD_JOIN" /\ f.aux = e.tid

\* Mutant: the end of a thread enables nothing.
CanEnableNotEnd(e, f) ==
  e.tid # f.tid /\ e.type = "MUTEX_UNLOCK" /\ f.type = "MUTEX_LOCK" /\ e.obj = f.obj

\* InspectEvent::can_enable: executing e unblocks the pending event f.
CanEnable(e, f) ==
  /\ e.tid # f.tid
  /\ \/ e.type = "MUTEX_UNLOCK" /\ f.type = "MUTEX_LOCK"  /\ e.obj = f.obj
     \/ e.type = "THREAD_END"   /\ f.type = "THREAD_JOIN" /\ f.aux = e.tid
=============================================================================
