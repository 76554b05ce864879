----------------------------- MODULE MC_Handshake -----------------------------
(***************************************************************************)
(* Programs for the protocol.                                              *)
(***************************************************************************)
EXTENDS Handshake

Start      == Op("THREAD_START", NoId, NoId)
End        == Op("THREAD_END", NoId, NoId)
Create(t)  == Op("THREAD_PRE_CREATE", NoId, t)
Join(t)    == Op("THREAD_JOIN", NoId, t)
Reg(a)     == Op("OBJ_REG", a, NoId)
Rd(a)      == Op("OBJ_READ", a, NoId)
Wr(a)      == Op("OBJ_WRITE", a, NoId)
MInit(m)   == Op("MUTEX_INIT", m, NoId)
Destroy(m) == Op("MUTEX_DESTROY", m, NoId)
Lock(m)    == Op("MUTEX_LOCK", m, NoId)
Unlock(m)  == Op("MUTEX_UNLOCK", m, NoId)
CInit(c)   == Op("COND_INIT", NoId, c)
Signal(c)  == Op("COND_SIGNAL", NoId, c)
RwInit(l)  == Op("RWLOCK_INIT", l, NoId)
RdLock(l)  == Op("RWLOCK_RDLOCK", l, NoId)
WrLock(l)  == Op("RWLOCK_WRLOCK", l, NoId)
RwUnlock(l) == Op("RWLOCK_UNLOCK", l, NoId)
Info       == Op("LOCAL_INFO", NoId, NoId)
Symm       == Op("SYMM_POINT", NoId, NoId)
Exit       == Op("EXIT", NoId, NoId)

Wait(c, m) == <<Unlock(m), Op("COND_WAIT", m, c), Lock(m)>>

\* A program from the bodies of its threads, main first.
Whole(body) == <<Start>> \o body \o (IF body # <<>> /\ body[Len(body)] = Exit THEN <<>> ELSE <<End>>)
Prog(bodies) ==
  [t \in Threads |-> Whole(IF t < Len(bodies) THEN bodies[t + 1] ELSE <<>>)]

\* All objects are registered before there is a second thread; the write that
\* comes before is not seen.
Registering ==
  { Prog(<< <<Reg(2), MInit(1), Create(1), Create(2), Join(1), Join(2)>>,
            <<Lock(1), Wr(2), Unlock(1)>>,
            <<Lock(1), Unlock(1)>> >>),
    Prog(<< <<Wr(2), Rd(2), Create(1), Rd(2), Join(1)>>,
            <<Create(2), Wr(2), Join(2)>> >>) }

\* Every other kind of operation; a mutex is destroyed, a pthread_t used again.
Blocking ==
  { Prog(<< <<MInit(1), CInit(2), Create(1), Lock(1), Signal(2), Unlock(1), Join(1), Destroy(1)>>,
            <<Info, Lock(1)>> \o Wait(2, 1) \o <<Unlock(1)>> >>),
    Prog(<< <<RwInit(1), Create(1), Info, WrLock(1), RwUnlock(1), Join(1), Exit>>,
            <<RdLock(1), RwUnlock(1)>> >>),
    Prog(<< <<Create(1), Join(1), Create(2), Join(2)>> >>) }

\* Two threads create others: the ids they get depend on the order.
TwoCreators ==
  { Prog(<< <<Create(1), Create(3), Join(1), Join(2), Join(3)>>, <<Create(2)>>, <<>>, <<>> >>) }

\* Two threads touch objects nobody has registered.
SameObject  == { Prog(<< <<Create(1), Create(2), Join(1), Join(2)>>, <<Rd(2)>>, <<Rd(2)>> >>) }
TwoObjects  == { Prog(<< <<Create(1), Create(2), Join(1), Join(2)>>, <<Rd(2)>>, <<Rd(3)>> >>) }

\* A thread passes a symmetry point, or two LOCAL_INFO in a row.
Symmetric == { Prog(<< <<Create(1), Join(1)>>, <<Symm>> >>) }
Repeating == { Prog(<< <<Reg(2), Create(1), Rd(2), Join(1)>>, <<Info, Info>> >>) }

\* main ends before its threads, or another thread exits.
Unjoined == { Prog(<< <<Create(1), Create(2)>> >>),
              Prog(<< <<Reg(2), Create(1), Rd(2), Join(1)>>, <<Rd(2), Exit>> >>) }

AllPrograms ==
  Registering \cup Blocking \cup TwoCreators \cup SameObject \cup Symmetric \cup Repeating
    \cup Unjoined

\* A thread is created while another one is joined.  Not in AllPrograms, for its
\* size: what the properties say of Orderly programs fails for it.
JoinsBeside == { Prog(<< <<Create(1), Create(2), Join(1), Rd(2), Join(2)>>,
                         <<>>, <<Create(3), Join(3)>> >>) }
=============================================================================
