--------------------------- MODULE MC_SchedulerRun ---------------------------
(***************************************************************************)
(* SchedulerRun for TLC, and its refinement of Pthreads.                   *)
(***************************************************************************)
EXTENDS SchedulerRun

P == INSTANCE Pthreads WITH
       pending <- Pending,
       waiting <- {x \in disabled : x.type = "COND_WAIT"}

\* Every step the scheduler lets the program take is one that POSIX allows:
\* no acquisition of an object that is not available, no return from a wait
\* without a signal, no join of a running thread, and no signal lost between
\* the release of the mutex and the start of the wait, although the wrapper
\* announces these as separate events (inspect_pthread.cc:595-634).
RefinesPthreads == P!Spec
=============================================================================
