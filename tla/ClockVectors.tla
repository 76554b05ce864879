---------------------------- MODULE ClockVectors ----------------------------
(***************************************************************************)
(* ClockVector and ClockVectorList (clock_vector.cc) and                   *)
(* State::update_clock_vector (state.cc) as operators.  A clock vector is  *)
(* a function whose domain 0 .. width - 1 is the entries the C++ vector    *)
(* has; a list of them is a function from the threads created so far.      *)
(*                                                                         *)
(* A vector is widened by one entry when its thread creates another, and   *)
(* not when other threads do: its own entry may lie outside.  The two      *)
(* places that write an entry go past operator[] and its assertion         *)
(* (clock_vector.cc:235, state.cc:445).  Such a write is undefined; it     *)
(* lands in the slack of the heap block of a vector of up to six entries   *)
(* and is lost when the vector is copied into the next state, which is     *)
(* what is modelled.                                                       *)
(***************************************************************************)
EXTENDS Integers, FiniteSets

Width(v) == Cardinality(DOMAIN v)

\* ClockVectorList: for each thread the timestamps it knows of.
IsClockVectorList(clocks) ==
  /\ DOMAIN clocks = 0 .. Cardinality(DOMAIN clocks) - 1
  /\ \A t \in DOMAIN clocks :
       /\ DOMAIN clocks[t] = 0 .. Width(clocks[t]) - 1
       /\ \A i \in DOMAIN clocks[t] : clocks[t][i] \in {-1} \cup Nat

Entry(v, i) == IF i \in DOMAIN v THEN v[i] ELSE -1

\* An assignment to timestamps[i].
Store(v, i, stamp) == IF i \in DOMAIN v THEN [v EXCEPT ![i] = stamp] ELSE v

\* increase_size(1): the new entry is -1.
Widened(v) == [i \in 0 .. Width(v) |-> Entry(v, i)]

\* must_happen_before: pointwise less than or equal, the shorter vector being
\* padded with -1.
MustHappenBefore(v, w) ==
  \A i \in DOMAIN v \cup DOMAIN w : Entry(v, i) <= Entry(w, i)

IsConcurrentWith(v, w) == ~MustHappenBefore(v, w) /\ ~MustHappenBefore(w, v)

\* add_the_first_thread.
FirstClocks == [t \in {0} |-> [i \in {0} |-> 0]]

\* update_clock_vector: one more event of thread tid.
Tick(clocks, tid) ==
  [clocks EXCEPT ![tid] = Store(@, tid, Entry(@, tid) + 1)]

\* Mutant: the vector of the creator is not widened.
AddThreadCopyOnly(clocks, child, parent) ==
  [t \in DOMAIN clocks \cup {child} |->
     IF t = child THEN Store(Widened(clocks[parent]), child, 0) ELSE clocks[t]]

\* add_thread: the creator's vector is widened and the child starts with a
\* copy of it.
AddThread(clocks, child, parent) ==
  LET wide == Widened(clocks[parent])
  IN  [t \in DOMAIN clocks \cup {child} |->
         CASE t = parent -> wide
           [] t = child  -> Store(wide, child, 0)
           [] OTHER      -> clocks[t]]

\* Its assertions.
AddThreadAsserts(clocks, child, parent) ==
  child > parent /\ Cardinality(DOMAIN clocks) = child
=============================================================================
