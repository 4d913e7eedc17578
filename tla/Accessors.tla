------------------------------- MODULE Accessors --------------------------------
(***************************************************************************)
(* What a program can ask a smart pointer: the accessors, the comparisons  *)
(* and, in builds for the unit tests, the counters.  None of them changes  *)
(* state.                                                                  *)
(***************************************************************************)
EXTENDS Refinement

\* shared_ptr_nc::use_count, weak_ptr::strong_count.
use_count(x) == IF mHandle[x] = NULL THEN 0 ELSE mStrong[mHandle[x]]

weak_count(x) == IF mHandle[x] = NULL THEN 0 ELSE mWeak[mHandle[x]]

unique(v) == use_count(v) = 1

\* get(), and what the comparisons compare.
get(v) == mPtr[v]

equal(v, u) == get(v) = get(u)

\* Mutant: expired() that asks only whether there is a control block.
expired_HandleOnly(w) == mHandle[w] = NULL

expired(w) == mHandle[w] = NULL \/ ~ has_shared_references(mHandle[w])

\* ControlBlock::live_instance_count, which counts in register_cb_ctor and
\* register_cb_dtor.
live_instance_count == Cardinality({b \in Block : mem[b] = "held"})

\* The answers are about owners, at any moment, from inside a destructor as
\* well: unique() is true of an only owner, a pointer that counts no owner is
\* null, and expired() is false exactly when lock() would make another owner of
\* an instance that has one.
AccessorsTellOwners ==
  fault = "none" =>
    /\ \A v \in (SharedVar \cap scope) \ Releasing :
         /\ unique(v) <=> mHandle[v] # NULL /\ Owners(mHandle[v]) = {v}
         /\ use_count(v) = 0 => get(v) = NULL
    /\ \A w \in WeakVar \cap scope :
         ~ expired(w) <=> mHandle[w] # NULL /\ Owners(mHandle[w]) # {}
=============================================================================
