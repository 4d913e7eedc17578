------------------------------ MODULE Refinement -------------------------------
(***************************************************************************)
(* SmartPtr implements Ownership.  A variable owns the block it holds,     *)
(* unless it is in the middle of giving it up; an instance is alive while  *)
(* it has a control block and its destruction has not begun.               *)
(***************************************************************************)
EXTENDS Safety

Owned(v) == IF v \in Releasing THEN NULL ELSE mHandle[v]

LifeOf(b) ==
  IF inst[b] = "dying" THEN "dying"
  ELSE IF inst[b] = "dead" THEN "gone"
  ELSE IF inst[b] = "live" /\ mem[b] = "held" THEN "alive"
  ELSE "unmanaged"

owned    == [v \in SharedVar |-> Owned(v)]
observed == [w \in WeakVar |-> mHandle[w]]
lives    == [b \in Block |-> LifeOf(b)]
held     == {b \in Block : mem[b] = "held"}

Abstract == INSTANCE Ownership WITH
  Instance <- Block,
  Pointer  <- SharedVar,
  Weak     <- WeakVar,
  None     <- NULL,
  owns     <- owned,
  observes <- observed,
  life     <- lives,
  kept     <- held

\* Every step of the smart pointers is a step Ownership allows or changes
\* nothing it speaks of: what a pointer comes to own is alive, an instance
\* dies with its last owner and never otherwise, its record goes with the last
\* need for it, at once and from whichever side.
ImplementsOwnership == Abstract!Spec

\* The same, and every destruction that begins ends.
ImplementsLiveOwnership == Abstract!LiveSpec
=============================================================================
