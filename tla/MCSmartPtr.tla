------------------------------ MODULE MCSmartPtr -------------------------------
(***************************************************************************)
(* Small instances of SmartPtr for TLC.  A configuration names the roots   *)
(* and which instances have a shared_ptr_nc member and a weak_ptr member.  *)
(***************************************************************************)
EXTENDS Accessors, Termination, TLC

CONSTANTS SharedRoot, WeakRoot, StrongMemberOf, WeakMemberOf

MCSharedVar == SharedRoot \cup {<<b, "strong">> : b \in StrongMemberOf}
MCWeakVar == WeakRoot \cup {<<b, "weak">> : b \in WeakMemberOf}

MCOwner ==
  [x \in MCSharedVar \cup MCWeakVar |->
     IF x \in SharedRoot \cup WeakRoot THEN NULL ELSE x[1]]

\* Instances are interchangeable where all of them have the same members and
\* are captured alike, roots where they have the same type.
WeakSymmetry == Permutations(WeakRoot)
MemberSymmetry == Permutations(Block) \cup Permutations(SharedRoot)
RootSymmetry == MemberSymmetry \cup WeakSymmetry
=============================================================================
