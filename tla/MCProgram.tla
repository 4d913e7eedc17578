------------------------------- MODULE MCProgram -------------------------------
(***************************************************************************)
(* The program with the variables and the instances of its tests, and a    *)
(* few threads.                                                            *)
(***************************************************************************)
EXTENDS Program

\* The only member is DestructorTest's mWeakSelf.
TestOwner == [x \in SharedVar \cup WeakVar |-> IF x = "mWeakSelf" THEN "d" ELSE NULL]
=============================================================================
