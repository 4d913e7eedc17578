------------------------------ MODULE Termination ------------------------------
(***************************************************************************)
(* Why a release gives control back: every destructor has a fixed amount   *)
(* of work, nothing that happens meanwhile adds to it, and each step of a  *)
(* destructor does some of it.  These are the step-by-step facts behind    *)
(* CallReturns, for the recursion release_shared -> destructor ->          *)
(* release_shared (prefix.hpp:168) of which the code has no other bound.   *)
(***************************************************************************)
EXTENDS Safety

Phase == {"begins", "leaves_body", "returns"}

BodyRuns(b) == \E i \in Depth : stack[i].blk = b /\ stack[i].body

\* The destructor of b has this still before it, once.
StillTo(b, phase) ==
  \/ inst[b] \in {"none", "live"}
  \/ inst[b] = "dying" /\ phase = "returns"
  \/ inst[b] = "dying" /\ phase = "leaves_body" /\ BodyRuns(b)

destructorsLeft == {p \in Block \X Phase : StillTo(p[1], p[2])}

\* The members that destructors have still to destroy, those of instances that
\* are not constructed yet included.
membersLeft ==
  {x \in Var : Owner[x] # NULL /\ (x \in scope \/ inst[Owner[x]] = "none")}

\* No step gives a destructor more to do, whatever the program does inside of
\* it, and each step of a destructor leaves less: with n instances and m
\* members, destructors take no more than 3n + m steps altogether.
WorkStep ==
  /\ destructorsLeft' \subseteq destructorsLeft
  /\ membersLeft' \subseteq membersLeft
  /\ DestructorStep => destructorsLeft' # destructorsLeft \/ membersLeft' # membersLeft

WorkOnlyShrinks == [][WorkStep]_vars

\* The calls of release_shared that are nested at any moment are one for each
\* instance that is being destroyed: a destructor is never entered again, so
\* that the stack a release needs is bounded by the instances that die by it.
OneCallPerDestruction == Len(stack) = Cardinality({b \in Block : inst[b] = "dying"})
=============================================================================
