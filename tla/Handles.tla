-------------------------------- MODULE Handles --------------------------------
(***************************************************************************)
(* The pointer variables of a program and the calls it is in the middle    *)
(* of.                                                                     *)
(*                                                                         *)
(* A variable is a shared_ptr_nc or a weak_ptr.  It is a root (a local, a  *)
(* global) or a data member of a managed instance, which brings it into    *)
(* scope when it is constructed and destroys it in its destructor.         *)
(*                                                                         *)
(* The only user code the library calls is the destructor of an instance,  *)
(* from inside release_shared.  stack holds one frame for each such        *)
(* destructor: the variable whose reference was the last one, and what the *)
(* library function that released it does when the destructor returns.     *)
(* In between, the variable still holds the block (reset() clears mHandle  *)
(* and mPtr only afterwards) and the destructor may itself use the library.*)
(*                                                                         *)
(* Undefined behaviour (a call through a freed block, a second             *)
(* destruction, a read of a variable that is gone) sets fault and ends the *)
(* behaviour: nothing is claimed about what follows it.                    *)
(***************************************************************************)
EXTENDS ControlBlock, Sequences

CONSTANTS
  SharedVar,      \* shared_ptr_nc variables
  WeakVar,        \* weak_ptr variables
  Owner,          \* the instance a variable is a member of, NULL for a root
  TrackingVar,    \* shared variables whose T derives from enable_shared_from_this<T>;
                  \* when there are any, every instance has such a T as a base
  TrackingBlock,  \* instances first captured by a pointer to that very T
  Liberties       \* what the program does beyond the discipline below

Var == SharedVar \cup WeakVar

AllLiberties == {"touch_released", "drop_owner", "shared_from_dying", "copied_self"}

ASSUME VarAssumption ==
  /\ NULL \notin Var
  /\ SharedVar \cap WeakVar = {}
  /\ Owner \in [Var -> Block \cup {NULL}]
ASSUME TrackingAssumption == TrackingBlock \subseteq Block /\ TrackingVar \subseteq SharedVar
ASSUME LibertiesAssumption == Liberties \subseteq AllLiberties

VARIABLES
  mHandle,                \* the control block of each variable
  mPtr,                   \* the instance each variable points to
  scope,                  \* the variables whose storage is alive
  shared_from_this_data,  \* enable_shared_from_this::_shared_from_this_data
  stack,                  \* destructors being run, innermost last
  fault                   \* the undefined behaviour met, or "none"

handleVars == <<mHandle, mPtr, scope, shared_from_this_data>>
vars == <<blockVars, handleVars, stack, fault>>

Then   == {"destroy", "reset", "copy", "move", "adopt"}
Faults == {"none", "freed_block", "destroyed_twice", "stale_source", "stale_target",
           "dead_instance"}

Handle == Block \cup {NULL}

\* What follows a release, with the variable or the instance it reads.
Operand(then) ==
  IF then \in {"copy", "move"} THEN SharedVar
  ELSE IF then = "adopt" THEN Block
  ELSE {NULL}

Frame ==
  {f \in [blk  : Block,                 \* the instance being destroyed
          var  : SharedVar,             \* the variable that held the last reference
          then : Then,                  \* what follows the release
          arg  : SharedVar \cup Handle, \* what that reads
          keep : SUBSET SharedVar,      \* roots the caller relies on meanwhile
          body : BOOLEAN] :             \* the user-written body is still running
     f.arg \in Operand(f.then)}

HandleTypeOK ==
  /\ mHandle \in [Var -> Handle]
  /\ mPtr \in [Var -> Handle]
  /\ scope \in SUBSET Var
  /\ shared_from_this_data \in [Block -> Handle]
  /\ stack \in Seq(Frame)
  /\ fault \in Faults

HandleInit ==
  /\ mHandle = [x \in Var |-> NULL]
  /\ mPtr = [x \in Var |-> NULL]
  /\ scope = {}
  /\ shared_from_this_data = [b \in Block |-> NULL]
  /\ stack = <<>>
  /\ fault = "none"

Members(b) == {x \in Var : Owner[x] = b}
Roots == {x \in Var : Owner[x] = NULL}

Top == stack[Len(stack)]
Depth == DOMAIN stack

\* Variables whose release is in progress: they still hold a block they no longer own.
Releasing == {stack[i].var : i \in Depth}

\* Roots that keep an instance alive for a call in progress, and variables it will read.
Kept == UNION {stack[i].keep : i \in Depth}
Sources == {stack[i].arg : i \in {j \in Depth : stack[j].then \in {"copy", "move"}}}

Owners(b) == {v \in SharedVar : mHandle[v] = b /\ v \notin Releasing}
Observers(b) == {w \in WeakVar : mHandle[w] = b}

(***************************************************************************)
(* Who runs: the program, at top level or in the body of the innermost     *)
(* destructor; or the end of that destructor, which destroys the members.  *)
(***************************************************************************)
ProgramRuns == fault = "none" /\ (stack # <<>> => Top.body)
Unwinding == fault = "none" /\ stack # <<>> /\ ~ Top.body

(***************************************************************************)
(* The discipline of the program.  It leaves alone a variable whose        *)
(* release is in progress; while it is in a call on a member of an         *)
(* instance, a root that it does not change holds that instance (or the    *)
(* destructor of that instance is what is running); it closes no variable  *)
(* a call in progress will read.  A liberty lifts a part of it.            *)
(***************************************************************************)
MayRead(x) == x \in scope /\ ("touch_released" \notin Liberties => x \notin Releasing)
MayWrite(x) == MayRead(x) /\ ("drop_owner" \notin Liberties => x \notin Kept)
MayClose(x) ==
  /\ MayWrite(x)
  /\ Owner[x] = NULL
  /\ "drop_owner" \notin Liberties => x \notin Sources
Fresh(x) == Owner[x] = NULL /\ x \notin scope

Operands(v, then, arg) == IF then \in {"copy", "move"} THEN {v, arg} ELSE {v}

\* Roots other than v that hold the instance x is a member of.
Keepers(v, x) ==
  {r \in SharedVar \cap scope :
     /\ r # v
     /\ r \notin Releasing
     /\ Owner[r] = NULL
     /\ Owner[x] # NULL
     /\ mHandle[r] = Owner[x]}

Secured(v, x) ==
  (Owner[x] # NULL /\ "drop_owner" \notin Liberties) =>
    (inst[Owner[x]] = "dying" \/ Keepers(v, x) # {})

\* An instance constructed by `new` and not yet given to a smart pointer.
Raw(b) ==
  /\ inst[b] = "live"
  /\ mem[b] = "none"
  /\ \A i \in Depth : stack[i].then = "adopt" => stack[i].arg # b

(***************************************************************************)
(* mPtr of x after reset(): cleared together with a non-null mHandle.      *)
(***************************************************************************)
ResetPtr(x) == IF mHandle[x] = NULL THEN mPtr[x] ELSE NULL

=============================================================================
