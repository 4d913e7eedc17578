-------------------------------- MODULE Safety ---------------------------------
(***************************************************************************)
(* The inductive invariant behind the safety properties of SmartPtr, for   *)
(* programs that keep the discipline (Liberties = {}) and have fewer       *)
(* variables than a counter has values.                                    *)
(***************************************************************************)
EXTENDS SmartPtr

EnoughCounters ==
  /\ IsFiniteSet(Var)
  /\ Cardinality(SharedVar) <= MaxCount
  /\ Cardinality(WeakVar) + 1 <= MaxCount

Disciplined == Liberties = {} /\ EnoughCounters

(***************************************************************************)
(* Variables: what one holds is allocated, and it is in scope; a member is *)
(* in scope only while its instance exists.                                *)
(***************************************************************************)
VarInv ==
  \A x \in Var :
    /\ mHandle[x] # NULL => x \in scope /\ mem[mHandle[x]] = "held"
    /\ x \in scope /\ Owner[x] # NULL => inst[Owner[x]] \in {"live", "dying"}

(***************************************************************************)
(* Blocks: the counts, and how they go with the life of the instance and   *)
(* of the block.                                                           *)
(***************************************************************************)
Temporary(b) == IF inst[b] = "dying" THEN 1 ELSE 0

CountInv ==
  \A b \in Block :
    /\ mStrong[b] = Cardinality(Owners(b))
    /\ mWeak[b] = Cardinality(Observers(b)) + Temporary(b)

LifeInv ==
  \A b \in Block :
    /\ mStrong[b] > 0 <=> inst[b] = "live" /\ mem[b] = "held"
    /\ inst[b] = "dying" => mem[b] = "held"
    /\ mem[b] = "held" => inst[b] # "none" /\ (mStrong[b] > 0 \/ mWeak[b] > 0)
    /\ mem[b] = "freed" => inst[b] # "live"

(***************************************************************************)
(* Frames: one for each instance that is being destroyed, whose variable   *)
(* still holds it.                                                         *)
(***************************************************************************)
FrameInv ==
  /\ \A i \in Depth :
       /\ inst[stack[i].blk] = "dying"
       /\ mHandle[stack[i].var] = stack[i].blk
  /\ \A b \in Block : inst[b] = "dying" => \E i \in Depth : stack[i].blk = b
  /\ \A i, j \in Depth : stack[i].blk = stack[j].blk => i = j

(***************************************************************************)
(* The operands of a call in progress outlive it: each is a root, a member *)
(* of an instance whose destruction began before the call, or a member of  *)
(* an instance that a root holds for the call.                             *)
(***************************************************************************)
OperandsOf(i) == Operands(stack[i].var, stack[i].then, stack[i].arg)

Outlives(i, x) ==
  \/ Owner[x] = NULL
  \/ \E j \in Depth : j < i /\ stack[j].blk = Owner[x]
  \/ \E r \in stack[i].keep : mHandle[r] = Owner[x]

OperandInv == \A i \in Depth : \A x \in OperandsOf(i) : x \in scope /\ Outlives(i, x)

\* A source is not the target of its own call or of one further out, one that
\* is moved from is not kept by one further out, and a variable that is being
\* destroyed is no operand of one further out.
SourceInv ==
  \A i \in Depth :
    /\ stack[i].then \in {"copy", "move"} =>
         /\ \A j \in Depth : j <= i => stack[i].arg # stack[j].var
         /\ stack[i].then = "move" => \A j \in Depth : j < i => stack[i].arg \notin stack[j].keep
    /\ stack[i].then = "destroy" => \A j \in Depth : j < i => stack[i].var \notin OperandsOf(j)

KeepInv == \A r \in Kept : r \in scope /\ r \notin Releasing /\ Owner[r] = NULL

\* An instance that is about to be adopted has no block, and one call adopts it.
AdoptInv ==
  /\ \A i \in Depth :
       stack[i].then = "adopt" => inst[stack[i].arg] = "live" /\ mem[stack[i].arg] = "none"
  /\ \A i, j \in Depth :
       stack[i].then = "adopt" /\ stack[j].then = "adopt" /\ stack[i].arg = stack[j].arg => i = j

\* _shared_from_this_data never refers to a block that was not created.
SelfInv ==
  \A b \in Block :
    shared_from_this_data[b] # NULL => mem[shared_from_this_data[b]] # "none"

IInv ==
  /\ TypeOK
  /\ fault = "none"
  /\ PointerMatchesBlock
  /\ VarInv
  /\ CountInv
  /\ LifeInv
  /\ FrameInv
  /\ OperandInv
  /\ SourceInv
  /\ KeepInv
  /\ AdoptInv
  /\ SelfInv
=============================================================================
