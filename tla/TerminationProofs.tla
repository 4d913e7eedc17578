--------------------------- MODULE TerminationProofs ---------------------------
(***************************************************************************)
(* The work of destructors only shrinks, and they nest once for each       *)
(* instance that is being destroyed.  With the fairness of DestructorStep  *)
(* (and that a destructor in progress always has a step, GoesOn) this is   *)
(* why every release returns.                                              *)
(***************************************************************************)
EXTENDS SafetyProofs, Termination

(***************************************************************************)
(* What it takes for the work not to grow.                                 *)
(***************************************************************************)
PhasesDone ==
  \A b \in Block, phase \in Phase : StillTo(b, phase)' => StillTo(b, phase)

MembersDone ==
  \A x \in Var :
    Owner[x] # NULL /\ (x \in scope' \/ inst'[Owner[x]] = "none") =>
      x \in scope \/ inst[Owner[x]] = "none"

LEMMA NothingAdded ==
  ASSUME PhasesDone, MembersDone
  PROVE  destructorsLeft' \subseteq destructorsLeft /\ membersLeft' \subseteq membersLeft
<1>1. destructorsLeft' \subseteq destructorsLeft
  BY DEF PhasesDone, destructorsLeft
<1>2. membersLeft' \subseteq membersLeft
  BY DEF MembersDone, membersLeft
<1> QED
  BY <1>1, <1>2

LEMMA PhaseDone ==
  ASSUME NEW b \in Block, NEW phase \in Phase, StillTo(b, phase), ~ StillTo(b, phase)'
  PROVE  destructorsLeft' # destructorsLeft
<1>1. <<b, phase>> \in destructorsLeft /\ <<b, phase>> \notin destructorsLeft'
  BY DEF destructorsLeft
<1> QED
  BY <1>1

LEMMA MemberDone ==
  ASSUME NEW x \in Var, Owner[x] # NULL, x \in scope,
         x \notin scope', inst'[Owner[x]] # "none"
  PROVE  membersLeft' # membersLeft
<1>1. x \in membersLeft /\ x \notin membersLeft'
  BY DEF membersLeft
<1> QED
  BY <1>1

\* A step in which no destructor takes part, and only roots come into scope.
LEMMA NoDestructor ==
  ASSUME UNCHANGED <<inst, stack>>,
         \A x \in Var : x \in scope' => x \in scope \/ Owner[x] = NULL
  PROVE  PhasesDone /\ MembersDone
<1>1. \A b : BodyRuns(b)' <=> BodyRuns(b)
  BY DEF BodyRuns, Depth
<1>2. PhasesDone
  BY <1>1 DEF PhasesDone, StillTo
<1> QED
  BY <1>2 DEF MembersDone

\* The members of an instance come into scope with it.
LEMMA Construction ==
  ASSUME NEW b \in Block, inst \in [Block -> InstState], inst[b] = "none",
         inst' = [inst EXCEPT ![b] = "live"], UNCHANGED stack,
         \A x \in Var : x \in scope' => x \in scope \/ Owner[x] \in {NULL, b}
  PROVE  PhasesDone /\ MembersDone
<1>1. \A c : BodyRuns(c)' <=> BodyRuns(c)
  BY DEF BodyRuns, Depth
<1>2. PhasesDone
  BY <1>1 DEF PhasesDone, StillTo
<1>3. MembersDone
  BY DEF MembersDone
<1> QED
  BY <1>2, <1>3

(***************************************************************************)
(* Destructors.                                                            *)
(***************************************************************************)
LEMMA DestructorBegins ==
  ASSUME IInv, NEW v \in SharedVar, NEW then \in Then, NEW arg \in Operand(then),
         LastReference(mHandle[v]), BeginDestruction(v, then, arg)
  PROVE  PhasesDone /\ MembersDone /\ destructorsLeft' # destructorsLeft
<1>1. PICK b \in Block : b = mHandle[v]
  BY ResetPtrType DEF LastReference, IInv, Handle, Var
<1> DEFINE f == [blk |-> b, var |-> v, then |-> then, arg |-> arg, body |-> TRUE,
                 keep |-> UNION {Keepers(v, x) : x \in Operands(v, then, arg)}]
<1>2. /\ inst[b] = "live" /\ inst \in [Block -> InstState]
      /\ inst' = [inst EXCEPT ![b] = "dying"] /\ stack' = Append(stack, f) /\ scope' = scope
  BY <1>1 DEF LastReference, BeginDestruction, release_last, handleVars,
             IInv, LifeInv, TypeOK, BlockTypeOK
<1>3. ASSUME NEW c \in Block, c # b
      PROVE  BodyRuns(c)' => BodyRuns(c)
  <2>1. stack \in Seq(Frame) /\ Depth = 1 .. Len(stack) /\ Len(stack) \in Nat
    BY LenProperties DEF IInv, TypeOK, HandleTypeOK, Depth
  <2>2. /\ Depth' = 1 .. Len(stack) + 1
        /\ \A i \in 1 .. Len(stack) : stack'[i] = stack[i]
        /\ stack'[Len(stack) + 1].blk = b
    BY <1>2, <2>1 DEF Depth
  <2> QED
    BY <1>3, <2>1, <2>2 DEF BodyRuns
<1>4. PhasesDone
  BY <1>1, <1>2, <1>3 DEF PhasesDone, StillTo, Phase
<1>5. MembersDone
  BY <1>1, <1>2 DEF MembersDone
<1>6. StillTo(b, "begins") /\ ~ StillTo(b, "begins")'
  BY <1>1, <1>2 DEF StillTo
<1> QED
  BY <1>1, <1>4, <1>5, <1>6, PhaseDone DEF Phase

LEMMA ReleaseWorks ==
  ASSUME IInv, NEW v \in SharedVar, NEW then \in Then, NEW arg \in Operand(then),
         Release(v, then, arg)
  PROVE  /\ PhasesDone /\ MembersDone
         /\ \/ destructorsLeft' # destructorsLeft
            \/ inst' = inst /\ scope' = IF then = "destroy" THEN scope \ {v} ELSE scope
<1>1. CASE LastReference(mHandle[v]) /\ BeginDestruction(v, then, arg)
  BY <1>1, DestructorBegins
<1>2. CASE /\ Complete(v, then, arg, release_shared(mStrong, mHandle[v]), mem)
           /\ UNCHANGED <<mWeak, inst, stack>>
  <2>1. inst' = inst /\ scope' = IF then = "destroy" THEN scope \ {v} ELSE scope
    BY <1>2 DEF Complete
  <2>2. PhasesDone /\ MembersDone
    BY <1>2, <2>1, NoDestructor
  <2> QED
    BY <2>1, <2>2
<1> QED
  BY <1>1, <1>2 DEF Release

\* Each destructor in progress is in its body, or past it, once.
LEMMA BodyEnds ==
  ASSUME IInv, EndBody
  PROVE  PhasesDone /\ MembersDone /\ destructorsLeft' # destructorsLeft
<1> PICK b, n : b = Top.blk /\ n = Len(stack)
  OBVIOUS
<1>1. n \in Depth /\ Depth = 1 .. n /\ n \in Nat /\ stack \in Seq(Frame)
      /\ b \in Block /\ inst[b] = "dying" /\ Top = stack[n]
      /\ \A i \in 1 .. n - 1 : stack[i].blk # b
  BY InnermostCall DEF EndBody, IInv, TypeOK, HandleTypeOK, Top
<1>2. inst' = inst /\ scope' = scope /\ Top.body /\ stack' = [stack EXCEPT ![n].body = FALSE]
  BY DEF EndBody, blockVars, handleVars
<1>3. /\ Depth' = 1 .. n
      /\ \A i \in 1 .. n - 1 : stack'[i] = stack[i]
      /\ stack'[n].blk = b /\ ~ stack'[n].body
  <2>1. stack[n] \in Frame
    BY <1>1, FrameType DEF IInv
  <2> QED
    BY <1>1, <1>2, <2>1 DEF Depth, Frame
<1>4. \A c : BodyRuns(c)' => BodyRuns(c)
  BY <1>1, <1>3 DEF BodyRuns
<1>5. BodyRuns(b) /\ ~ BodyRuns(b)'
  BY <1>1, <1>2, <1>3 DEF BodyRuns
<1>6. PhasesDone /\ MembersDone
  BY <1>2, <1>4 DEF PhasesDone, MembersDone, StillTo
<1>7. StillTo(b, "leaves_body") /\ ~ StillTo(b, "leaves_body")'
  BY <1>1, <1>2, <1>5 DEF StillTo
<1> QED
  BY <1>1, <1>6, <1>7, PhaseDone DEF Phase

LEMMA DestructorReturns ==
  ASSUME IInv, Return
  PROVE  PhasesDone /\ MembersDone /\ destructorsLeft' # destructorsLeft
<1> PICK b, n : b = Top.blk /\ n = Len(stack)
  OBVIOUS
<1>1. n \in Depth /\ Depth = 1 .. n /\ n \in Nat /\ stack \in Seq(Frame)
      /\ b \in Block /\ inst[b] = "dying" /\ inst \in [Block -> InstState]
  BY InnermostCall DEF Return, Unwinding, IInv, TypeOK, BlockTypeOK, HandleTypeOK
<1>2. /\ inst' = [inst EXCEPT ![b] = "dead"] /\ scope' \subseteq scope
      /\ stack' = SubSeq(stack, 1, n - 1)
  BY DEF Return, Complete
<1>3. Depth' = 1 .. n - 1 /\ \A i \in 1 .. n - 1 : stack'[i] = stack[i]
  BY <1>1, <1>2 DEF Depth
<1>4. \A c : BodyRuns(c)' => BodyRuns(c)
  BY <1>1, <1>3 DEF BodyRuns
<1>5. PhasesDone /\ MembersDone
  BY <1>1, <1>2, <1>4 DEF PhasesDone, MembersDone, StillTo
<1>6. StillTo(b, "returns") /\ ~ StillTo(b, "returns")'
  BY <1>1, <1>2 DEF StillTo
<1> QED
  BY <1>1, <1>5, <1>6, PhaseDone DEF Phase

LEMMA DestructorWorks ==
  ASSUME IInv, DestructorStep
  PROVE  PhasesDone /\ MembersDone
         /\ (destructorsLeft' # destructorsLeft \/ membersLeft' # membersLeft)
<1> DEFINE Gone(x) == inst' = inst /\ scope' = scope \ {x}
<1>1. ASSUME NEW x \in Var, Unwinding, x \in scope, Owner[x] = Top.blk, Gone(x)
      PROVE  membersLeft' # membersLeft
  <2>1. Owner[x] \in Block /\ inst[Owner[x]] = "dying"
    BY <1>1, InnermostCall DEF Unwinding
  <2> QED
    BY <1>1, <2>1, MemberDone, BlockAssumption
<1>2. ASSUME NEW v \in SharedVar, DestroySharedMember(v)
      PROVE  PhasesDone /\ MembersDone
             /\ (destructorsLeft' # destructorsLeft \/ membersLeft' # membersLeft)
  <2>1. /\ PhasesDone /\ MembersDone
        /\ destructorsLeft' # destructorsLeft \/ Gone(v)
    BY <1>2, ReleaseWorks DEF DestroySharedMember, Then, Operand
  <2> QED
    BY <1>1, <1>2, <2>1 DEF DestroySharedMember, Var
<1>3. ASSUME NEW w \in WeakVar, DestroyWeakMember(w)
      PROVE  PhasesDone /\ MembersDone
             /\ (destructorsLeft' # destructorsLeft \/ membersLeft' # membersLeft)
  <2>1. Gone(w) /\ stack' = stack
    BY <1>3 DEF DestroyWeakMember, Update
  <2> QED
    BY <1>1, <1>3, <2>1, NoDestructor DEF DestroyWeakMember, Var
<1> QED
  BY <1>2, <1>3, BodyEnds, DestructorReturns DEF DestructorStep

(***************************************************************************)
(* The program, at top level or in a destructor.                           *)
(***************************************************************************)
LEMMA InstanceStepWorks ==
  ASSUME TypeOK, InstanceStep
  PROVE  PhasesDone /\ MembersDone
<1> USE DEF Fresh, Members, handleVars, blockVars
<1>1. inst \in [Block -> InstState]
  BY DEF TypeOK, BlockTypeOK
<1>2. ASSUME NEW b \in Block, New(b)
      PROVE  PhasesDone /\ MembersDone
  BY <1>1, <1>2, Construction DEF New
<1>3. ASSUME NEW b \in Block, NEW v \in SharedVar, MakeShared(v, b)
      PROVE  PhasesDone /\ MembersDone
  BY <1>1, <1>3, Construction DEF MakeShared
<1>4. ASSUME NEW b \in Block,
             MakeSharedThrows(b) \/ \E c \in Block : CopyInstance(b, c)
      PROVE  PhasesDone /\ MembersDone
  BY <1>4, NoDestructor DEF MakeSharedThrows, CopyInstance
<1>5. ASSUME NEW b \in Block, NEW v \in SharedVar, AdoptCtor(v, b) \/ SharedFromThis(v, b)
      PROVE  PhasesDone /\ MembersDone
  BY <1>5, NoDestructor DEF AdoptCtor, SharedFromThis, DefaultCtor, PrivateCtor
<1> QED
  BY <1>2, <1>3, <1>4, <1>5 DEF InstanceStep

LEMMA SharedStepWorks ==
  ASSUME IInv, SharedStep
  PROVE  PhasesDone /\ MembersDone
<1>1. ASSUME NEW v \in SharedVar,
             \/ Destroy(v) \/ Reset(v)
             \/ \E b \in Block : ResetTo(v, b)
             \/ \E u \in SharedVar : CopyAssign(v, u) \/ MoveAssign(v, u)
      PROVE  PhasesDone /\ MembersDone
  BY <1>1, ReleaseWorks DEF Destroy, Reset, ResetTo, CopyAssign, MoveAssign, Then, Operand
<1>2. ASSUME NEW v \in SharedVar, NEW u \in SharedVar,
             \/ DefaultCtor(v) \/ CopyCtor(v, u) \/ MoveCtor(v, u) \/ PointerCast(v, u)
             \/ DynamicCastFails(v, u) \/ Swap(v, u)
      PROVE  PhasesDone /\ MembersDone
  BY <1>2, NoDestructor
  DEF DefaultCtor, CopyCtor, MoveCtor, PointerCast, DynamicCastFails, Swap, PrivateCtor, Fresh, blockVars
<1> QED
  BY <1>1, <1>2 DEF SharedStep

LEMMA WeakStepWorks ==
  ASSUME WeakStep
  PROVE  PhasesDone /\ MembersDone
<1>1. inst' = inst /\ stack' = stack
  BY DEF WeakStep, WeakDefaultCtor, WeakDestroy, WeakReset, WeakCopyCtor, WeakMoveCtor,
         WeakCopyAssign, WeakMoveAssign, WeakFromShared, WeakAssignShared, Lock, LockExpired,
         Update, PrivateCtor, blockVars
<1>2. \A x \in Var : x \in scope' => x \in scope \/ Owner[x] = NULL
  BY DEF WeakStep, WeakDefaultCtor, WeakDestroy, WeakReset, WeakCopyCtor, WeakMoveCtor,
         WeakCopyAssign, WeakMoveAssign, WeakFromShared, WeakAssignShared, Lock, LockExpired,
         Update, PrivateCtor, Fresh
<1> QED
  BY <1>1, <1>2, NoDestructor

LEMMA StepWorks ==
  ASSUME IInv, Next
  PROVE  WorkStep
<1>1. PhasesDone /\ MembersDone
  BY InstanceStepWorks, SharedStepWorks, WeakStepWorks, DestructorWorks DEF Next, IInv
<1> QED
  BY <1>1, NothingAdded, DestructorWorks DEF WorkStep

(***************************************************************************)
(* Calls in progress and instances being destroyed are one to one.         *)
(***************************************************************************)
LEMMA CallsAreDestructions ==
  ASSUME IInv
  PROVE  OneCallPerDestruction
<1> DEFINE D == {b \in Block : inst[b] = "dying"}
           f == [i \in 1 .. Len(stack) |-> stack[i].blk]
<1>1. /\ Len(stack) \in Nat /\ Depth = 1 .. Len(stack)
      /\ \A i \in Depth : stack[i].blk \in Block
  BY LenProperties, FrameType DEF IInv, TypeOK, HandleTypeOK, Depth
<1>2. f \in [1 .. Len(stack) -> D]
  BY <1>1 DEF IInv, FrameInv
<1>3. \A i, j \in 1 .. Len(stack) : f[i] = f[j] => i = j
  BY <1>1 DEF IInv, FrameInv
<1>4. \A b \in D : \E i \in 1 .. Len(stack) : f[i] = b
  BY <1>1 DEF IInv, FrameInv
<1>5. f \in Bijection(1 .. Len(stack), D)
  BY <1>2, <1>3, <1>4 DEF Bijection, Injection, Surjection, IsInjective
<1>6. ExistsBijection(1 .. Len(stack), D)
  BY <1>5 DEF ExistsBijection
<1> QED
  BY <1>1, <1>6, FS_CountingElements DEF OneCallPerDestruction

(***************************************************************************)
(* The rest of the argument for CallReturns, but for the fairness: the     *)
(* work is a number that the steps of destructors decrease, and one of     *)
(* them is always possible.                                                *)
(***************************************************************************)
Work == Cardinality(destructorsLeft) + Cardinality(membersLeft)

LEMMA WorkIsFinite ==
  ASSUME IsFiniteSet(Block), IsFiniteSet(Var)
  PROVE  /\ IsFiniteSet(destructorsLeft) /\ IsFiniteSet(membersLeft)
         /\ Work \in 0 .. 3 * Cardinality(Block) + Cardinality(Var)
<1>1. IsFiniteSet(Phase) /\ Cardinality(Phase) = 3
  <2> DEFINE One == {"begins"}
             Two == One \cup {"leaves_body"}
             Three == Two \cup {"returns"}
  <2>1. IsFiniteSet(One) /\ Cardinality(One) = 1
    BY FS_Singleton
  <2>2. "leaves_body" \notin One /\ "returns" \notin Two /\ Three = Phase
    BY DEF Phase
  <2> HIDE DEF One
  <2>3. IsFiniteSet(Two) /\ Cardinality(Two) = 2
    BY <2>1, <2>2, FS_AddElement
  <2> HIDE DEF Two
  <2>4. IsFiniteSet(Three) /\ Cardinality(Three) = 3
    BY <2>2, <2>3, FS_AddElement
  <2> QED
    BY <2>2, <2>4
<1>2. IsFiniteSet(Block \X Phase) /\ Cardinality(Block \X Phase) = Cardinality(Block) * 3
  BY <1>1, FS_Product
<1>3. IsFiniteSet(destructorsLeft) /\ Cardinality(destructorsLeft) <= Cardinality(Block) * 3
  BY <1>2, FS_Subset DEF destructorsLeft
<1>4. IsFiniteSet(membersLeft) /\ Cardinality(membersLeft) <= Cardinality(Var)
  BY FS_Subset DEF membersLeft
<1>5. /\ Cardinality(Block) \in Nat /\ Cardinality(Var) \in Nat
      /\ Cardinality(destructorsLeft) \in Nat /\ Cardinality(membersLeft) \in Nat
  BY <1>3, <1>4, FS_CardinalityType
<1> QED
  BY <1>3, <1>4, <1>5 DEF Work

LEMMA WorkDecreases ==
  ASSUME IsFiniteSet(Block), IsFiniteSet(Var), IInv, Next
  PROVE  Work' <= Work /\ (DestructorStep => Work' < Work)
<1>1. WorkStep
  BY StepWorks
<1>2. /\ IsFiniteSet(destructorsLeft) /\ IsFiniteSet(membersLeft)
  BY WorkIsFinite
<1>3. /\ IsFiniteSet(destructorsLeft')
      /\ Cardinality(destructorsLeft') <= Cardinality(destructorsLeft)
      /\ Cardinality(destructorsLeft') = Cardinality(destructorsLeft) =>
           destructorsLeft' = destructorsLeft
  BY <1>1, <1>2, FS_Subset DEF WorkStep
<1>4. /\ IsFiniteSet(membersLeft')
      /\ Cardinality(membersLeft') <= Cardinality(membersLeft)
      /\ Cardinality(membersLeft') = Cardinality(membersLeft) => membersLeft' = membersLeft
  BY <1>1, <1>2, FS_Subset DEF WorkStep
<1>5. /\ Cardinality(destructorsLeft) \in Nat /\ Cardinality(destructorsLeft') \in Nat
      /\ Cardinality(membersLeft) \in Nat /\ Cardinality(membersLeft') \in Nat
  BY <1>2, <1>3, <1>4, FS_CardinalityType
<1> QED
  BY <1>1, <1>3, <1>4, <1>5 DEF WorkStep, Work

\* The guards of DestructorStep leave no destructor stuck: its body ends, or a
\* member is left that the discipline does not protect from it, or it returns.
LEMMA DestructorGoesOn ==
  ASSUME IInv, stack # <<>>, ~ Top.body
  PROVE  /\ Unwinding
         /\ Members(Top.blk) \cap scope # {} =>
              \E x \in Members(Top.blk) \cap scope :
                /\ Owner[x] = Top.blk
                /\ \A y \in Operands(x, "destroy", NULL) : Secured(x, y)
<1>1. Unwinding
  BY DEF Unwinding, IInv
<1>2. \A x \in Members(Top.blk) : Owner[x] = Top.blk /\ Secured(x, x)
  BY InnermostCall DEF Members, Secured
<1>3. \A x : Operands(x, "destroy", NULL) = {x}
  BY DEF Operands
<1> QED
  BY <1>1, <1>2, <1>3

(***************************************************************************)
(* The theorems.                                                           *)
(***************************************************************************)

\* No step of any disciplined program gives a destructor more to do, and every
\* step of a destructor is one of the 3n + m that n instances with m members
\* have: destruction cannot go on for ever, however chains, cycles and the
\* bodies of destructors hang together.
THEOREM DestructionIsBounded ==
  ASSUME Disciplined
  PROVE  Spec => WorkOnlyShrinks
<1>1. IInv /\ [Next]_vars => [WorkStep]_vars
  BY StepWorks
<1> QED
  BY <1>1, InvariantHolds, PTL DEF Spec, WorkOnlyShrinks

\* release_shared is nested as often as instances are being destroyed, no
\* deeper: it is never entered twice for one.
THEOREM NestingIsBounded ==
  ASSUME Disciplined
  PROVE  Spec => []OneCallPerDestruction
<1>1. IInv => OneCallPerDestruction
  BY CallsAreDestructions
<1> QED
  BY <1>1, InvariantHolds, PTL
=============================================================================
