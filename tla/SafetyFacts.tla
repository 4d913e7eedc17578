------------------------------ MODULE SafetyFacts ------------------------------
(***************************************************************************)
(* Lemmas about the invariant of module Safety: the sets of owners and     *)
(* observers, what a variable that holds a block can rely on, and the      *)
(* calls in progress.                                                      *)
(***************************************************************************)
EXTENDS Safety, SmartPtrProofs, FiniteSetTheorems

(***************************************************************************)
(* Owners and observers: finite sets, no larger than the counters allow.   *)
(***************************************************************************)
LEMMA OwnersFinite ==
  ASSUME EnoughCounters, NEW b
  PROVE  /\ IsFiniteSet(Owners(b))
         /\ Cardinality(Owners(b)) \in 0 .. MaxCount
         /\ \A v \in SharedVar : v \notin Owners(b) => Cardinality(Owners(b)) < MaxCount
<1>1. IsFiniteSet(SharedVar)
  BY FS_Subset DEF EnoughCounters, Var
<1>2. Owners(b) \subseteq SharedVar
  BY DEF Owners
<1>3. IsFiniteSet(Owners(b)) /\ Cardinality(Owners(b)) <= Cardinality(SharedVar)
  BY <1>1, <1>2, FS_Subset
<1>4. Cardinality(Owners(b)) \in Nat /\ Cardinality(SharedVar) \in Nat
  BY <1>1, <1>3, FS_CardinalityType
<1>5. ASSUME NEW v \in SharedVar, v \notin Owners(b)
      PROVE  Cardinality(Owners(b)) < MaxCount
  <2>1. Owners(b) \cup {v} \subseteq SharedVar
    BY <1>2
  <2>2. Cardinality(Owners(b) \cup {v}) <= Cardinality(SharedVar)
    BY <1>1, <2>1, FS_Subset
  <2>3. Cardinality(Owners(b) \cup {v}) = Cardinality(Owners(b)) + 1
    BY <1>3, <1>5, FS_AddElement
  <2> QED
    BY <1>4, <2>2, <2>3, CountAssumption DEF EnoughCounters
<1> QED
  BY <1>3, <1>4, <1>5, CountAssumption DEF EnoughCounters

LEMMA ObserversFinite ==
  ASSUME EnoughCounters, NEW b
  PROVE  /\ IsFiniteSet(Observers(b))
         /\ Cardinality(Observers(b)) \in Nat
         /\ Cardinality(Observers(b)) + 1 <= MaxCount
         /\ \A w \in WeakVar : w \notin Observers(b) => Cardinality(Observers(b)) + 1 < MaxCount
<1>1. IsFiniteSet(WeakVar)
  BY FS_Subset DEF EnoughCounters, Var
<1>2. Observers(b) \subseteq WeakVar
  BY DEF Observers
<1>3. IsFiniteSet(Observers(b)) /\ Cardinality(Observers(b)) <= Cardinality(WeakVar)
  BY <1>1, <1>2, FS_Subset
<1>4. Cardinality(Observers(b)) \in Nat /\ Cardinality(WeakVar) \in Nat
  BY <1>1, <1>3, FS_CardinalityType
<1>5. ASSUME NEW w \in WeakVar, w \notin Observers(b)
      PROVE  Cardinality(Observers(b)) + 1 < MaxCount
  <2>1. Observers(b) \cup {w} \subseteq WeakVar
    BY <1>2
  <2>2. Cardinality(Observers(b) \cup {w}) <= Cardinality(WeakVar)
    BY <1>1, <2>1, FS_Subset
  <2>3. Cardinality(Observers(b) \cup {w}) = Cardinality(Observers(b)) + 1
    BY <1>3, <1>5, FS_AddElement
  <2> QED
    BY <1>4, <2>2, <2>3, CountAssumption DEF EnoughCounters
<1> QED
  BY <1>3, <1>4, <1>5, CountAssumption DEF EnoughCounters

(***************************************************************************)
(* What the invariant says of a variable that holds a block.               *)
(***************************************************************************)
LEMMA OwnerHolds ==
  ASSUME EnoughCounters, CountInv, LifeInv, NEW b \in Block, NEW v \in Owners(b)
  PROVE  /\ mStrong[b] > 0
         /\ inst[b] = "live"
         /\ mem[b] = "held"
<1>1. Cardinality(Owners(b)) # 0
  BY OwnersFinite, FS_EmptySet
<1>2. mStrong[b] > 0
  BY <1>1, OwnersFinite DEF CountInv
<1> QED
  BY <1>2 DEF LifeInv

LEMMA ObserverHolds ==
  ASSUME EnoughCounters, CountInv, NEW b \in Block, NEW w \in Observers(b)
  PROVE  mWeak[b] > 0
<1>1. Cardinality(Observers(b)) # 0
  BY ObserversFinite, FS_EmptySet
<1> QED
  BY <1>1, ObserversFinite DEF CountInv, Temporary

\* A variable that is not being released owns what it holds.
LEMMA HolderOwns ==
  ASSUME IInv, EnoughCounters, NEW v \in SharedVar, v \notin Releasing, mHandle[v] # NULL
  PROVE  /\ mHandle[v] \in Block
         /\ v \in Owners(mHandle[v])
         /\ mStrong[mHandle[v]] > 0
         /\ inst[mHandle[v]] = "live"
         /\ mem[mHandle[v]] = "held"
<1>1. mHandle[v] \in Block
  BY ResetPtrType DEF IInv, Var, Handle
<1>2. v \in Owners(mHandle[v])
  BY DEF Owners
<1> QED
  BY <1>1, <1>2, OwnerHolds DEF IInv

LEMMA NothingDangles ==
  ASSUME IInv, NEW x \in Var
  PROVE  ~ Dangling(mHandle[x])
  BY DEF IInv, VarInv, Dangling

(***************************************************************************)
(* Frames.                                                                 *)
(***************************************************************************)
LEMMA FrameType ==
  ASSUME TypeOK, NEW i \in Depth
  PROVE  /\ Depth = 1 .. Len(stack) /\ Len(stack) \in Nat
         /\ stack[i] \in Frame
         /\ stack[i].blk \in Block
         /\ stack[i].var \in SharedVar
         /\ stack[i].then \in Then
         /\ stack[i].arg \in Operand(stack[i].then)
         /\ stack[i].keep \subseteq SharedVar
<1>1. Depth = 1 .. Len(stack) /\ Len(stack) \in Nat
  BY LenProperties DEF Depth, TypeOK, HandleTypeOK
<1>2. stack[i] \in Frame
  BY <1>1, ElementOfSeq DEF TypeOK, HandleTypeOK
<1> QED
  BY <1>1, <1>2 DEF Frame

LEMMA OperandsAreShared ==
  ASSUME TypeOK, NEW i \in Depth
  PROVE  /\ OperandsOf(i) \subseteq SharedVar
         /\ stack[i].var \in OperandsOf(i)
         /\ stack[i].then \in {"copy", "move"} => stack[i].arg \in OperandsOf(i)
  BY FrameType DEF OperandsOf, Operands, Operand

\* A root kept for a call owns what it holds.
LEMMA KeptOwns ==
  ASSUME IInv, EnoughCounters, NEW i \in Depth, NEW r \in stack[i].keep, mHandle[r] # NULL
  PROVE  inst[mHandle[r]] = "live"
<1>1. r \in SharedVar /\ r \in Kept
  BY FrameType DEF IInv, Kept
<1>2. r \notin Releasing
  BY <1>1 DEF IInv, KeepInv
<1> QED
  BY <1>1, <1>2, HolderOwns

\* No call in progress uses a member of the instance that is being taken apart.
LEMMA MembersAreFree ==
  ASSUME IInv, EnoughCounters, stack # <<>>,
         NEW x, Owner[x] = Top.blk, NEW i \in Depth
  PROVE  x \notin OperandsOf(i)
<1> SUFFICES ASSUME x \in OperandsOf(i)
             PROVE  FALSE
  OBVIOUS
<1>1. Len(stack) \in Depth /\ i <= Len(stack) /\ i \in Nat
  BY FrameType, TopFrame DEF IInv
<1>2. Top.blk \in Block /\ inst[Top.blk] = "dying" /\ Top.blk # NULL
  BY <1>1, FrameType, BlockAssumption DEF IInv, FrameInv, Top
<1>3. Outlives(i, x)
  BY DEF IInv, OperandInv
<1>4. CASE \E j \in Depth : j < i /\ stack[j].blk = Owner[x]
  <2>1. PICK j \in Depth : j < i /\ stack[j].blk = Top.blk
    BY <1>4
  <2>2. j = Len(stack)
    BY <1>1, <2>1 DEF IInv, FrameInv, Top
  <2> QED
    BY <1>1, <2>1, <2>2
<1>5. CASE \E r \in stack[i].keep : mHandle[r] = Owner[x]
  BY <1>2, <1>5, KeptOwns
<1> QED
  BY <1>2, <1>3, <1>4, <1>5 DEF Outlives

(***************************************************************************)
(* A step that leaves the calls in progress alone, or only ends the        *)
(* innermost ones, preserves what the invariant says of them.              *)
(***************************************************************************)
FramesLeft ==
  /\ Len(stack') <= Len(stack)
  /\ \A i \in 1 .. Len(stack') :
       /\ stack'[i].blk = stack[i].blk
       /\ stack'[i].var = stack[i].var
       /\ stack'[i].then = stack[i].then
       /\ stack'[i].arg = stack[i].arg
       /\ stack'[i].keep = stack[i].keep

LEMMA FramesPreserved ==
  ASSUME IInv, TypeOK', FramesLeft,
         \A b \in Block : inst'[b] = "dying" => \E i \in 1 .. Len(stack') : stack[i].blk = b,
         \A i \in 1 .. Len(stack') :
           /\ inst'[stack[i].blk] = "dying"
           /\ mHandle'[stack[i].var] = mHandle[stack[i].var]
           /\ \A r \in stack[i].keep : mHandle'[r] = mHandle[r] /\ r \in scope'
           /\ OperandsOf(i) \subseteq scope'
           /\ stack[i].then = "adopt" =>
                inst'[stack[i].arg] = "live" /\ mem'[stack[i].arg] = "none"
  PROVE  /\ FrameInv' /\ OperandInv' /\ SourceInv' /\ KeepInv' /\ AdoptInv'
         /\ Releasing' = {stack[i].var : i \in 1 .. Len(stack')}
         /\ Releasing' \subseteq Releasing
<1>1. /\ Depth = 1 .. Len(stack) /\ Len(stack) \in Nat
      /\ Depth' = 1 .. Len(stack') /\ Len(stack') \in Nat
  BY LenProperties DEF Depth, IInv, TypeOK, HandleTypeOK
<1>2. Depth' \subseteq Depth
  BY <1>1 DEF FramesLeft
<1>3. Releasing' = {stack[i].var : i \in 1 .. Len(stack')} /\ Releasing' \subseteq Releasing
  BY <1>1, <1>2 DEF FramesLeft, Releasing
<1>4. FrameInv'
  BY <1>1, <1>2 DEF FramesLeft, IInv, FrameInv
<1>5. OperandInv'
  <2> SUFFICES ASSUME NEW i \in Depth', NEW x \in OperandsOf(i)'
               PROVE  x \in scope' /\ Outlives(i, x)'
    BY DEF OperandInv
  <2>1. i \in Depth /\ x \in OperandsOf(i)
    BY <1>1, <1>2 DEF FramesLeft, OperandsOf, Operands
  <2>2. x \in scope'
    BY <1>1, <2>1
  <2>3. Outlives(i, x)
    BY <2>1 DEF IInv, OperandInv
  <2>4. CASE \E j \in Depth : j < i /\ stack[j].blk = Owner[x]
    <3>1. PICK j \in Depth : j < i /\ stack[j].blk = Owner[x]
      BY <2>4
    <3>2. j \in Depth'
      BY <1>1, <3>1
    <3> QED
      BY <1>1, <2>2, <3>1, <3>2 DEF FramesLeft, Outlives
  <2>5. CASE \E r \in stack[i].keep : mHandle[r] = Owner[x]
    BY <1>1, <2>2, <2>5 DEF FramesLeft, Outlives
  <2> QED
    BY <2>2, <2>3, <2>4, <2>5 DEF Outlives
<1>6. SourceInv'
  <2> SUFFICES ASSUME NEW i \in Depth', stack'[i].then \in {"copy", "move"}
               PROVE  /\ \A j \in Depth' : j <= i => stack'[i].arg # stack'[j].var
                      /\ stack'[i].then = "move" =>
                           \A j \in Depth' : j < i => stack'[i].arg \notin stack'[j].keep
    <3>1. ASSUME NEW i \in Depth', stack'[i].then = "destroy", NEW j \in Depth', j < i
          PROVE  stack'[i].var \notin OperandsOf(j)'
      <4>1. OperandsOf(j)' = OperandsOf(j)
        BY <1>1 DEF FramesLeft, OperandsOf, Operands
      <4> QED
        BY <1>1, <1>2, <3>1, <4>1 DEF FramesLeft, IInv, SourceInv
    <3> QED
      BY <3>1 DEF SourceInv
  <2> QED
    BY <1>1, <1>2 DEF FramesLeft, IInv, SourceInv
<1>7. KeepInv'
  <2> SUFFICES ASSUME NEW i \in Depth', NEW r \in stack'[i].keep
               PROVE  r \in scope' /\ r \notin Releasing' /\ Owner[r] = NULL
    BY DEF KeepInv, Kept
  <2>1. r \in stack[i].keep /\ i \in Depth
    BY <1>1, <1>2 DEF FramesLeft
  <2>2. r \in Kept
    BY <2>1 DEF Kept
  <2> QED
    BY <1>1, <1>3, <2>1, <2>2 DEF IInv, KeepInv
<1>8. AdoptInv'
  <2>1. \A i \in Depth' : stack'[i].then = "adopt" =>
          inst'[stack'[i].arg] = "live" /\ mem'[stack'[i].arg] = "none"
    BY <1>1 DEF FramesLeft
  <2>2. \A i, j \in Depth' :
          stack'[i].then = "adopt" /\ stack'[j].then = "adopt" /\ stack'[i].arg = stack'[j].arg => i = j
    BY <1>1, <1>2 DEF FramesLeft, IInv, AdoptInv
  <2> QED
    BY <2>1, <2>2 DEF AdoptInv
<1> QED
  BY <1>3, <1>4, <1>5, <1>6, <1>7, <1>8

\* The usual case: the stack does not change and no destruction begins or ends.
LEMMA FramesUnchanged ==
  ASSUME IInv, TypeOK', UNCHANGED stack,
         \A b \in Block : inst'[b] = "dying" <=> inst[b] = "dying",
         \A v \in Releasing : mHandle'[v] = mHandle[v],
         \A r \in Kept : mHandle'[r] = mHandle[r] /\ r \in scope',
         \A i \in Depth : OperandsOf(i) \subseteq scope',
         \A b \in Block : inst[b] = "live" /\ mem[b] = "none"
                            /\ (\E i \in Depth : stack[i].then = "adopt" /\ stack[i].arg = b) =>
                          inst'[b] = "live" /\ mem'[b] = "none"
  PROVE  /\ FrameInv' /\ OperandInv' /\ SourceInv' /\ KeepInv' /\ AdoptInv'
         /\ Releasing' = Releasing
<1>1. Depth = 1 .. Len(stack) /\ Len(stack) \in Nat
  BY LenProperties DEF Depth, IInv, TypeOK, HandleTypeOK
<1>2. FramesLeft
  BY <1>1 DEF FramesLeft
<1>3. Len(stack') = Len(stack)
  OBVIOUS
<1>4. \A b \in Block : inst'[b] = "dying" => \E i \in 1 .. Len(stack') : stack[i].blk = b
  BY <1>1, <1>3 DEF IInv, FrameInv
<1>5. ASSUME NEW i \in 1 .. Len(stack')
      PROVE  /\ inst'[stack[i].blk] = "dying"
             /\ mHandle'[stack[i].var] = mHandle[stack[i].var]
             /\ \A r \in stack[i].keep : mHandle'[r] = mHandle[r] /\ r \in scope'
             /\ OperandsOf(i) \subseteq scope'
             /\ stack[i].then = "adopt" =>
                  inst'[stack[i].arg] = "live" /\ mem'[stack[i].arg] = "none"
  <2>1. i \in Depth
    BY <1>1, <1>3
  <2>2. inst'[stack[i].blk] = "dying"
    BY <2>1, FrameType DEF IInv, FrameInv
  <2>3. stack[i].var \in Releasing /\ stack[i].keep \subseteq Kept
    BY <2>1 DEF Releasing, Kept
  <2>4. ASSUME stack[i].then = "adopt"
        PROVE  inst'[stack[i].arg] = "live" /\ mem'[stack[i].arg] = "none"
    <3>1. stack[i].arg \in Block
      BY <2>1, <2>4, FrameType DEF IInv, Operand
    <3> QED
      BY <2>1, <2>4, <3>1 DEF IInv, AdoptInv
  <2> QED
    BY <2>1, <2>2, <2>3, <2>4
<1>6. Releasing' = Releasing
  BY DEF Releasing, Depth
<1> QED
  BY <1>2, <1>4, <1>5, <1>6, FramesPreserved

(***************************************************************************)
(* What the discipline says of the variables an operation works on.        *)
(***************************************************************************)

\* No call in progress holds x or counts on it.
Free(x) == x \notin Releasing /\ x \notin Kept

\* No call in progress will read x.
Closable(x) == Free(x) /\ \A i \in Depth : x \notin OperandsOf(i)

LEMMA Discipline ==
  ASSUME Liberties = {}, NEW x
  PROVE  /\ MayRead(x) => x \in scope /\ x \notin Releasing
         /\ MayWrite(x) => x \in scope /\ Free(x)
         /\ MayClose(x) => x \in scope /\ Owner[x] = NULL /\ Closable(x)
<1>1. MayRead(x) => x \in scope /\ x \notin Releasing
  BY DEF MayRead
<1>2. MayWrite(x) => x \in scope /\ Free(x)
  BY DEF MayWrite, MayRead, Free
<1>3. MayClose(x) => Closable(x)
  <2> SUFFICES ASSUME MayClose(x), NEW i \in Depth
               PROVE  x \notin OperandsOf(i)
    BY <1>2 DEF Closable, MayClose
  <2>1. x # stack[i].var
    BY <1>2 DEF MayClose, Free, Releasing
  <2>2. stack[i].then \in {"copy", "move"} => x # stack[i].arg
    BY DEF MayClose, Sources
  <2> QED
    BY <2>1, <2>2 DEF OperandsOf, Operands
<1> QED
  BY <1>1, <1>2, <1>3 DEF MayClose

LEMMA OutOfScope ==
  ASSUME IInv, NEW x \in Var, x \notin scope
  PROVE  mHandle[x] = NULL /\ Closable(x)
<1>1. mHandle[x] = NULL
  BY DEF IInv, VarInv
<1>2. x \notin Kept
  BY DEF IInv, KeepInv
<1>3. ASSUME NEW i \in Depth
      PROVE  x \notin OperandsOf(i) /\ x # stack[i].var
  BY OperandsAreShared DEF IInv, OperandInv
<1> QED
  BY <1>1, <1>2, <1>3 DEF Closable, Free, Releasing

LEMMA MemberIsClosable ==
  ASSUME IInv, EnoughCounters, stack # <<>>, NEW x, Owner[x] = Top.blk
  PROVE  Closable(x)
<1>1. Top.blk # NULL
  BY TopFrame, BlockAssumption DEF IInv, Frame
<1>2. x \notin Kept
  BY <1>1 DEF IInv, KeepInv
<1>3. \A i \in Depth : x \notin OperandsOf(i)
  BY MembersAreFree
<1>4. x \notin Releasing
  BY <1>3, OperandsAreShared DEF IInv, Releasing
<1> QED
  BY <1>2, <1>3, <1>4 DEF Closable, Free

(***************************************************************************)
(* What every step must establish, types and pointers apart.               *)
(***************************************************************************)
CallsInv == FrameInv /\ OperandInv /\ SourceInv /\ KeepInv /\ AdoptInv

StepSafe ==
  /\ fault' = "none"
  /\ VarInv'
  /\ CountInv'
  /\ LifeInv'
  /\ CallsInv'
  /\ SelfInv'
  /\ LifeStep

\* An operation that leaves the stack alone changes the blocks only of free
\* variables, takes only closable ones out of scope and adopts a raw instance.
LEMMA CallsGoOn ==
  ASSUME IInv, TypeOK', UNCHANGED stack,
         \A b \in Block : inst'[b] = "dying" <=> inst[b] = "dying",
         \A x \in Var : ~ Free(x) => mHandle'[x] = mHandle[x],
         \A x \in scope : ~ Closable(x) => x \in scope',
         \A b \in Block : inst[b] = "live" /\ mem[b] = "none" =>
           \/ inst'[b] = "live" /\ mem'[b] = "none"
           \/ Raw(b)
  PROVE  CallsInv' /\ Releasing' = Releasing
<1>1. ASSUME NEW i \in Depth
      PROVE  OperandsOf(i) \subseteq scope'
  BY <1>1 DEF IInv, OperandInv, Closable
<1>2. \A v \in Releasing : mHandle'[v] = mHandle[v]
  <2> SUFFICES ASSUME NEW v \in Releasing
               PROVE  mHandle'[v] = mHandle[v]
    OBVIOUS
  <2>1. v \in Var
    BY FrameType DEF IInv, Releasing, Var
  <2> QED
    BY <2>1 DEF Free
<1>3. ASSUME NEW r \in Kept
      PROVE  mHandle'[r] = mHandle[r] /\ r \in scope'
  <2>1. r \in Var
    BY FrameType DEF IInv, Kept, Var
  <2> QED
    BY <2>1 DEF Free, Closable, IInv, KeepInv
<1>4. ASSUME NEW b \in Block, inst[b] = "live", mem[b] = "none",
             \E i \in Depth : stack[i].then = "adopt" /\ stack[i].arg = b
      PROVE  inst'[b] = "live" /\ mem'[b] = "none"
  BY <1>4 DEF Raw
<1> QED
  BY <1>1, <1>2, <1>3, <1>4, FramesUnchanged DEF CallsInv

(***************************************************************************)
(* One element more, one less, one instead of another.                     *)
(***************************************************************************)
LEMMA Replaced ==
  ASSUME NEW S, IsFiniteSet(S), NEW x \in S, NEW y, y \notin S \ {x}
  PROVE  Cardinality((S \ {x}) \cup {y}) = Cardinality(S)
<1>1. IsFiniteSet(S \ {x}) /\ Cardinality(S \ {x}) = Cardinality(S) - 1
  BY FS_RemoveElement
<1>2. Cardinality((S \ {x}) \cup {y}) = Cardinality(S \ {x}) + 1
  BY <1>1, FS_AddElement
<1> QED
  BY <1>1, <1>2, FS_CardinalityType

\* Two elements that exchange their places leave a set as large as it was.
LEMMA Exchanged ==
  ASSUME NEW F, IsFiniteSet(F), NEW G, NEW v, NEW u,
         v \in G <=> u \in F,
         u \in G <=> v \in F,
         \A x : x \notin {v, u} => (x \in G <=> x \in F)
  PROVE  Cardinality(G) = Cardinality(F)
<1>1. CASE v \in F <=> u \in F
  <2>1. G = F
    BY <1>1
  <2> QED
    BY <2>1
<1>2. CASE v \in F /\ u \notin F
  <2>1. G = (F \ {v}) \cup {u}
    BY <1>2
  <2> QED
    BY <1>2, <2>1, Replaced
<1>3. CASE v \notin F /\ u \in F
  <2>1. G = (F \ {u}) \cup {v}
    BY <1>3
  <2> QED
    BY <1>3, <2>1, Replaced
<1> QED
  BY <1>1, <1>2, <1>3
=============================================================================
