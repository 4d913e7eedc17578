---------------------------- MODULE SmartPtrProofs -----------------------------
(***************************************************************************)
(* Theorems about SmartPtr, for any instances, variables, widths of the    *)
(* counters and, except where a theorem says otherwise, any program.       *)
(***************************************************************************)
EXTENDS SmartPtr, SequenceTheorems, TLAPS

(***************************************************************************)
(* The counting operators return counts, and the ones on memory a state of *)
(* memory, also at the limits of the counter.                              *)
(***************************************************************************)
LEMMA StepOfCount == \A n \in Count : Inc(n) \in Count /\ Dec(n) \in Count
  BY CountAssumption DEF Count, Inc, Dec

LEMMA StrongCountType ==
  ASSUME NEW s \in [Block -> Count], NEW h \in Handle
  PROVE  /\ add_shared(s, h) \in [Block -> Count]
         /\ release_shared(s, h) \in [Block -> Count]
  BY StepOfCount DEF add_shared, release_shared, Handle

LEMMA WeakCountType ==
  ASSUME NEW w \in [Block -> Count], NEW h \in Handle
  PROVE  /\ add_weak(w, h) \in [Block -> Count]
         /\ release_weak(w, h) \in [Block -> Count]
  BY StepOfCount DEF add_weak, release_weak, Handle

LEMMA MemoryType ==
  ASSUME NEW s, NEW w, NEW m \in [Block -> MemState], NEW h
  PROVE  /\ adjust(s, w, m, h) \in [Block -> MemState]
         /\ release_weak_mem(s, w, m, h) \in [Block -> MemState]
  BY DEF adjust, release_weak_mem, MemState

LEMMA ResetPtrType ==
  ASSUME TypeOK, NEW x \in Var
  PROVE  mHandle[x] \in Handle /\ mPtr[x] \in Handle /\ ResetPtr(x) \in Handle
  BY DEF TypeOK, HandleTypeOK, ResetPtr, Handle

LEMMA SharedFromThisDataType ==
  ASSUME TypeOK, NEW tracks, NEW p, NEW h \in Handle
  PROVE  set_shared_from_this(tracks, p, h) \in [Block -> Handle]
  BY DEF TypeOK, HandleTypeOK, set_shared_from_this

(***************************************************************************)
(* The building blocks of the actions preserve the types.                  *)
(***************************************************************************)
LEMMA IncomingType ==
  ASSUME TypeOK, NEW v \in SharedVar, NEW then \in Then, NEW arg \in Operand(then)
  PROVE  Incoming(then, arg) \in Handle /\ IncomingPtr(v, then, arg) \in Handle
<1>1. CASE then \in {"copy", "move"}
  <2>1. arg \in Var /\ v \in Var
    BY <1>1 DEF Operand, Var
  <2> QED
    BY <1>1, <2>1, ResetPtrType DEF Incoming, IncomingPtr
<1>2. CASE then = "adopt"
  BY <1>2 DEF Operand, Incoming, IncomingPtr, Handle
<1>3. CASE then \in {"destroy", "reset"}
  <2>1. v \in Var
    BY DEF Var
  <2> QED
    BY <1>3, <2>1, ResetPtrType DEF Incoming, IncomingPtr, Handle
<1> QED
  BY <1>1, <1>2, <1>3 DEF Then

LEMMA CompleteType ==
  ASSUME TypeOK,
         NEW v \in SharedVar, NEW then \in Then, NEW arg \in Operand(then),
         NEW s \in [Block -> Count], NEW m \in [Block -> MemState],
         Complete(v, then, arg, s, m)
  PROVE  /\ mStrong' \in [Block -> Count]
         /\ mem' \in [Block -> MemState]
         /\ mHandle' \in [Var -> Handle]
         /\ mPtr' \in [Var -> Handle]
         /\ scope' \in SUBSET Var
         /\ shared_from_this_data' \in [Block -> Handle]
<1>1. Incoming(then, arg) \in Handle /\ IncomingPtr(v, then, arg) \in Handle
  BY IncomingType
<1>2. v \in Var
  BY DEF Var
<1>3. mStrong' \in [Block -> Count]
  <2>1. 1 \in Count
    BY CountAssumption DEF Count
  <2> QED
    BY <1>1, <2>1, StrongCountType DEF Complete, constructed
<1>4. mem' \in [Block -> MemState]
  BY DEF Complete, MemState
<1>5. mHandle' \in [Var -> Handle]
  BY <1>1, ResetPtrType DEF Complete, Handle
<1>6. mPtr' \in [Var -> Handle]
  BY <1>1, <1>2, ResetPtrType DEF Complete
<1>7. scope' \in SUBSET Var
  BY DEF Complete, TypeOK, HandleTypeOK
<1>8. shared_from_this_data' \in [Block -> Handle]
  <2>1. CASE then = "adopt"
    BY <2>1, SharedFromThisDataType DEF Complete, Operand, Handle
  <2>2. CASE then # "adopt"
    BY <2>2 DEF Complete, set_shared_from_this, TypeOK, HandleTypeOK
  <2> QED
    BY <2>1, <2>2
<1> QED
  BY <1>3, <1>4, <1>5, <1>6, <1>7, <1>8

LEMMA CompleteFaultType ==
  ASSUME NEW v, NEW then, NEW arg, NEW m
  PROVE  CompleteFault(v, then, arg, m) \in Faults
  BY DEF CompleteFault, Faults

LEMMA ReleaseType ==
  ASSUME TypeOK,
         NEW v \in SharedVar, NEW then \in Then, NEW arg \in Operand(then),
         Release(v, then, arg)
  PROVE  TypeOK'
<1>1. v \in Var /\ mHandle[v] \in Handle
  BY ResetPtrType DEF Var
<1>2. CASE LastReference(mHandle[v]) /\ BeginDestruction(v, then, arg)
  <2>1. mHandle[v] \in Block
    BY <1>1, <1>2 DEF LastReference, Handle
  <2>2. BlockTypeOK'
    <3>1. 0 \in Count
      BY CountAssumption DEF Count
    <3> QED
      BY <1>2, <2>1, <3>1, StepOfCount
      DEF BeginDestruction, release_last, TypeOK, BlockTypeOK, InstState
  <2>3. stack' \in Seq(Frame)
    <3> DEFINE f == [blk |-> mHandle[v], var |-> v, then |-> then, arg |-> arg, body |-> TRUE,
                     keep |-> UNION {Keepers(v, x) : x \in Operands(v, then, arg)}]
    <3>1. f.keep \in SUBSET SharedVar
      BY DEF Keepers
    <3>2. arg \in SharedVar \cup Handle
      BY DEF Operand, Handle
    <3>3. f \in Frame
      BY <2>1, <3>1, <3>2 DEF Frame
    <3>4. stack' = Append(stack, f)
      BY <1>2 DEF BeginDestruction
    <3> QED
      BY <3>3, <3>4, AppendProperties DEF TypeOK, HandleTypeOK
  <2>4. fault' \in Faults
    BY <1>2 DEF BeginDestruction, Faults
  <2> QED
    BY <1>2, <2>2, <2>3, <2>4 DEF BeginDestruction, handleVars, TypeOK, HandleTypeOK
<1>3. CASE /\ ~ LastReference(mHandle[v])
           /\ Complete(v, then, arg, release_shared(mStrong, mHandle[v]), mem)
           /\ fault' = IF Dangling(mHandle[v]) THEN "freed_block"
                       ELSE CompleteFault(v, then, arg, mem)
           /\ UNCHANGED <<mWeak, inst, stack>>
  <2>1. release_shared(mStrong, mHandle[v]) \in [Block -> Count]
    BY <1>1, StrongCountType DEF TypeOK, BlockTypeOK
  <2>2. mem \in [Block -> MemState]
    BY DEF TypeOK, BlockTypeOK
  <2>3. fault' \in Faults
    BY <1>3, CompleteFaultType DEF Faults
  <2> QED
    BY <1>3, <2>1, <2>2, <2>3, CompleteType DEF TypeOK, BlockTypeOK, HandleTypeOK
<1> QED
  BY <1>2, <1>3 DEF Release

LEMMA PrivateCtorType ==
  ASSUME TypeOK,
         NEW v \in SharedVar, NEW h \in Handle, NEW p \in Handle, NEW tracks \in BOOLEAN,
         PrivateCtor(v, h, p, tracks)
  PROVE  TypeOK'
<1>1. BlockTypeOK'
  BY StrongCountType DEF PrivateCtor, TypeOK, BlockTypeOK
<1>2. shared_from_this_data' \in [Block -> Handle]
  BY SharedFromThisDataType DEF PrivateCtor
<1>3. fault' \in Faults
  BY DEF PrivateCtor, Faults
<1> QED
  BY <1>1, <1>2, <1>3 DEF PrivateCtor, TypeOK, HandleTypeOK, Var

LEMMA UpdateType ==
  ASSUME TypeOK,
         NEW w \in WeakVar, NEW p \in Handle, NEW h \in Handle, NEW extent \in SUBSET Var,
         Update(w, p, h, extent)
  PROVE  TypeOK'
<1>1. w \in Var /\ mHandle[w] \in Handle /\ ResetPtr(w) \in Handle
  BY ResetPtrType DEF Var
<1>2. mWeak' \in [Block -> Count]
  <2>1. weak_reset(w) \in [Block -> Count]
    BY <1>1, WeakCountType DEF weak_reset, TypeOK, BlockTypeOK
  <2> QED
    BY <2>1, WeakCountType DEF Update
<1>3. mem' \in [Block -> MemState]
  BY MemoryType DEF Update, mem_reset, TypeOK, BlockTypeOK
<1>4. mHandle' \in [Var -> Handle] /\ mPtr' \in [Var -> Handle]
  BY <1>1 DEF Update, TypeOK, HandleTypeOK, Handle
<1>5. fault' \in Faults
  BY DEF Update, Faults
<1> QED
  BY <1>2, <1>3, <1>4, <1>5 DEF Update, TypeOK, BlockTypeOK, HandleTypeOK

(***************************************************************************)
(* Every step preserves the types, action by action.                       *)
(***************************************************************************)
LEMMA InitType == Init => TypeOK
  BY EmptySeq, CountAssumption
  DEF Init, BlockInit, HandleInit, TypeOK, BlockTypeOK, HandleTypeOK,
      Count, MemState, InstState, Handle, Faults

LEMMA InstanceStepType == TypeOK /\ InstanceStep => TypeOK'
<1> SUFFICES ASSUME TypeOK, InstanceStep
             PROVE  TypeOK'
  OBVIOUS
<1> USE DEF TypeOK, BlockTypeOK, HandleTypeOK
<1>1. ASSUME NEW b \in Block, New(b)
      PROVE  TypeOK'
  BY <1>1 DEF New, InstState, Members
<1>2. ASSUME NEW b \in Block, MakeSharedThrows(b)
      PROVE  TypeOK'
  BY <1>2 DEF MakeSharedThrows, MemState, handleVars
<1>3. ASSUME NEW b \in Block, NEW c \in Block, CopyInstance(b, c)
      PROVE  TypeOK'
  BY <1>3 DEF CopyInstance, blockVars
<1>4. ASSUME NEW b \in Block, NEW v \in SharedVar, AdoptCtor(v, b) \/ MakeShared(v, b)
      PROVE  TypeOK'
  <2>1. 1 \in Count
    BY CountAssumption DEF Count
  <2>2. shared_from_this_data' \in [Block -> Handle]
    BY <1>4, SharedFromThisDataType DEF AdoptCtor, MakeShared, Handle
  <2>3. mHandle' \in [Var -> Handle] /\ mPtr' \in [Var -> Handle] /\ scope' \in SUBSET Var
    BY <1>4 DEF AdoptCtor, MakeShared, Members, Handle, Var
  <2>4. inst' \in [Block -> InstState] /\ mem' \in [Block -> MemState]
    BY <1>4 DEF AdoptCtor, MakeShared, InstState, MemState
  <2> QED
    BY <1>4, <2>1, <2>2, <2>3, <2>4 DEF AdoptCtor, MakeShared, constructed
<1>5. ASSUME NEW b \in Block, NEW v \in SharedVar, SharedFromThis(v, b)
      PROVE  TypeOK'
  <2>1. CASE DefaultCtor(v)
    BY <2>1 DEF DefaultCtor, blockVars, Var
  <2>2. CASE PrivateCtor(v, shared_from_this_data[b], b, TRUE)
    <3>1. shared_from_this_data[b] \in Handle /\ b \in Handle
      BY DEF Handle
    <3> QED
      BY <2>2, <3>1, PrivateCtorType
  <2> QED
    BY <1>5, <2>1, <2>2 DEF SharedFromThis
<1> QED
  BY <1>1, <1>2, <1>3, <1>4, <1>5 DEF InstanceStep

LEMMA SharedStepType == TypeOK /\ SharedStep => TypeOK'
<1> SUFFICES ASSUME TypeOK, NEW v \in SharedVar,
                    \/ DefaultCtor(v) \/ Destroy(v) \/ Reset(v)
                    \/ \E b \in Block : ResetTo(v, b)
                    \/ \E u \in SharedVar :
                         \/ CopyCtor(v, u) \/ MoveCtor(v, u)
                         \/ PointerCast(v, u) \/ DynamicCastFails(v, u)
                         \/ CopyAssign(v, u) \/ MoveAssign(v, u) \/ Swap(v, u)
             PROVE  TypeOK'
  BY DEF SharedStep
<1>1. CASE DefaultCtor(v)
  BY <1>1 DEF DefaultCtor, blockVars, Var, TypeOK, BlockTypeOK, HandleTypeOK
<1>2. CASE Destroy(v) \/ Reset(v)
  BY <1>2, ReleaseType DEF Destroy, Reset, Then, Operand
<1>3. ASSUME NEW b \in Block, ResetTo(v, b)
      PROVE  TypeOK'
  BY <1>3, ReleaseType DEF ResetTo, Then, Operand
<1>4. ASSUME NEW u \in SharedVar, CopyAssign(v, u) \/ MoveAssign(v, u)
      PROVE  TypeOK'
  BY <1>4, ReleaseType DEF CopyAssign, MoveAssign, Then, Operand
<1>5. ASSUME NEW u \in SharedVar, CopyCtor(v, u) \/ PointerCast(v, u) \/ DynamicCastFails(v, u)
      PROVE  TypeOK'
  <2>1. mHandle[u] \in Handle /\ mPtr[u] \in Handle /\ NULL \in Handle
    BY ResetPtrType DEF Var, Handle
  <2>2. FALSE \in BOOLEAN /\ (v \in TrackingVar) \in BOOLEAN
    OBVIOUS
  <2> QED
    BY <1>5, <2>1, <2>2, PrivateCtorType DEF CopyCtor, PointerCast, DynamicCastFails
<1>6. ASSUME NEW u \in SharedVar, MoveCtor(v, u) \/ Swap(v, u)
      PROVE  TypeOK'
  <2>1. v \in Var /\ u \in Var /\ NULL \in Handle
    BY DEF Var, Handle
  <2> QED
    BY <1>6, <2>1 DEF MoveCtor, Swap, blockVars, TypeOK, BlockTypeOK, HandleTypeOK
<1> QED
  BY <1>1, <1>2, <1>3, <1>4, <1>5, <1>6

LEMMA WeakStepType == TypeOK /\ WeakStep => TypeOK'
<1> SUFFICES ASSUME TypeOK, NEW w \in WeakVar,
                    \/ WeakDefaultCtor(w) \/ WeakDestroy(w) \/ WeakReset(w)
                    \/ \E x \in WeakVar :
                         \/ WeakCopyCtor(w, x) \/ WeakMoveCtor(w, x)
                         \/ WeakCopyAssign(w, x) \/ WeakMoveAssign(w, x)
                    \/ \E v \in SharedVar :
                         WeakFromShared(w, v) \/ WeakAssignShared(w, v) \/ Lock(v, w)
             PROVE  TypeOK'
  BY DEF WeakStep
<1>1. /\ w \in Var /\ NULL \in Handle
      /\ scope \in SUBSET Var
      /\ scope \cup {w} \in SUBSET Var
      /\ scope \ {w} \in SUBSET Var
  BY DEF TypeOK, HandleTypeOK, Var, Handle
<1>2. \A x \in Var : mHandle[x] \in Handle /\ mPtr[x] \in Handle /\ ResetPtr(x) \in Handle
  BY ResetPtrType
<1>3. CASE WeakDefaultCtor(w) \/ WeakDestroy(w) \/ WeakReset(w)
  BY <1>1, <1>3, UpdateType DEF WeakDefaultCtor, WeakDestroy, WeakReset
<1>4. ASSUME NEW x \in WeakVar, WeakCopyCtor(w, x) \/ WeakCopyAssign(w, x)
      PROVE  TypeOK'
  BY <1>1, <1>2, <1>4, UpdateType DEF WeakCopyCtor, WeakCopyAssign, Var
<1>5. ASSUME NEW x \in WeakVar, WeakMoveCtor(w, x)
      PROVE  TypeOK'
  BY <1>1, <1>5 DEF WeakMoveCtor, blockVars, TypeOK, BlockTypeOK, HandleTypeOK, Var
<1>6. ASSUME NEW x \in WeakVar, WeakMoveAssign(w, x)
      PROVE  TypeOK'
  <2>1. weak_reset(w) \in [Block -> Count]
    BY <1>1, <1>2, WeakCountType DEF weak_reset, TypeOK, BlockTypeOK
  <2>2. mem_reset(w) \in [Block -> MemState]
    BY MemoryType DEF mem_reset, TypeOK, BlockTypeOK
  <2>3. mHandle' \in [Var -> Handle] /\ mPtr' \in [Var -> Handle]
    BY <1>1, <1>2, <1>6 DEF WeakMoveAssign, TypeOK, HandleTypeOK, Var
  <2>4. fault' \in Faults
    BY <1>6 DEF WeakMoveAssign, Faults
  <2> QED
    BY <1>6, <2>1, <2>2, <2>3, <2>4 DEF WeakMoveAssign, TypeOK, BlockTypeOK, HandleTypeOK
<1>7. ASSUME NEW v \in SharedVar, WeakFromShared(w, v) \/ WeakAssignShared(w, v)
      PROVE  TypeOK'
  BY <1>1, <1>2, <1>7, UpdateType DEF WeakFromShared, WeakAssignShared, Var
<1>8. ASSUME NEW v \in SharedVar, Lock(v, w)
      PROVE  TypeOK'
  <2>1. CASE LockExpired(v, w)
    <3>1. scope \cup {v} \in SUBSET Var
      BY DEF TypeOK, HandleTypeOK, Var
    <3> QED
      BY <1>1, <2>1, <3>1, UpdateType DEF LockExpired
  <2>2. CASE PrivateCtor(v, mHandle[w], mPtr[w], v \in TrackingVar)
    <3>1. (v \in TrackingVar) \in BOOLEAN
      OBVIOUS
    <3> QED
      BY <1>1, <1>2, <2>2, <3>1, PrivateCtorType
  <2> QED
    BY <1>8, <2>1, <2>2 DEF Lock
<1> QED
  BY <1>3, <1>4, <1>5, <1>6, <1>7, <1>8

LEMMA TopFrame ==
  ASSUME TypeOK, stack # <<>>
  PROVE  /\ Len(stack) \in 1 .. Len(stack)
         /\ Top \in Frame
         /\ SubSeq(stack, 1, Len(stack) - 1) \in Seq(Frame)
<1>1. Len(stack) \in Nat \ {0}
  BY EmptySeq, LenProperties DEF TypeOK, HandleTypeOK
<1>2. Top \in Frame
  BY <1>1, ElementOfSeq DEF Top, TypeOK, HandleTypeOK
<1>3. SubSeq(stack, 1, Len(stack) - 1) \in Seq(Frame)
  BY <1>1, SubSeqProperties DEF TypeOK, HandleTypeOK
<1> QED
  BY <1>1, <1>2, <1>3

LEMMA DestructorStepType == TypeOK /\ DestructorStep => TypeOK'
<1> SUFFICES ASSUME TypeOK, DestructorStep
             PROVE  TypeOK'
  OBVIOUS
<1>1. CASE EndBody
  <2>1. stack # <<>> /\ stack' = [stack EXCEPT ![Len(stack)].body = FALSE]
    BY <1>1 DEF EndBody
  <2>2. [Top EXCEPT !.body = FALSE] \in Frame
    BY <2>1, TopFrame DEF Frame
  <2>3. stack' = [stack EXCEPT ![Len(stack)] = [Top EXCEPT !.body = FALSE]]
    BY <2>1 DEF Top
  <2>4. stack' \in Seq(Frame)
    <3>1. stack \in Seq(Frame) /\ Len(stack) \in 1 .. Len(stack)
      BY <2>1, TopFrame DEF TypeOK, HandleTypeOK
    <3> QED
      BY <2>2, <2>3, <3>1, ExceptSeq
  <2> QED
    BY <1>1, <2>4 DEF EndBody, blockVars, handleVars, TypeOK, BlockTypeOK, HandleTypeOK
<1>2. ASSUME NEW v \in SharedVar, DestroySharedMember(v)
      PROVE  TypeOK'
  BY <1>2, ReleaseType DEF DestroySharedMember, Then, Operand
<1>3. ASSUME NEW w \in WeakVar, DestroyWeakMember(w)
      PROVE  TypeOK'
  <2>1. NULL \in Handle /\ scope \ {w} \in SUBSET Var
    BY DEF TypeOK, HandleTypeOK, Handle
  <2> QED
    BY <1>3, <2>1, UpdateType DEF DestroyWeakMember
<1>4. CASE Return
  <2> DEFINE f == Top
             w == [mWeak EXCEPT ![f.blk] = Dec(@)]
             m == adjust(mStrong, w, mem, f.blk)
  <2>1. /\ stack # <<>>
        /\ mWeak' = w
        /\ inst' = [inst EXCEPT ![f.blk] = "dead"]
        /\ Complete(f.var, f.then, f.arg, mStrong, m)
        /\ fault' = IF Dangling(f.blk) THEN "freed_block"
                    ELSE CompleteFault(f.var, f.then, f.arg, m)
        /\ stack' = SubSeq(stack, 1, Len(stack) - 1)
    BY <1>4 DEF Return, Unwinding
  <2>2. /\ f.blk \in Block /\ f.var \in SharedVar /\ f.then \in Then
        /\ f.arg \in Operand(f.then)
        /\ SubSeq(stack, 1, Len(stack) - 1) \in Seq(Frame)
    BY <2>1, TopFrame DEF Frame
  <2>3. w \in [Block -> Count] /\ mStrong \in [Block -> Count]
    BY <2>2, StepOfCount DEF TypeOK, BlockTypeOK
  <2>4. m \in [Block -> MemState]
    BY MemoryType DEF TypeOK, BlockTypeOK
  <2>5. inst' \in [Block -> InstState]
    BY <2>1 DEF TypeOK, BlockTypeOK, InstState
  <2>6. fault' \in Faults
    BY <2>1, CompleteFaultType DEF Faults
  <2> HIDE DEF f, w, m
  <2>7. /\ mStrong' \in [Block -> Count]
        /\ mem' \in [Block -> MemState]
        /\ mHandle' \in [Var -> Handle]
        /\ mPtr' \in [Var -> Handle]
        /\ scope' \in SUBSET Var
        /\ shared_from_this_data' \in [Block -> Handle]
    BY <2>1, <2>2, <2>3, <2>4, CompleteType
  <2> QED
    BY <2>1, <2>2, <2>3, <2>5, <2>6, <2>7 DEF TypeOK, BlockTypeOK, HandleTypeOK
<1> QED
  BY <1>1, <1>2, <1>3, <1>4 DEF DestructorStep

\* Every variable has its type in every reachable state, for any program: the
\* operations of all three classes, called in any order, also from destructors.
THEOREM TypeCorrect == Spec => []TypeOK
<1>1. Init => TypeOK
  BY InitType
<1>2. TypeOK /\ [Next]_vars => TypeOK'
  <2>1. TypeOK /\ UNCHANGED vars => TypeOK'
    BY DEF vars, blockVars, handleVars, TypeOK, BlockTypeOK, HandleTypeOK
  <2> QED
    BY <2>1, InstanceStepType, SharedStepType, WeakStepType, DestructorStepType DEF Next
<1> QED
  BY <1>1, <1>2, PTL DEF Spec

(***************************************************************************)
(* The pointer and the block of a variable.  The invariant is inductive    *)
(* with the types, and reset() is what it hangs on: a variable without a   *)
(* block is left alone by reset(), so its pointer must be null already.    *)
(***************************************************************************)
LEMMA ResetPtrIsNull ==
  ASSUME PointerMatchesBlock, NEW x \in Var
  PROVE  ResetPtr(x) = NULL
  BY DEF PointerMatchesBlock, ResetPtr

LEMMA CompletePointer ==
  ASSUME TypeOK, PointerMatchesBlock,
         NEW v \in SharedVar, NEW then \in Then, NEW arg \in Operand(then),
         NEW s, NEW m,
         Complete(v, then, arg, s, m)
  PROVE  PointerMatchesBlock'
<1>1. v \in Var /\ ResetPtr(v) = NULL
  BY ResetPtrIsNull DEF Var
<1>2. IncomingPtr(v, then, arg) \in {NULL, Incoming(then, arg)}
  <2>1. CASE then \in {"copy", "move"}
    <3>1. arg \in Var
      BY <2>1 DEF Operand, Var
    <3> QED
      BY <1>1, <2>1, <3>1 DEF Incoming, IncomingPtr, PointerMatchesBlock
  <2>2. CASE then \notin {"copy", "move"}
    BY <1>1, <2>2 DEF Incoming, IncomingPtr
  <2> QED
    BY <2>1, <2>2
<1> SUFFICES ASSUME NEW x \in Var
             PROVE  mPtr'[x] \in {NULL, mHandle'[x]}
  BY DEF PointerMatchesBlock
<1>3. CASE x = v
  BY <1>2, <1>3 DEF Complete
<1>4. CASE x # v /\ then = "move" /\ x = arg
  BY <1>1, <1>4 DEF Complete
<1>5. CASE x # v /\ ~ (then = "move" /\ x = arg)
  BY <1>5 DEF Complete, PointerMatchesBlock
<1> QED
  BY <1>3, <1>4, <1>5

LEMMA ReleasePointer ==
  ASSUME TypeOK, PointerMatchesBlock,
         NEW v \in SharedVar, NEW then \in Then, NEW arg \in Operand(then),
         Release(v, then, arg)
  PROVE  PointerMatchesBlock'
<1>1. CASE BeginDestruction(v, then, arg)
  BY <1>1 DEF BeginDestruction, handleVars, PointerMatchesBlock
<1>2. CASE Complete(v, then, arg, release_shared(mStrong, mHandle[v]), mem)
  BY <1>2, CompletePointer
<1> QED
  BY <1>1, <1>2 DEF Release

LEMMA PrivateCtorPointer ==
  ASSUME TypeOK, PointerMatchesBlock,
         NEW v \in SharedVar, NEW h, NEW p \in {NULL, h}, NEW tracks,
         PrivateCtor(v, h, p, tracks)
  PROVE  PointerMatchesBlock'
  BY DEF PrivateCtor, PointerMatchesBlock, TypeOK, HandleTypeOK

LEMMA UpdatePointer ==
  ASSUME TypeOK, PointerMatchesBlock,
         NEW w \in WeakVar, NEW h, NEW p \in {NULL, h}, NEW extent,
         Update(w, p, h, extent)
  PROVE  PointerMatchesBlock'
<1>1. w \in Var /\ ResetPtr(w) = NULL
  BY ResetPtrIsNull DEF Var
<1> QED
  BY <1>1 DEF Update, PointerMatchesBlock, TypeOK, HandleTypeOK

LEMMA InstanceStepPointer ==
  ASSUME TypeOK, PointerMatchesBlock, "copied_self" \notin Liberties, InstanceStep
  PROVE  PointerMatchesBlock'
<1>1. ASSUME NEW b \in Block,
             New(b) \/ MakeSharedThrows(b) \/ \E c \in Block : CopyInstance(b, c)
      PROVE  PointerMatchesBlock'
  BY <1>1 DEF New, MakeSharedThrows, CopyInstance, handleVars, PointerMatchesBlock
<1>2. ASSUME NEW b \in Block, NEW v \in SharedVar, AdoptCtor(v, b) \/ MakeShared(v, b)
      PROVE  PointerMatchesBlock'
  BY <1>2 DEF AdoptCtor, MakeShared, PointerMatchesBlock, TypeOK, HandleTypeOK
<1>3. ASSUME NEW b \in Block, NEW v \in SharedVar, SharedFromThis(v, b)
      PROVE  PointerMatchesBlock'
  <2>1. CASE DefaultCtor(v)
    BY <2>1 DEF DefaultCtor, PointerMatchesBlock
  <2>2. CASE /\ shared_from_this_data[b] = b
             /\ PrivateCtor(v, shared_from_this_data[b], b, TRUE)
    BY <2>2, PrivateCtorPointer
  <2> QED
    BY <1>3, <2>1, <2>2 DEF SharedFromThis
<1> QED
  BY <1>1, <1>2, <1>3 DEF InstanceStep

LEMMA SharedStepPointer ==
  ASSUME TypeOK, PointerMatchesBlock, SharedStep
  PROVE  PointerMatchesBlock'
<1>1. ASSUME NEW v \in SharedVar, DefaultCtor(v)
      PROVE  PointerMatchesBlock'
  BY <1>1 DEF DefaultCtor, PointerMatchesBlock
<1>2. ASSUME NEW v \in SharedVar, Destroy(v) \/ Reset(v) \/ \E b \in Block : ResetTo(v, b)
      PROVE  PointerMatchesBlock'
  BY <1>2, ReleasePointer DEF Destroy, Reset, ResetTo, Then, Operand
<1>3. ASSUME NEW v \in SharedVar, NEW u \in SharedVar, CopyAssign(v, u) \/ MoveAssign(v, u)
      PROVE  PointerMatchesBlock'
  BY <1>3, ReleasePointer DEF CopyAssign, MoveAssign, Then, Operand
<1>4. ASSUME NEW v \in SharedVar, NEW u \in SharedVar,
             CopyCtor(v, u) \/ PointerCast(v, u) \/ DynamicCastFails(v, u)
      PROVE  PointerMatchesBlock'
  <2>1. mPtr[u] \in {NULL, mHandle[u]}
    BY DEF PointerMatchesBlock, Var
  <2> QED
    BY <1>4, <2>1, PrivateCtorPointer DEF CopyCtor, PointerCast, DynamicCastFails
<1>5. ASSUME NEW v \in SharedVar, NEW u \in SharedVar, MoveCtor(v, u) \/ Swap(v, u)
      PROVE  PointerMatchesBlock'
  BY <1>5 DEF MoveCtor, Swap, PointerMatchesBlock, TypeOK, HandleTypeOK, Var
<1> QED
  BY <1>1, <1>2, <1>3, <1>4, <1>5 DEF SharedStep

LEMMA WeakStepPointer ==
  ASSUME TypeOK, PointerMatchesBlock, WeakStep
  PROVE  PointerMatchesBlock'
<1>1. \A x \in Var : mPtr[x] \in {NULL, mHandle[x]} /\ ResetPtr(x) = NULL
  BY ResetPtrIsNull DEF PointerMatchesBlock
<1>2. ASSUME NEW w \in WeakVar, WeakDefaultCtor(w) \/ WeakDestroy(w) \/ WeakReset(w)
      PROVE  PointerMatchesBlock'
  BY <1>2, UpdatePointer DEF WeakDefaultCtor, WeakDestroy, WeakReset
<1>3. ASSUME NEW w \in WeakVar, NEW x \in WeakVar, WeakCopyCtor(w, x) \/ WeakCopyAssign(w, x)
      PROVE  PointerMatchesBlock'
  BY <1>1, <1>3, UpdatePointer DEF WeakCopyCtor, WeakCopyAssign, Var
<1>4. ASSUME NEW w \in WeakVar, NEW x \in WeakVar, WeakMoveCtor(w, x) \/ WeakMoveAssign(w, x)
      PROVE  PointerMatchesBlock'
  BY <1>1, <1>4
  DEF WeakMoveCtor, WeakMoveAssign, PointerMatchesBlock, TypeOK, HandleTypeOK, Var
<1>5. ASSUME NEW w \in WeakVar, NEW v \in SharedVar, WeakFromShared(w, v) \/ WeakAssignShared(w, v)
      PROVE  PointerMatchesBlock'
  BY <1>1, <1>5, UpdatePointer DEF WeakFromShared, WeakAssignShared, Var
<1>6. ASSUME NEW w \in WeakVar, NEW v \in SharedVar, Lock(v, w)
      PROVE  PointerMatchesBlock'
  <2>1. CASE LockExpired(v, w)
    BY <2>1, UpdatePointer DEF LockExpired
  <2>2. CASE PrivateCtor(v, mHandle[w], mPtr[w], v \in TrackingVar)
    BY <1>1, <2>2, PrivateCtorPointer DEF Var
  <2> QED
    BY <1>6, <2>1, <2>2 DEF Lock
<1> QED
  BY <1>2, <1>3, <1>4, <1>5, <1>6 DEF WeakStep

LEMMA DestructorStepPointer ==
  ASSUME TypeOK, PointerMatchesBlock, DestructorStep
  PROVE  PointerMatchesBlock'
<1>1. CASE EndBody
  BY <1>1 DEF EndBody, handleVars, PointerMatchesBlock
<1>2. ASSUME NEW v \in SharedVar, DestroySharedMember(v)
      PROVE  PointerMatchesBlock'
  BY <1>2, ReleasePointer DEF DestroySharedMember, Then, Operand
<1>3. ASSUME NEW w \in WeakVar, DestroyWeakMember(w)
      PROVE  PointerMatchesBlock'
  BY <1>3, UpdatePointer DEF DestroyWeakMember
<1>4. CASE Return
  <2>1. /\ Top.var \in SharedVar /\ Top.then \in Then
        /\ Top.arg \in Operand(Top.then)
    BY <1>4, TopFrame DEF Return, Unwinding, Frame
  <2> QED
    BY <1>4, <2>1, CompletePointer DEF Return
<1> QED
  BY <1>1, <1>2, <1>3, <1>4 DEF DestructorStep

\* A variable points to the instance its own block manages or to nothing, so
\* get() never leads to an instance the variable does not keep alive; for every
\* program that does not call shared_from_this() on a copied instance whose
\* base holds the block of another one.
THEOREM PointerMatches ==
  ASSUME "copied_self" \notin Liberties
  PROVE  Spec => []PointerMatchesBlock
<1>1. Init => PointerMatchesBlock
  BY DEF Init, HandleInit, PointerMatchesBlock
<1>2. TypeOK /\ PointerMatchesBlock /\ [Next]_vars => PointerMatchesBlock'
  <2>1. PointerMatchesBlock /\ UNCHANGED vars => PointerMatchesBlock'
    BY DEF vars, handleVars, PointerMatchesBlock
  <2> QED
    BY <2>1, InstanceStepPointer, SharedStepPointer, WeakStepPointer, DestructorStepPointer
    DEF Next
<1> QED
  BY <1>1, <1>2, TypeCorrect, PTL DEF Spec

(***************************************************************************)
(* Variables that have a block and a null pointer.                         *)
(***************************************************************************)
BlindInherited ==
  \A x \in Var : Blind(x)' => \E y \in Var : Blind(y) /\ mHandle[y] = mHandle'[x]

LEMMA SameBlind ==
  ASSUME UNCHANGED <<mHandle, mPtr>>
  PROVE  BlindInherited
  BY DEF BlindInherited, Blind

\* One variable gets a block and a pointer, together from one that had both.
LEMMA OneBlind ==
  ASSUME NEW v \in Var,
         \A x \in Var \ {v} : mHandle'[x] = mHandle[x] /\ mPtr'[x] = mPtr[x],
         Blind(v)' => \E y \in Var : Blind(y) /\ mHandle[y] = mHandle'[v]
  PROVE  BlindInherited
  BY DEF BlindInherited, Blind

LEMMA CompleteBlind ==
  ASSUME TypeOK,
         NEW v \in SharedVar, NEW then \in Then, NEW arg \in Operand(then),
         NEW s, NEW m,
         Complete(v, then, arg, s, m)
  PROVE  BlindInherited
<1>1. v \in Var
  BY DEF Var
<1>2. /\ mHandle'[v] = Incoming(then, arg)
      /\ mPtr'[v] = IncomingPtr(v, then, arg)
      /\ \A x \in Var \ {v} :
           \/ then = "move" /\ x = arg /\ mHandle'[x] = NULL
           \/ mHandle'[x] = mHandle[x] /\ mPtr'[x] = mPtr[x]
  BY <1>1 DEF Complete
<1>3. ASSUME Blind(v)'
      PROVE  \E y \in Var : Blind(y) /\ mHandle[y] = mHandle'[v]
  <2>1. CASE then \in {"copy", "move"}
    <3>1. arg \in Var
      BY <2>1 DEF Operand, Var
    <3>2. mHandle'[v] = mHandle[arg] /\ Blind(arg)
      BY <1>2, <1>3, <2>1 DEF Blind, Incoming, IncomingPtr
    <3> QED
      BY <3>1, <3>2
  <2>2. CASE then \notin {"copy", "move"}
    BY <1>2, <1>3, <2>2, BlockAssumption DEF Blind, Incoming, IncomingPtr, Operand
  <2> QED
    BY <2>1, <2>2
<1> QED
  BY <1>2, <1>3 DEF BlindInherited, Blind

LEMMA ReleaseBlind ==
  ASSUME TypeOK,
         NEW v \in SharedVar, NEW then \in Then, NEW arg \in Operand(then),
         Release(v, then, arg)
  PROVE  BlindInherited
<1>1. CASE BeginDestruction(v, then, arg)
  BY <1>1, SameBlind DEF BeginDestruction, handleVars
<1>2. CASE Complete(v, then, arg, release_shared(mStrong, mHandle[v]), mem)
  BY <1>2, CompleteBlind
<1> QED
  BY <1>1, <1>2 DEF Release

LEMMA PrivateCtorBlind ==
  ASSUME TypeOK,
         NEW v \in SharedVar, NEW h, NEW p, NEW tracks,
         p # NULL \/ \E y \in Var : mHandle[y] = h /\ mPtr[y] = p,
         PrivateCtor(v, h, p, tracks)
  PROVE  BlindInherited
<1>1. /\ v \in Var
      /\ mHandle'[v] = h /\ mPtr'[v] = p
      /\ \A x \in Var \ {v} : mHandle'[x] = mHandle[x] /\ mPtr'[x] = mPtr[x]
  BY DEF PrivateCtor, TypeOK, HandleTypeOK, Var
<1> QED
  BY <1>1, OneBlind DEF Blind

LEMMA UpdateBlind ==
  ASSUME TypeOK,
         NEW w \in WeakVar, NEW h, NEW p, NEW extent,
         h = NULL \/ \E y \in Var : mHandle[y] = h /\ mPtr[y] = p,
         Update(w, p, h, extent)
  PROVE  BlindInherited
<1>1. /\ w \in Var
      /\ mHandle'[w] = IF Assigns(h) THEN h ELSE NULL
      /\ Assigns(h) => mPtr'[w] = p
      /\ \A x \in Var \ {w} : mHandle'[x] = mHandle[x] /\ mPtr'[x] = mPtr[x]
  BY DEF Update, TypeOK, HandleTypeOK, Var
<1> QED
  BY <1>1, OneBlind DEF Blind, Assigns

LEMMA InstanceStepBlind ==
  ASSUME TypeOK, InstanceStep
  PROVE  BlindInherited
<1>1. ASSUME NEW b \in Block,
             New(b) \/ MakeSharedThrows(b) \/ \E c \in Block : CopyInstance(b, c)
      PROVE  BlindInherited
  BY <1>1, SameBlind DEF New, MakeSharedThrows, CopyInstance, handleVars
<1>2. ASSUME NEW b \in Block, NEW v \in SharedVar, AdoptCtor(v, b) \/ MakeShared(v, b)
      PROVE  BlindInherited
  <2>1. /\ v \in Var
        /\ mPtr'[v] = b
        /\ \A x \in Var \ {v} : mHandle'[x] = mHandle[x] /\ mPtr'[x] = mPtr[x]
    BY <1>2 DEF AdoptCtor, MakeShared, TypeOK, HandleTypeOK, Var
  <2> QED
    BY <2>1, OneBlind, BlockAssumption DEF Blind
<1>3. ASSUME NEW b \in Block, NEW v \in SharedVar, SharedFromThis(v, b)
      PROVE  BlindInherited
  <2>1. CASE DefaultCtor(v)
    BY <2>1, SameBlind DEF DefaultCtor
  <2>2. CASE PrivateCtor(v, shared_from_this_data[b], b, TRUE)
    BY <2>2, PrivateCtorBlind, BlockAssumption
  <2> QED
    BY <1>3, <2>1, <2>2 DEF SharedFromThis
<1> QED
  BY <1>1, <1>2, <1>3 DEF InstanceStep

LEMMA SharedStepBlind ==
  ASSUME TypeOK, SharedStep
  PROVE  BlindInherited \/ \E v, u \in SharedVar : DynamicCastFails(v, u)
<1>1. ASSUME NEW v \in SharedVar, DefaultCtor(v)
      PROVE  BlindInherited
  BY <1>1, SameBlind DEF DefaultCtor
<1>2. ASSUME NEW v \in SharedVar, Destroy(v) \/ Reset(v) \/ \E b \in Block : ResetTo(v, b)
      PROVE  BlindInherited
  BY <1>2, ReleaseBlind DEF Destroy, Reset, ResetTo, Then, Operand
<1>3. ASSUME NEW v \in SharedVar, NEW u \in SharedVar, CopyAssign(v, u) \/ MoveAssign(v, u)
      PROVE  BlindInherited
  BY <1>3, ReleaseBlind DEF CopyAssign, MoveAssign, Then, Operand
<1>4. ASSUME NEW v \in SharedVar, NEW u \in SharedVar, CopyCtor(v, u) \/ PointerCast(v, u)
      PROVE  BlindInherited
  BY <1>4, PrivateCtorBlind DEF CopyCtor, PointerCast, Var
<1>5. ASSUME NEW v \in SharedVar, NEW u \in SharedVar, MoveCtor(v, u) \/ Swap(v, u)
      PROVE  BlindInherited
  <2>1. /\ v \in Var /\ u \in Var
        /\ \A x \in Var : \/ mHandle'[x] = NULL
                          \/ \E y \in Var : mHandle'[x] = mHandle[y] /\ mPtr'[x] = mPtr[y]
    BY <1>5 DEF MoveCtor, Swap, TypeOK, HandleTypeOK, Var
  <2> QED
    BY <2>1 DEF BlindInherited, Blind
<1> QED
  BY <1>1, <1>2, <1>3, <1>4, <1>5 DEF SharedStep

LEMMA WeakStepBlind ==
  ASSUME TypeOK, WeakStep
  PROVE  BlindInherited \/ \E w \in WeakVar, v \in SharedVar : WeakAssignShared(w, v)
<1>1. ASSUME NEW w \in WeakVar, WeakDefaultCtor(w) \/ WeakDestroy(w) \/ WeakReset(w)
      PROVE  BlindInherited
  BY <1>1, UpdateBlind DEF WeakDefaultCtor, WeakDestroy, WeakReset
<1>2. ASSUME NEW w \in WeakVar, NEW x \in WeakVar, WeakCopyCtor(w, x) \/ WeakCopyAssign(w, x)
      PROVE  BlindInherited
  BY <1>2, UpdateBlind DEF WeakCopyCtor, WeakCopyAssign, Var
<1>3. ASSUME NEW w \in WeakVar, NEW x \in WeakVar, WeakMoveCtor(w, x) \/ WeakMoveAssign(w, x)
      PROVE  BlindInherited
  <2>1. /\ w \in Var /\ x \in Var
        /\ \A y \in Var : \/ mHandle'[y] = NULL
                          \/ \E z \in Var : mHandle'[y] = mHandle[z] /\ mPtr'[y] = mPtr[z]
    BY <1>3 DEF WeakMoveCtor, WeakMoveAssign, TypeOK, HandleTypeOK, Var
  <2> QED
    BY <2>1 DEF BlindInherited, Blind
<1>4. ASSUME NEW w \in WeakVar, NEW v \in SharedVar, WeakFromShared(w, v)
      PROVE  BlindInherited
  BY <1>4, UpdateBlind DEF WeakFromShared, Var
<1>5. ASSUME NEW w \in WeakVar, NEW v \in SharedVar, Lock(v, w)
      PROVE  BlindInherited
  <2>1. CASE LockExpired(v, w)
    BY <2>1, UpdateBlind DEF LockExpired
  <2>2. CASE PrivateCtor(v, mHandle[w], mPtr[w], v \in TrackingVar)
    BY <2>2, PrivateCtorBlind DEF Var
  <2> QED
    BY <1>5, <2>1, <2>2 DEF Lock
<1> QED
  BY <1>1, <1>2, <1>3, <1>4, <1>5 DEF WeakStep

LEMMA DestructorStepBlind ==
  ASSUME TypeOK, DestructorStep
  PROVE  BlindInherited
<1>1. CASE EndBody
  BY <1>1, SameBlind DEF EndBody, handleVars
<1>2. ASSUME NEW v \in SharedVar, DestroySharedMember(v)
      PROVE  BlindInherited
  BY <1>2, ReleaseBlind DEF DestroySharedMember, Then, Operand
<1>3. ASSUME NEW w \in WeakVar, DestroyWeakMember(w)
      PROVE  BlindInherited
  BY <1>3, UpdateBlind DEF DestroyWeakMember
<1>4. CASE Return
  <2>1. /\ Top.var \in SharedVar /\ Top.then \in Then
        /\ Top.arg \in Operand(Top.then)
    BY <1>4, TopFrame DEF Return, Unwinding, Frame
  <2> QED
    BY <1>4, <2>1, CompleteBlind DEF Return
<1> QED
  BY <1>1, <1>2, <1>3, <1>4 DEF DestructorStep

\* The two operations that do not inherit blindness give it to their target.
LEMMA OtherwiseBlind ==
  ASSUME TypeOK
  PROVE  /\ \A v, u \in SharedVar : DynamicCastFails(v, u) => BlindStep
         /\ \A w \in WeakVar, v \in SharedVar : WeakAssignShared(w, v) => BlindStep
<1>1. ASSUME NEW v \in SharedVar, NEW u \in SharedVar, DynamicCastFails(v, u)
      PROVE  BlindStep
  <2>1. \A x \in Var \ {v} : mHandle'[x] = mHandle[x] /\ mPtr'[x] = mPtr[x]
    BY <1>1 DEF DynamicCastFails, PrivateCtor, TypeOK, HandleTypeOK
  <2> QED
    BY <1>1, <2>1 DEF BlindStep, Blind
<1>2. ASSUME NEW w \in WeakVar, NEW v \in SharedVar, WeakAssignShared(w, v)
      PROVE  BlindStep
  <2>1. \A x \in Var \ {w} : mHandle'[x] = mHandle[x] /\ mPtr'[x] = mPtr[x]
    BY <1>2 DEF WeakAssignShared, Update, TypeOK, HandleTypeOK
  <2> QED
    BY <1>2, <2>1 DEF BlindStep, Blind
<1> QED
  BY <1>1, <1>2

LEMMA NextBlind ==
  ASSUME TypeOK, Next
  PROVE  BlindStep
<1>1. BlindInherited => BlindStep
  BY DEF BlindInherited, BlindStep
<1> QED
  BY <1>1, OtherwiseBlind, InstanceStepBlind, SharedStepBlind, WeakStepBlind, DestructorStepBlind
  DEF Next

\* A null pointer that comes with a block comes from one of two operations, for
\* every program, whatever destructors do meanwhile and however it is passed on.
THEOREM BlindnessHasTwoSources == Spec => OnlyTwoBlind
<1>1. TypeOK /\ [Next]_vars => [BlindStep]_vars
  BY NextBlind
<1> QED
  BY <1>1, TypeCorrect, PTL DEF Spec, OnlyTwoBlind

\* A step that is neither of the two. To assign a null shared_ptr_nc is to reset.
NeitherSource ==
  /\ \A w \in WeakVar, v \in SharedVar : mHandle[v] # NULL => ~ WeakAssignShared(w, v)
  /\ \A v, u \in SharedVar : ~ DynamicCastFails(v, u)

NobodyBlind == \A x \in Var : ~ Blind(x)

\* So the promise of lock() that the finding weak_from_shared is about
\* (shared_ptr_nc.hpp:145) is kept by every program that makes neither of these
\* calls, nor shared_from_this on a copied instance: a weak_ptr then always finds
\* an instance that is alive.
THEOREM LockFindsOtherwise ==
  ASSUME "copied_self" \notin Liberties
  PROVE  Spec /\ [][NeitherSource]_vars => []LockFindsInstance
<1>1. Init => NobodyBlind
  BY DEF Init, HandleInit, NobodyBlind, Blind
<1>2. TypeOK /\ NobodyBlind /\ [Next]_vars /\ [NeitherSource]_vars => NobodyBlind'
  <2>1. NobodyBlind /\ UNCHANGED vars => NobodyBlind'
    BY DEF NobodyBlind, Blind, vars, handleVars
  <2>2. ASSUME TypeOK, NEW w \in WeakVar, NEW v \in SharedVar, WeakAssignShared(w, v)
        PROVE  mHandle'[w] \in {mHandle[v], NULL}
    BY <2>2 DEF WeakAssignShared, Update, TypeOK, HandleTypeOK, Var
  <2>3. TypeOK /\ BlindStep /\ NobodyBlind /\ NeitherSource => NobodyBlind'
    BY <2>2 DEF BlindStep, NobodyBlind, NeitherSource, Blind
  <2> QED
    BY <2>1, <2>3, NextBlind
<1>3. NobodyBlind /\ PointerMatchesBlock => LockFindsInstance
  BY DEF NobodyBlind, Blind, PointerMatchesBlock, LockFindsInstance, Var
<1> QED
  BY <1>1, <1>2, <1>3, TypeCorrect, PointerMatches, PTL DEF Spec

(***************************************************************************)
(* Instances that know their block.                                        *)
(***************************************************************************)
AllKnow == \A b \in TrackingBlock : KnowsBlock(b) => KnowsBlock(b)'

\* A pointer is stored together with its own block, so only the right block
\* gets into an instance.
LEMMA StoredIsOwn ==
  ASSUME TypeOK, NEW tracks, NEW h, NEW p \in {NULL, h},
         shared_from_this_data' = set_shared_from_this(tracks, p, h),
         UNCHANGED <<mem, inst>>
  PROVE  AllKnow
<1>1. \A b \in TrackingBlock :
        shared_from_this_data'[b] = shared_from_this_data[b] \/ shared_from_this_data'[b] = b
  BY TrackingAssumption DEF set_shared_from_this, TypeOK, HandleTypeOK
<1> QED
  BY <1>1 DEF AllKnow, KnowsBlock

LEMMA SameData ==
  ASSUME UNCHANGED shared_from_this_data,
         \A b \in Block : inst'[b] = "live" /\ mem'[b] = "held" => inst[b] = "live" /\ mem[b] = "held"
  PROVE  AllKnow
  BY TrackingAssumption DEF AllKnow, KnowsBlock

LEMMA CaptureKnows ==
  ASSUME TypeOK, NEW a \in Block,
         shared_from_this_data' = set_shared_from_this(a \in TrackingBlock, a, a),
         \A b \in Block \ {a} : inst'[b] = "live" /\ mem'[b] = "held" => inst[b] = "live" /\ mem[b] = "held"
  PROVE  AllKnow
<1>1. ASSUME NEW b \in TrackingBlock, b # a
      PROVE  KnowsBlock(b) => KnowsBlock(b)'
  BY <1>1, TrackingAssumption DEF KnowsBlock, set_shared_from_this
<1>2. a \in TrackingBlock => KnowsBlock(a)'
  BY BlockAssumption DEF KnowsBlock, set_shared_from_this, TypeOK, HandleTypeOK
<1> QED
  BY <1>1, <1>2 DEF AllKnow

LEMMA CompleteKnows ==
  ASSUME TypeOK,
         NEW v \in SharedVar, NEW then \in Then, NEW arg \in Operand(then),
         NEW s, NEW m \in [Block -> MemState],
         \A b \in Block : m[b] = "held" => mem[b] = "held",
         \A b \in Block : inst'[b] = "live" => inst[b] = "live",
         Complete(v, then, arg, s, m)
  PROVE  AllKnow
<1>1. CASE then = "adopt"
  <2>1. arg \in Block /\ mem' = [m EXCEPT ![arg] = "held"]
    BY <1>1 DEF Operand, Complete
  <2>2. shared_from_this_data' = set_shared_from_this(arg \in TrackingBlock, arg, arg)
    BY <1>1 DEF Complete, set_shared_from_this
  <2> QED
    BY <2>1, <2>2, CaptureKnows
<1>2. CASE then # "adopt"
  BY <1>2, SameData DEF Complete, set_shared_from_this
<1> QED
  BY <1>1, <1>2

LEMMA ReleaseKnows ==
  ASSUME TypeOK,
         NEW v \in SharedVar, NEW then \in Then, NEW arg \in Operand(then),
         Release(v, then, arg)
  PROVE  AllKnow
<1>1. CASE BeginDestruction(v, then, arg)
  BY <1>1, SameData DEF BeginDestruction, release_last, handleVars, TypeOK, BlockTypeOK
<1>2. CASE /\ Complete(v, then, arg, release_shared(mStrong, mHandle[v]), mem)
           /\ UNCHANGED inst
  BY <1>2, CompleteKnows DEF TypeOK, BlockTypeOK
<1> QED
  BY <1>1, <1>2 DEF Release

LEMMA PrivateCtorKnows ==
  ASSUME TypeOK, NEW v, NEW h, NEW p \in {NULL, h}, NEW tracks, PrivateCtor(v, h, p, tracks)
  PROVE  AllKnow
  BY StoredIsOwn DEF PrivateCtor

LEMMA UpdateKnows ==
  ASSUME TypeOK, NEW w, NEW p, NEW h, NEW extent, Update(w, p, h, extent)
  PROVE  AllKnow
<1>1. \A b \in Block : mem'[b] = "held" => mem[b] = "held"
  BY DEF Update, mem_reset, release_weak_mem, adjust, TypeOK, BlockTypeOK
<1> QED
  BY <1>1, SameData DEF Update

LEMMA InstanceStepKnows ==
  ASSUME TypeOK, PointerMatchesBlock, "copied_self" \notin Liberties, InstanceStep
  PROVE  TrackedStep
<1> USE DEF AllKnow, TrackedStep
<1>1. ASSUME NEW b \in Block, New(b) \/ MakeSharedThrows(b)
      PROVE  AllKnow
  <2>1. \A c \in Block : inst'[c] = "live" /\ mem'[c] = "held" => inst[c] = "live" /\ mem[c] = "held"
    BY <1>1 DEF New, MakeSharedThrows, handleVars, TypeOK, BlockTypeOK
  <2> QED
    BY <1>1, <2>1, SameData DEF New, MakeSharedThrows, handleVars
<1>2. ASSUME NEW b \in Block, NEW c \in Block, CopyInstance(b, c)
      PROVE  TrackedStep
  <2>1. \A a \in Block \ {b} : KnowsBlock(a) => KnowsBlock(a)'
    BY <1>2 DEF CopyInstance, KnowsBlock, blockVars, TypeOK, HandleTypeOK
  <2> QED
    BY <1>2, <2>1, TrackingAssumption
<1>3. ASSUME NEW b \in Block, NEW v \in SharedVar, AdoptCtor(v, b) \/ MakeShared(v, b)
      PROVE  AllKnow
  <2>1. \A c \in Block \ {b} : inst'[c] = inst[c] /\ mem'[c] = mem[c]
    BY <1>3 DEF AdoptCtor, MakeShared, TypeOK, BlockTypeOK
  <2> QED
    BY <1>3, <2>1, CaptureKnows DEF AdoptCtor, MakeShared
<1>4. ASSUME NEW b \in Block, NEW v \in SharedVar, SharedFromThis(v, b)
      PROVE  AllKnow
  <2>1. CASE DefaultCtor(v)
    BY <2>1, SameData DEF DefaultCtor, blockVars
  <2>2. CASE /\ shared_from_this_data[b] = b
             /\ PrivateCtor(v, shared_from_this_data[b], b, TRUE)
    BY <2>2, PrivateCtorKnows
  <2> QED
    BY <1>4, <2>1, <2>2 DEF SharedFromThis
<1> QED
  BY <1>1, <1>2, <1>3, <1>4 DEF InstanceStep

LEMMA SharedStepKnows ==
  ASSUME TypeOK, PointerMatchesBlock, SharedStep
  PROVE  AllKnow
<1>1. ASSUME NEW v \in SharedVar, DefaultCtor(v)
      PROVE  AllKnow
  BY <1>1, SameData DEF DefaultCtor, blockVars
<1>2. ASSUME NEW v \in SharedVar, Destroy(v) \/ Reset(v) \/ \E b \in Block : ResetTo(v, b)
      PROVE  AllKnow
  BY <1>2, ReleaseKnows DEF Destroy, Reset, ResetTo, Then, Operand
<1>3. ASSUME NEW v \in SharedVar, NEW u \in SharedVar, CopyAssign(v, u) \/ MoveAssign(v, u)
      PROVE  AllKnow
  BY <1>3, ReleaseKnows DEF CopyAssign, MoveAssign, Then, Operand
<1>4. ASSUME NEW v \in SharedVar, NEW u \in SharedVar,
             CopyCtor(v, u) \/ PointerCast(v, u) \/ DynamicCastFails(v, u)
      PROVE  AllKnow
  <2>1. mPtr[u] \in {NULL, mHandle[u]}
    BY DEF PointerMatchesBlock, Var
  <2> QED
    BY <1>4, <2>1, PrivateCtorKnows DEF CopyCtor, PointerCast, DynamicCastFails
<1>5. ASSUME NEW v \in SharedVar, NEW u \in SharedVar, MoveCtor(v, u) \/ Swap(v, u)
      PROVE  AllKnow
  BY <1>5, SameData DEF MoveCtor, Swap, blockVars
<1> QED
  BY <1>1, <1>2, <1>3, <1>4, <1>5 DEF SharedStep

LEMMA WeakStepKnows ==
  ASSUME TypeOK, PointerMatchesBlock, WeakStep
  PROVE  AllKnow
<1>1. ASSUME NEW w \in WeakVar, WeakDefaultCtor(w) \/ WeakDestroy(w) \/ WeakReset(w)
      PROVE  AllKnow
  BY <1>1, UpdateKnows DEF WeakDefaultCtor, WeakDestroy, WeakReset
<1>2. ASSUME NEW w \in WeakVar, NEW x \in WeakVar, WeakCopyCtor(w, x) \/ WeakCopyAssign(w, x)
      PROVE  AllKnow
  BY <1>2, UpdateKnows DEF WeakCopyCtor, WeakCopyAssign
<1>3. ASSUME NEW w \in WeakVar, NEW x \in WeakVar, WeakMoveCtor(w, x)
      PROVE  AllKnow
  BY <1>3, SameData DEF WeakMoveCtor, blockVars
<1>4. ASSUME NEW w \in WeakVar, NEW x \in WeakVar, WeakMoveAssign(w, x)
      PROVE  AllKnow
  <2>1. \A b \in Block : mem'[b] = "held" => mem[b] = "held"
    BY <1>4 DEF WeakMoveAssign, mem_reset, release_weak_mem, adjust, TypeOK, BlockTypeOK
  <2> QED
    BY <1>4, <2>1, SameData DEF WeakMoveAssign
<1>5. ASSUME NEW w \in WeakVar, NEW v \in SharedVar, WeakFromShared(w, v) \/ WeakAssignShared(w, v)
      PROVE  AllKnow
  BY <1>5, UpdateKnows DEF WeakFromShared, WeakAssignShared
<1>6. ASSUME NEW w \in WeakVar, NEW v \in SharedVar, Lock(v, w)
      PROVE  AllKnow
  <2>1. CASE LockExpired(v, w)
    BY <2>1, UpdateKnows DEF LockExpired
  <2>2. CASE PrivateCtor(v, mHandle[w], mPtr[w], v \in TrackingVar)
    <3>1. mPtr[w] \in {NULL, mHandle[w]}
      BY DEF PointerMatchesBlock, Var
    <3> QED
      BY <2>2, <3>1, PrivateCtorKnows
  <2> QED
    BY <1>6, <2>1, <2>2 DEF Lock
<1> QED
  BY <1>1, <1>2, <1>3, <1>4, <1>5, <1>6 DEF WeakStep

LEMMA DestructorStepKnows ==
  ASSUME TypeOK, DestructorStep
  PROVE  AllKnow
<1>1. CASE EndBody
  BY <1>1, SameData DEF EndBody, blockVars, handleVars
<1>2. ASSUME NEW v \in SharedVar, DestroySharedMember(v)
      PROVE  AllKnow
  BY <1>2, ReleaseKnows DEF DestroySharedMember, Then, Operand
<1>3. ASSUME NEW w \in WeakVar, DestroyWeakMember(w)
      PROVE  AllKnow
  BY <1>3, UpdateKnows DEF DestroyWeakMember
<1>4. CASE Return
  <2>1. /\ Top.blk \in Block /\ Top.var \in SharedVar /\ Top.then \in Then
        /\ Top.arg \in Operand(Top.then)
    BY <1>4, TopFrame DEF Return, Unwinding, Frame
  <2>2. PICK m : /\ m = adjust(mStrong, [mWeak EXCEPT ![Top.blk] = Dec(@)], mem, Top.blk)
                 /\ Complete(Top.var, Top.then, Top.arg, mStrong, m)
    BY <1>4 DEF Return
  <2>3. m \in [Block -> MemState] /\ \A b \in Block : m[b] = "held" => mem[b] = "held"
    BY <2>2, MemoryType DEF adjust, TypeOK, BlockTypeOK
  <2>4. \A b \in Block : inst'[b] = "live" => inst[b] = "live"
    BY <1>4, <2>1 DEF Return, TypeOK, BlockTypeOK
  <2> QED
    BY <2>1, <2>2, <2>3, <2>4, CompleteKnows
<1> QED
  BY <1>1, <1>2, <1>3, <1>4 DEF DestructorStep

LEMMA NextKnows ==
  ASSUME TypeOK, PointerMatchesBlock, "copied_self" \notin Liberties, Next
  PROVE  TrackedStep
<1>1. AllKnow => TrackedStep
  BY DEF AllKnow, TrackedStep
<1> QED
  BY <1>1, InstanceStepKnows, SharedStepKnows, WeakStepKnows, DestructorStepKnows DEF Next

\* Whatever is cast, assigned or locked, an instance never gets the block of
\* another one, nor loses its own, except by the implicit copy of its base.
THEOREM CopiesAloneForget ==
  ASSUME "copied_self" \notin Liberties
  PROVE  Spec => OnlyCopiesForget
<1>1. TypeOK /\ PointerMatchesBlock /\ [Next]_vars => [TrackedStep]_vars
  BY NextKnows
<1> QED
  BY <1>1, TypeCorrect, PointerMatches, PTL DEF Spec, OnlyCopiesForget

NothingCopied == \A b, c \in Block : ~ CopyInstance(b, c)

\* So what prefix.hpp:258 says of tracked instances, and the finding
\* copied_instance refutes, is true of every program that copies none.
THEOREM TrackedKnowOtherwise ==
  ASSUME "copied_self" \notin Liberties
  PROVE  Spec /\ [][NothingCopied]_vars => []TrackedKnowsBlock
<1>1. Init => TrackedKnowsBlock
  BY TrackingAssumption DEF Init, BlockInit, TrackedKnowsBlock
<1>2. TypeOK /\ PointerMatchesBlock /\ TrackedKnowsBlock /\ [Next]_vars /\ [NothingCopied]_vars
        => TrackedKnowsBlock'
  <2>1. TrackedKnowsBlock /\ UNCHANGED vars => TrackedKnowsBlock'
    BY DEF TrackedKnowsBlock, vars, blockVars, handleVars
  <2>2. TrackedStep /\ TrackedKnowsBlock /\ NothingCopied => TrackedKnowsBlock'
    BY TrackingAssumption DEF TrackedStep, TrackedKnowsBlock, KnowsBlock, NothingCopied
  <2> QED
    BY <2>1, <2>2, NextKnows
<1> QED
  BY <1>1, <1>2, TypeCorrect, PointerMatches, PTL DEF Spec
=============================================================================
