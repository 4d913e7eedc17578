----------------------------- MODULE SafetyProofs ------------------------------
(***************************************************************************)
(* The safety properties of SmartPtr for every program that keeps the      *)
(* discipline: the invariant of module Safety holds initially, every step  *)
(* preserves it, and the properties follow from it.                        *)
(***************************************************************************)
EXTENDS SafetyFacts

(***************************************************************************)
(* Initially no variable holds anything.                                   *)
(***************************************************************************)
LEMMA InitSafe ==
  ASSUME EnoughCounters, Init
  PROVE  IInv
<1> USE DEF Init, BlockInit, HandleInit
<1>1. TypeOK
  BY InitType
<1>2. Depth = {} /\ Releasing = {} /\ Kept = {}
  BY DEF Depth, Releasing, Kept
<1>3. CountInv
  <2> SUFFICES ASSUME NEW b \in Block
               PROVE  /\ mStrong[b] = Cardinality(Owners(b))
                      /\ mWeak[b] = Cardinality(Observers(b)) + Temporary(b)
    BY DEF CountInv
  <2>1. Owners(b) = {} /\ Observers(b) = {}
    BY BlockAssumption DEF Owners, Observers, Var
  <2> QED
    BY <2>1, FS_EmptySet DEF Temporary
<1>4. VarInv /\ LifeInv /\ PointerMatchesBlock /\ SelfInv
  BY DEF VarInv, LifeInv, PointerMatchesBlock, SelfInv
<1>5. FrameInv /\ OperandInv /\ SourceInv /\ KeepInv /\ AdoptInv
  BY <1>2 DEF FrameInv, OperandInv, SourceInv, KeepInv, AdoptInv
<1> QED
  BY <1>1, <1>3, <1>4, <1>5 DEF IInv

(***************************************************************************)
(* Operations that touch no reference.                                     *)
(***************************************************************************)
LEMMA ReferencesSame ==
  ASSUME IInv, UNCHANGED <<mStrong, mWeak, mHandle>>, Releasing' = Releasing,
         \A b \in Block : inst'[b] = "dying" <=> inst[b] = "dying"
  PROVE  CountInv'
  BY DEF IInv, CountInv, Owners, Observers, Temporary

LEMMA QuietSafe ==
  ASSUME IInv, Disciplined, TypeOK',
         \/ \E b \in Block : New(b) \/ MakeSharedThrows(b)
         \/ \E b, c \in Block : CopyInstance(b, c)
         \/ \E v \in SharedVar : DefaultCtor(v)
  PROVE  StepSafe
<1>1. ASSUME NEW b \in Block, New(b)
      PROVE  StepSafe
  <2> USE <1>1 DEF New
  <2>1. \A c \in Block : inst'[c] = IF c = b THEN "live" ELSE inst[c]
    BY DEF IInv, TypeOK, BlockTypeOK
  <2>2. CallsInv' /\ Releasing' = Releasing
    BY <2>1, CallsGoOn
  <2>3. CountInv'
    BY <2>1, <2>2, ReferencesSame
  <2>4. VarInv' /\ LifeInv' /\ SelfInv' /\ LifeStep
    <3>1. VarInv'
      BY <2>1, VarAssumption DEF IInv, VarInv, Members, Var
    <3>2. LifeInv'
      BY <2>1 DEF IInv, LifeInv
    <3> QED
      BY <2>1, <3>1, <3>2 DEF IInv, SelfInv, LifeStep
  <2> QED
    BY <2>2, <2>3, <2>4 DEF StepSafe, IInv
<1>2. ASSUME NEW b \in Block, MakeSharedThrows(b)
      PROVE  StepSafe
  <2> USE <1>2 DEF MakeSharedThrows, handleVars
  <2>1. \A c \in Block : mem'[c] = IF c = b THEN "freed" ELSE mem[c]
    BY DEF IInv, TypeOK, BlockTypeOK
  <2>2. CallsInv' /\ Releasing' = Releasing
    BY <2>1, CallsGoOn
  <2>3. CountInv'
    BY <2>2, ReferencesSame
  <2>4. VarInv' /\ LifeInv' /\ SelfInv' /\ LifeStep
    <3>1. VarInv'
      BY <2>1, ResetPtrType DEF IInv, VarInv, Handle
    <3>2. LifeInv'
      BY <2>1 DEF IInv, LifeInv, TypeOK, BlockTypeOK
    <3>3. SelfInv'
      BY <2>1 DEF IInv, SelfInv, TypeOK, HandleTypeOK, Handle
    <3> QED
      BY <2>1, <3>1, <3>2, <3>3 DEF LifeStep
  <2> QED
    BY <2>2, <2>3, <2>4 DEF StepSafe, IInv
<1>3. ASSUME NEW b \in Block, NEW c \in Block, CopyInstance(b, c)
      PROVE  StepSafe
  <2> USE <1>3 DEF CopyInstance, blockVars
  <2>1. CallsInv' /\ Releasing' = Releasing
    BY CallsGoOn
  <2>2. CountInv'
    BY <2>1, ReferencesSame
  <2>3. VarInv' /\ LifeInv' /\ SelfInv' /\ LifeStep
    BY DEF IInv, VarInv, LifeInv, SelfInv, LifeStep, TypeOK, HandleTypeOK
  <2> QED
    BY <2>1, <2>2, <2>3 DEF StepSafe, IInv
<1>4. ASSUME NEW v \in SharedVar, DefaultCtor(v)
      PROVE  StepSafe
  <2> USE <1>4 DEF DefaultCtor, blockVars
  <2>1. CallsInv' /\ Releasing' = Releasing
    BY CallsGoOn
  <2>2. CountInv'
    BY <2>1, ReferencesSame
  <2>3. VarInv' /\ LifeInv' /\ SelfInv' /\ LifeStep
    BY DEF IInv, VarInv, LifeInv, SelfInv, LifeStep, Fresh
  <2> QED
    BY <2>1, <2>2, <2>3 DEF StepSafe, IInv
<1> QED
  BY <1>1, <1>2, <1>3, <1>4

(***************************************************************************)
(* Operations that give a block to a new variable.                         *)
(***************************************************************************)
LEMMA GainsOwner ==
  ASSUME IInv, EnoughCounters, NEW v \in SharedVar, v \notin scope, NEW b \in Block,
         mHandle' = [mHandle EXCEPT ![v] = b],
         \A c \in Block : mStrong'[c] = IF c = b THEN mStrong[b] + 1 ELSE mStrong[c],
         UNCHANGED mWeak, Releasing' = Releasing,
         \A c \in Block : inst'[c] = "dying" <=> inst[c] = "dying"
  PROVE  CountInv'
<1>1. v \in Var /\ mHandle[v] = NULL /\ v \notin Releasing
  BY OutOfScope DEF Closable, Free, Var
<1>2. \A x \in Var : mHandle'[x] = IF x = v THEN b ELSE mHandle[x]
  BY <1>1 DEF IInv, TypeOK, HandleTypeOK
<1> SUFFICES ASSUME NEW c \in Block
             PROVE  /\ mStrong'[c] = Cardinality(Owners(c)')
                    /\ mWeak'[c] = Cardinality(Observers(c)') + Temporary(c)'
  BY DEF CountInv
<1>3. mStrong[c] = Cardinality(Owners(c)) /\ mWeak[c] = Cardinality(Observers(c)) + Temporary(c)
  BY DEF IInv, CountInv
<1>4. Observers(c)' = Observers(c) /\ Temporary(c)' = Temporary(c)
  BY <1>2, VarAssumption DEF Observers, Temporary, Var
<1>5. v \notin Owners(c)
  BY <1>1, BlockAssumption DEF Owners
<1>6. Owners(c)' = IF c = b THEN Owners(c) \cup {v} ELSE Owners(c)
  BY <1>1, <1>2, <1>5 DEF Owners, Var
<1>7. Cardinality(Owners(c) \cup {v}) = Cardinality(Owners(c)) + 1
  BY <1>5, OwnersFinite, FS_AddElement
<1> QED
  BY <1>3, <1>4, <1>6, <1>7

\* A block that nobody owns or that is not allocated counts nothing.
LEMMA NoBlockNoCount ==
  ASSUME IInv, NEW b \in Block, mem[b] # "held" \/ inst[b] # "live"
  PROVE  mStrong[b] = 0
  BY DEF IInv, LifeInv, TypeOK, BlockTypeOK, Count

LEMMA CaptureSafe ==
  ASSUME IInv, Disciplined, TypeOK', NEW v \in SharedVar, NEW b \in Block,
         AdoptCtor(v, b) \/ MakeShared(v, b)
  PROVE  StepSafe
<1>1. v \in Var /\ v \notin scope /\ mHandle[v] = NULL /\ Closable(v) /\ Owner[v] = NULL
  BY OutOfScope DEF AdoptCtor, MakeShared, Fresh, Var
<1>2. mem[b] = "none" /\ inst[b] \in {"none", "live"} /\ mStrong[b] = 0
  BY NoBlockNoCount DEF AdoptCtor, MakeShared, Raw
<1>3. /\ \A c \in Block : mStrong'[c] = IF c = b THEN 1 ELSE mStrong[c]
      /\ \A c \in Block : mem'[c] = IF c = b THEN "held" ELSE mem[c]
      /\ \A c \in Block : inst'[c] = IF c = b THEN "live" ELSE inst[c]
      /\ \A x \in Var : mHandle'[x] = IF x = v THEN b ELSE mHandle[x]
      /\ \A c \in Block : shared_from_this_data'[c] \in {b, shared_from_this_data[c]}
      /\ mHandle' = [mHandle EXCEPT ![v] = b]
      /\ UNCHANGED <<mWeak, stack, fault>>
  BY <1>1, <1>2 DEF AdoptCtor, MakeShared, constructed, Raw, IInv, TypeOK, BlockTypeOK, HandleTypeOK,
                    set_shared_from_this
<1>4. scope \cup {v} \subseteq scope' /\ scope' \subseteq scope \cup {v} \cup Members(b)
  BY DEF AdoptCtor, MakeShared
<1>5. CallsInv' /\ Releasing' = Releasing
  <2>1. inst[b] = "live" => Raw(b)
    BY DEF AdoptCtor, MakeShared
  <2> QED
    BY <1>1, <1>2, <1>3, <1>4, <2>1, CallsGoOn DEF Closable
<1>6. CountInv'
  <2>1. \A c \in Block : mStrong'[c] = IF c = b THEN mStrong[b] + 1 ELSE mStrong[c]
    BY <1>2, <1>3
  <2>2. \A c \in Block : inst'[c] = "dying" <=> inst[c] = "dying"
    BY <1>2, <1>3
  <2> QED
    BY <1>1, <1>3, <1>5, <2>1, <2>2, GainsOwner DEF Disciplined
<1>7. VarInv'
  BY <1>1, <1>2, <1>3, <1>4, ResetPtrType, VarAssumption
  DEF IInv, VarInv, Members, Handle
<1>8. LifeInv'
  BY <1>2, <1>3 DEF IInv, LifeInv
<1>9. SelfInv' /\ LifeStep
  BY <1>2, <1>3 DEF IInv, SelfInv, LifeStep, TypeOK, HandleTypeOK, Handle
<1> QED
  BY <1>3, <1>5, <1>6, <1>7, <1>8, <1>9 DEF StepSafe, IInv

LEMMA PrivateCtorSafe ==
  ASSUME IInv, Disciplined, TypeOK',
         NEW v \in SharedVar, NEW h \in Handle, NEW p \in {NULL, h}, NEW tracks,
         h # NULL => mStrong[h] > 0,
         PrivateCtor(v, h, p, tracks)
  PROVE  StepSafe
<1>1. v \in Var /\ v \notin scope /\ mHandle[v] = NULL /\ Closable(v) /\ Owner[v] = NULL
  BY OutOfScope DEF PrivateCtor, Fresh, Var
<1>2. h # NULL => h \in Block /\ inst[h] = "live" /\ mem[h] = "held"
  BY DEF IInv, LifeInv, Handle
<1>3. /\ \A x \in Var : mHandle'[x] = IF x = v THEN h ELSE mHandle[x]
      /\ \A c \in Block : shared_from_this_data'[c] \in {h, shared_from_this_data[c]}
      /\ mHandle' = [mHandle EXCEPT ![v] = h]
      /\ scope' = scope \cup {v}
      /\ UNCHANGED <<mWeak, mem, inst, stack>>
  BY <1>1 DEF PrivateCtor, IInv, TypeOK, HandleTypeOK, set_shared_from_this
<1>4. fault' = "none"
  BY <1>2 DEF PrivateCtor, Dangling
<1>5. CallsInv' /\ Releasing' = Releasing
  BY <1>1, <1>3, CallsGoOn DEF Closable
<1>6. CountInv' /\ LifeInv'
  <2>1. CASE h = NULL
    <3>1. mStrong' = mStrong /\ mHandle' = mHandle
      BY <1>1, <1>3, <2>1 DEF PrivateCtor, add_shared, IInv, TypeOK, HandleTypeOK
    <3> QED
      BY <1>3, <1>5, <3>1, ReferencesSame DEF IInv, LifeInv
  <2>2. CASE h # NULL
    <3>1. v \notin Owners(h)
      BY <1>1, <2>2 DEF Owners
    <3>2. mStrong[h] < MaxCount
      BY <1>2, <2>2, <3>1, OwnersFinite DEF IInv, CountInv, Disciplined
    <3>3. \A c \in Block : mStrong'[c] = IF c = h THEN mStrong[h] + 1 ELSE mStrong[c]
      <4>1. mStrong[h] # MaxCount
        BY <1>2, <2>2, <3>2, CountAssumption DEF IInv, TypeOK, BlockTypeOK, Count
      <4> QED
        BY <1>2, <2>2, <4>1 DEF PrivateCtor, add_shared, Inc, IInv, TypeOK, BlockTypeOK
    <3>4. CountInv'
      BY <1>1, <1>2, <1>3, <1>5, <2>2, <3>3, GainsOwner DEF Disciplined
    <3>5. LifeInv'
      BY <1>2, <1>3, <2>2, <3>3 DEF IInv, LifeInv, TypeOK, BlockTypeOK, Count
    <3> QED
      BY <3>4, <3>5
  <2> QED
    BY <2>1, <2>2
<1>7. VarInv'
  BY <1>1, <1>2, <1>3 DEF IInv, VarInv
<1>8. SelfInv' /\ LifeStep
  BY <1>2, <1>3 DEF IInv, SelfInv, LifeStep
<1> QED
  BY <1>4, <1>5, <1>6, <1>7, <1>8 DEF StepSafe

(***************************************************************************)
(* Operations that exchange the blocks of two variables of the same class: *)
(* swap, and the move constructors, whose new variable holds nothing.      *)
(***************************************************************************)
LEMMA ExchangeSafe ==
  ASSUME IInv, Disciplined, TypeOK',
         NEW S \in {SharedVar, WeakVar}, NEW v \in S, NEW u \in S,
         Free(v), Free(u),
         mHandle' = [mHandle EXCEPT ![v] = mHandle[u], ![u] = mHandle[v]],
         scope' = scope \cup {v}, u \in scope, v \in scope \/ Owner[v] = NULL,
         UNCHANGED <<blockVars, shared_from_this_data, stack, fault>>
  PROVE  StepSafe
<1> USE DEF blockVars
<1>1. v \in Var /\ u \in Var
  BY DEF Var
<1>2. \A x \in Var : mHandle'[x] = IF x = v THEN mHandle[u] ELSE IF x = u THEN mHandle[v] ELSE mHandle[x]
  BY <1>1 DEF IInv, TypeOK, HandleTypeOK
<1>3. CallsInv' /\ Releasing' = Releasing
  BY <1>1, <1>2, CallsGoOn
<1>4. CountInv'
  <2> SUFFICES ASSUME NEW c \in Block
               PROVE  /\ Cardinality(Owners(c)') = Cardinality(Owners(c))
                      /\ Cardinality(Observers(c)') = Cardinality(Observers(c))
    BY DEF IInv, CountInv, Temporary
  <2>1. IsFiniteSet(Owners(c)) /\ IsFiniteSet(Observers(c))
    BY OwnersFinite, ObserversFinite DEF Disciplined
  <2>2. CASE S = SharedVar
    <3>1. Observers(c)' = Observers(c)
      BY <1>2, <2>2, VarAssumption DEF Observers, Var
    <3>2. /\ v \in Owners(c)' <=> u \in Owners(c)
          /\ u \in Owners(c)' <=> v \in Owners(c)
          /\ \A x : x \notin {v, u} => (x \in Owners(c)' <=> x \in Owners(c))
      BY <1>2, <1>3, <2>2 DEF Owners, Var, Free
    <3> QED
      BY <2>1, <3>1, <3>2, Exchanged
  <2>3. CASE S = WeakVar
    <3>1. Owners(c)' = Owners(c)
      BY <1>2, <1>3, <2>3, VarAssumption DEF Owners, Var
    <3>2. /\ v \in Observers(c)' <=> u \in Observers(c)
          /\ u \in Observers(c)' <=> v \in Observers(c)
          /\ \A x : x \notin {v, u} => (x \in Observers(c)' <=> x \in Observers(c))
      BY <1>2, <2>3 DEF Observers, Var
    <3> QED
      BY <2>1, <3>1, <3>2, Exchanged
  <2> QED
    BY <2>2, <2>3
<1>5. VarInv'
  <2> SUFFICES ASSUME NEW x \in Var
               PROVE  /\ mHandle'[x] # NULL => x \in scope' /\ mem[mHandle'[x]] = "held"
                      /\ x \in scope' /\ Owner[x] # NULL => inst[Owner[x]] \in {"live", "dying"}
    BY DEF VarInv
  <2>1. PICK y \in Var : mHandle'[x] = mHandle[y]
    BY <1>1, <1>2
  <2> QED
    BY <1>1, <1>2, <2>1 DEF IInv, VarInv
<1>6. LifeInv' /\ SelfInv' /\ LifeStep
  BY DEF IInv, LifeInv, SelfInv, LifeStep
<1> QED
  BY <1>3, <1>4, <1>5, <1>6 DEF StepSafe, IInv

(***************************************************************************)
(* weak_ptr: reset() of w.                                                 *)
(***************************************************************************)
LEMMA WeakResetCounts ==
  ASSUME IInv, Disciplined, NEW w \in WeakVar, NEW c \in Block
  PROVE  weak_reset(w)[c] = Cardinality(Observers(c) \ {w}) + Temporary(c)
<1>1. w \in Var /\ mHandle[w] \in Handle
  BY ResetPtrType DEF IInv, Var
<1>2. IsFiniteSet(Observers(c)) /\ Cardinality(Observers(c)) \in Nat
  BY ObserversFinite DEF Disciplined
<1>3. mWeak[c] = Cardinality(Observers(c)) + Temporary(c) /\ Temporary(c) \in Nat
  BY DEF IInv, CountInv, Temporary
<1>4. CASE mHandle[w] = c
  <2>1. w \in Observers(c)
    BY <1>4 DEF Observers
  <2>2. Cardinality(Observers(c) \ {w}) = Cardinality(Observers(c)) - 1
    BY <1>2, <2>1, FS_RemoveElement
  <2>3. Cardinality(Observers(c) \ {w}) \in Nat
    BY <1>2, FS_RemoveElement, FS_CardinalityType
  <2>4. mWeak[c] # 0
    BY <1>2, <1>3, <2>2, <2>3
  <2>5. weak_reset(w)[c] = mWeak[c] - 1
    BY <1>4, <2>4, BlockAssumption DEF weak_reset, release_weak, Dec, IInv, TypeOK, BlockTypeOK
  <2> QED
    BY <1>2, <1>3, <2>2, <2>5
<1>5. CASE mHandle[w] # c
  <2>1. Observers(c) \ {w} = Observers(c)
    BY <1>5 DEF Observers
  <2>2. weak_reset(w)[c] = mWeak[c]
    BY <1>1, <1>5 DEF weak_reset, release_weak, Handle, IInv, TypeOK, BlockTypeOK
  <2> QED
    BY <1>3, <2>1, <2>2
<1> QED
  BY <1>4, <1>5

LEMMA WeakResetMemory ==
  ASSUME IInv, Disciplined, NEW w \in WeakVar, NEW c \in Block
  PROVE  /\ weak_reset(w)[c] \in Nat
         /\ \/ mem_reset(w)[c] = mem[c]
            \/ /\ mem[c] = "held" /\ mem_reset(w)[c] = "freed" /\ inst[c] = "dead"
               /\ mStrong[c] = 0 /\ \A x \in Observers(c) : x = w
         /\ mem_reset(w)[c] = "held" => mStrong[c] > 0 \/ weak_reset(w)[c] > 0
<1>1. w \in Var /\ mHandle[w] \in Handle
  BY ResetPtrType DEF IInv, Var
<1>2. weak_reset(w)[c] = Cardinality(Observers(c) \ {w}) + Temporary(c)
  BY WeakResetCounts
<1>3. IsFiniteSet(Observers(c) \ {w}) /\ Cardinality(Observers(c) \ {w}) \in Nat
  BY ObserversFinite, FS_RemoveElement, FS_CardinalityType DEF Disciplined
<1>4. weak_reset(w)[c] \in Nat /\ mStrong[c] \in Nat
  BY <1>2, <1>3 DEF Temporary, IInv, TypeOK, BlockTypeOK, Count
<1>5. CASE mHandle[w] = c
  <2>1. mem[c] = "held" /\ c # NULL
    BY <1>1, <1>5, BlockAssumption DEF IInv, VarInv
  <2>2. CASE weak_reset(w)[c] = 0 /\ mStrong[c] = 0
    <3>1. mem_reset(w)[c] = "freed"
      BY <1>5, <2>1, <2>2 DEF mem_reset, release_weak_mem, adjust, IInv, TypeOK, BlockTypeOK
    <3>2. Temporary(c) = 0 /\ Cardinality(Observers(c) \ {w}) = 0
      BY <1>2, <1>3, <2>2 DEF Temporary
    <3>3. Observers(c) \ {w} = {}
      BY <1>3, <3>2, FS_EmptySet
    <3>4. inst[c] = "dead"
      BY <2>1, <2>2, <3>2 DEF Temporary, IInv, LifeInv, TypeOK, BlockTypeOK, InstState
    <3> QED
      BY <1>4, <2>1, <2>2, <3>1, <3>3, <3>4
  <2>3. CASE ~ (weak_reset(w)[c] = 0 /\ mStrong[c] = 0)
    <3>1. mem_reset(w)[c] = mem[c]
      BY <1>5, <2>3 DEF mem_reset, release_weak_mem, adjust
    <3> QED
      BY <1>4, <2>3, <3>1
  <2> QED
    BY <2>2, <2>3
<1>6. CASE mHandle[w] # c
  <2>1. mem_reset(w)[c] = mem[c]
    BY <1>1, <1>6 DEF mem_reset, release_weak_mem, adjust, Handle, IInv, TypeOK, BlockTypeOK
  <2>2. weak_reset(w)[c] = mWeak[c]
    BY <1>1, <1>6 DEF weak_reset, release_weak, Handle, IInv, TypeOK, BlockTypeOK
  <2> QED
    BY <1>4, <2>1, <2>2 DEF IInv, LifeInv
<1> QED
  BY <1>5, <1>6

\* What the other variables hold stays allocated.
LEMMA WeakResetSpares ==
  ASSUME IInv, Disciplined, NEW w \in WeakVar, NEW y \in Var, y # w, mHandle[y] # NULL
  PROVE  mHandle[y] \in Block /\ mem_reset(w)[mHandle[y]] = "held"
<1>1. mHandle[y] \in Block /\ mem[mHandle[y]] = "held"
  BY ResetPtrType DEF IInv, VarInv, Handle
<1>2. CASE y \in WeakVar
  <2>1. y \in Observers(mHandle[y])
    BY <1>2 DEF Observers
  <2> QED
    BY <1>1, <2>1, WeakResetMemory
<1>3. CASE y \in SharedVar /\ y \notin Releasing
  BY <1>1, <1>3, HolderOwns, WeakResetMemory DEF Disciplined
<1>4. CASE y \in Releasing
  <2>1. inst[mHandle[y]] = "dying"
    BY <1>4 DEF Releasing, IInv, FrameInv
  <2> QED
    BY <1>1, <2>1, WeakResetMemory
<1> QED
  BY <1>2, <1>3, <1>4 DEF Var

LEMMA WeakBlocksSafe ==
  ASSUME IInv, Disciplined, NEW w \in WeakVar,
         mem' = mem_reset(w),
         UNCHANGED <<mStrong, inst, shared_from_this_data>>,
         \A c \in Block : weak_reset(w)[c] > 0 => mWeak'[c] > 0
  PROVE  LifeInv' /\ SelfInv' /\ LifeStep
<1>1. LifeInv'
  <2> SUFFICES ASSUME NEW c \in Block
               PROVE  /\ mStrong[c] > 0 <=> inst[c] = "live" /\ mem'[c] = "held"
                      /\ inst[c] = "dying" => mem'[c] = "held"
                      /\ mem'[c] = "held" => inst[c] # "none" /\ (mStrong[c] > 0 \/ mWeak'[c] > 0)
                      /\ mem'[c] = "freed" => inst[c] # "live"
    BY DEF LifeInv
  <2> QED
    BY WeakResetMemory DEF IInv, LifeInv
<1>2. SelfInv'
  <2> SUFFICES ASSUME NEW c \in Block, shared_from_this_data[c] # NULL
               PROVE  mem'[shared_from_this_data[c]] # "none"
    BY DEF SelfInv
  <2>1. shared_from_this_data[c] \in Block
    BY DEF IInv, TypeOK, HandleTypeOK, Handle
  <2> QED
    BY <2>1, WeakResetMemory DEF IInv, SelfInv
<1>3. LifeStep
  BY WeakResetMemory DEF LifeStep
<1> QED
  BY <1>1, <1>2, <1>3

LEMMA UpdateSafe ==
  ASSUME IInv, Disciplined, TypeOK',
         NEW w \in WeakVar, NEW h \in Handle, NEW p, NEW extent,
         Closable(w) \/ (Free(w) /\ w \in extent),
         scope \ {w} \subseteq extent, \A x \in extent : x \in scope \/ Fresh(x),
         h # NULL => w \in extent /\ \E y \in Var : y # w /\ mHandle[y] = h,
         Update(w, p, h, extent)
  PROVE  StepSafe
<1>1. w \in Var /\ mHandle[w] \in Handle /\ w \notin SharedVar
  BY ResetPtrType, VarAssumption DEF IInv, Var
<1>2. h # NULL => h \in Block /\ mem_reset(w)[h] = "held"
  BY WeakResetSpares
<1>3. fault' = "none"
  BY <1>1, <1>2, NothingDangles DEF Update
<1>4. /\ \A x \in Var : mHandle'[x] = IF x = w THEN (IF Assigns(h) THEN h ELSE NULL) ELSE mHandle[x]
      /\ mWeak' = IF Assigns(h) THEN add_weak(weak_reset(w), h) ELSE weak_reset(w)
      /\ mem' = mem_reset(w) /\ scope' = extent
      /\ UNCHANGED <<mStrong, inst, shared_from_this_data, stack>>
  BY <1>1 DEF Update, IInv, TypeOK, HandleTypeOK
<1>5. \A c \in Block : mem[c] = "none" => mem'[c] = "none"
  BY <1>4, WeakResetMemory
<1>6. CallsInv' /\ Releasing' = Releasing
  BY <1>1, <1>4, <1>5, CallsGoOn DEF Closable
<1>7. CountInv' /\ \A c \in Block : weak_reset(w)[c] > 0 => mWeak'[c] > 0
  <2> SUFFICES ASSUME NEW c \in Block
               PROVE  /\ mStrong[c] = Cardinality(Owners(c)')
                      /\ mWeak'[c] = Cardinality(Observers(c)') + Temporary(c)
                      /\ weak_reset(w)[c] > 0 => mWeak'[c] > 0
    BY <1>4 DEF CountInv, Temporary
  <2>1. Owners(c)' = Owners(c)
    BY <1>1, <1>4, <1>6 DEF Owners, Var
  <2>2. mStrong[c] = Cardinality(Owners(c)')
    BY <2>1 DEF IInv, CountInv
  <2>3. weak_reset(w)[c] = Cardinality(Observers(c) \ {w}) + Temporary(c) /\ weak_reset(w)[c] \in Nat
    BY WeakResetCounts, WeakResetMemory
  <2>4. CASE Assigns(h) /\ c = h
    <3>1. Observers(c)' = (Observers(c) \ {w}) \cup {w}
      BY <1>4, <2>4 DEF Observers, Var
    <3>2. IsFiniteSet(Observers(c) \ {w}) /\ Cardinality(Observers(c) \ {w}) \in Nat
      BY ObserversFinite, FS_RemoveElement, FS_CardinalityType DEF Disciplined
    <3>3. Cardinality(Observers(c)') = Cardinality(Observers(c) \ {w}) + 1
      BY <3>1, <3>2, FS_AddElement
    <3>4. Cardinality(Observers(c) \ {w}) + 1 < MaxCount
      <4>1. Cardinality(Observers(c) \ {w})
              = IF w \in Observers(c) THEN Cardinality(Observers(c)) - 1 ELSE Cardinality(Observers(c))
        BY ObserversFinite, FS_RemoveElement DEF Disciplined
      <4> QED
        BY <4>1, ObserversFinite, CountAssumption DEF Disciplined
    <3>5. Temporary(c) \in {0, 1}
      BY DEF Temporary
    <3>6. weak_reset(w)[c] # MaxCount
      BY <2>3, <3>2, <3>4, <3>5, CountAssumption
    <3>7. weak_reset(w) \in [Block -> Count]
      BY <1>1, WeakCountType DEF weak_reset, IInv, TypeOK, BlockTypeOK
    <3>8. mWeak'[c] = weak_reset(w)[c] + 1
      BY <1>4, <2>4, <3>6, <3>7, BlockAssumption DEF add_weak, Inc
    <3> QED
      BY <2>2, <2>3, <3>2, <3>3, <3>5, <3>8
  <2>5. CASE ~ (Assigns(h) /\ c = h)
    <3>1. Observers(c)' = Observers(c) \ {w}
      BY <1>4, <2>5, BlockAssumption DEF Observers, Var
    <3>2. weak_reset(w) \in [Block -> Count]
      BY <1>1, WeakCountType DEF weak_reset, IInv, TypeOK, BlockTypeOK
    <3>3. mWeak'[c] = weak_reset(w)[c]
      BY <1>2, <1>4, <2>5, <3>2 DEF add_weak
    <3> QED
      BY <2>2, <2>3, <3>1, <3>3
  <2> QED
    BY <2>4, <2>5
<1>8. VarInv'
  <2> SUFFICES ASSUME NEW x \in Var
               PROVE  /\ mHandle'[x] # NULL => x \in extent /\ mem'[mHandle'[x]] = "held"
                      /\ x \in extent /\ Owner[x] # NULL => inst[Owner[x]] \in {"live", "dying"}
    BY <1>4 DEF VarInv
  <2>1. mHandle'[x] # NULL => x \in extent /\ mem'[mHandle'[x]] = "held"
    <3>1. CASE x = w
      BY <1>2, <1>4, <3>1
    <3>2. CASE x # w
      BY <1>4, <3>2, WeakResetSpares DEF IInv, VarInv
    <3> QED
      BY <3>1, <3>2
  <2>2. x \in extent /\ Owner[x] # NULL => inst[Owner[x]] \in {"live", "dying"}
    BY DEF IInv, VarInv, Fresh
  <2> QED
    BY <2>1, <2>2
<1>9. LifeInv' /\ SelfInv' /\ LifeStep
  BY <1>4, <1>7, WeakBlocksSafe
<1> QED
  BY <1>3, <1>6, <1>7, <1>8, <1>9 DEF StepSafe

\* Move assignment: reset() of w, which then takes the place of x.
LEMMA WeakMoveAssignSafe ==
  ASSUME IInv, Disciplined, TypeOK',
         NEW w \in WeakVar, NEW x \in WeakVar, WeakMoveAssign(w, x)
  PROVE  StepSafe
<1>1. /\ w \in Var /\ x \in Var /\ w # x
      /\ w \in scope /\ x \in scope /\ Free(w) /\ Free(x)
      /\ w \notin SharedVar /\ x \notin SharedVar
  BY Discipline, VarAssumption DEF WeakMoveAssign, Disciplined, Var
<1>2. fault' = "none"
  BY <1>1, NothingDangles DEF WeakMoveAssign
<1>3. /\ \A y \in Var : mHandle'[y] = IF y = w THEN mHandle[x] ELSE IF y = x THEN NULL ELSE mHandle[y]
      /\ mWeak' = weak_reset(w) /\ mem' = mem_reset(w)
      /\ UNCHANGED <<mStrong, inst, scope, shared_from_this_data, stack>>
  BY <1>1 DEF WeakMoveAssign, IInv, TypeOK, HandleTypeOK
<1>4. \A c \in Block : mem[c] = "none" => mem'[c] = "none"
  BY <1>3, WeakResetMemory
<1>5. CallsInv' /\ Releasing' = Releasing
  BY <1>1, <1>3, <1>4, CallsGoOn
<1>6. CountInv'
  <2> SUFFICES ASSUME NEW c \in Block
               PROVE  /\ mStrong[c] = Cardinality(Owners(c)')
                      /\ mWeak'[c] = Cardinality(Observers(c)') + Temporary(c)
    BY <1>3 DEF CountInv, Temporary
  <2>1. Owners(c)' = Owners(c)
    BY <1>1, <1>3, <1>5 DEF Owners, Var
  <2>2. mWeak'[c] = Cardinality(Observers(c) \ {w}) + Temporary(c)
    BY <1>3, WeakResetCounts
  <2>3. IsFiniteSet(Observers(c) \ {w})
    BY ObserversFinite, FS_RemoveElement DEF Disciplined
  <2>4. /\ w \in Observers(c)' <=> x \in Observers(c) \ {w}
        /\ x \in Observers(c)' <=> w \in Observers(c) \ {w}
        /\ \A y : y \notin {w, x} => (y \in Observers(c)' <=> y \in Observers(c) \ {w})
    BY <1>1, <1>3, BlockAssumption DEF Observers, Var
  <2>5. Cardinality(Observers(c)') = Cardinality(Observers(c) \ {w})
    BY <2>3, <2>4, Exchanged
  <2> QED
    BY <2>1, <2>2, <2>5 DEF IInv, CountInv
<1>7. VarInv'
  <2> SUFFICES ASSUME NEW y \in Var, mHandle'[y] # NULL
               PROVE  y \in scope /\ mem'[mHandle'[y]] = "held"
    BY <1>3 DEF VarInv, IInv
  <2>1. CASE y = w
    BY <1>1, <1>3, <2>1, WeakResetSpares
  <2>2. CASE y # w
    BY <1>1, <1>3, <2>2, WeakResetSpares DEF IInv, VarInv
  <2> QED
    BY <2>1, <2>2
<1>8. LifeInv' /\ SelfInv' /\ LifeStep
  BY <1>3, WeakBlocksSafe
<1> QED
  BY <1>2, <1>5, <1>6, <1>7, <1>8 DEF StepSafe

(***************************************************************************)
(* shared_ptr_nc: the end of every function that releases a reference of v *)
(* (operator Complete), from the state in between, in which v has given up *)
(* its reference and the other variables own what they did before.         *)
(***************************************************************************)

\* The owners of b when v is none of them.
OthersLeft(v, b) == {u \in SharedVar : mHandle[u] = b /\ u \notin Releasing' /\ u # v}

LEMMA OthersFinite ==
  ASSUME EnoughCounters, NEW v \in SharedVar, NEW b
  PROVE  /\ IsFiniteSet(OthersLeft(v, b))
         /\ Cardinality(OthersLeft(v, b)) \in Nat
         /\ Cardinality(OthersLeft(v, b)) < MaxCount
<1>1. IsFiniteSet(SharedVar)
  BY FS_Subset DEF EnoughCounters, Var
<1>2. OthersLeft(v, b) \subseteq SharedVar \ {v}
  BY DEF OthersLeft
<1>3. IsFiniteSet(SharedVar \ {v}) /\ Cardinality(SharedVar \ {v}) = Cardinality(SharedVar) - 1
  BY <1>1, FS_RemoveElement
<1>4. IsFiniteSet(OthersLeft(v, b)) /\ Cardinality(OthersLeft(v, b)) <= Cardinality(SharedVar \ {v})
  BY <1>2, <1>3, FS_Subset
<1>5. Cardinality(OthersLeft(v, b)) \in Nat /\ Cardinality(SharedVar) \in Nat
  BY <1>1, <1>4, FS_CardinalityType
<1> QED
  BY <1>3, <1>4, <1>5, CountAssumption DEF EnoughCounters

\* The state in between, with the strong counts s and the block memory m.
InBetween(v, s, m) ==
  /\ \A b \in Block : s[b] = Cardinality(OthersLeft(v, b))
  /\ \A b \in Block : mWeak'[b] = Cardinality(Observers(b)) + Temporary(b)'
  /\ \A x \in Var : x # v /\ mHandle[x] # NULL => m[mHandle[x]] = "held"
  /\ \A x \in scope : Owner[x] # NULL => inst'[Owner[x]] \in {"live", "dying"}
  /\ \A b \in Block :
       /\ s[b] > 0 <=> inst'[b] = "live" /\ m[b] = "held"
       /\ inst'[b] = "dying" => m[b] = "held"
       /\ m[b] = "held" => inst'[b] # "none" /\ (s[b] > 0 \/ mWeak'[b] > 0)
       /\ m[b] = "freed" => inst'[b] # "live"
       /\ m[b] = "none" => mem[b] = "none"

\* The variable and the source or instance that the rest of the function uses.
Ready(v, then, arg, m) ==
  /\ v \in scope /\ v \notin Releasing'
  /\ then \in {"copy", "move"} => arg \in scope /\ arg \notin Releasing' /\ arg # v
  /\ then = "adopt" => inst'[arg] = "live" /\ m[arg] = "none"

LEMMA CompleteHandles ==
  ASSUME IInv, NEW v \in SharedVar, NEW then \in Then, NEW arg \in Operand(then), NEW s, NEW m,
         Complete(v, then, arg, s, m)
  PROVE  /\ \A x \in Var :
              mHandle'[x] = IF x = v THEN Incoming(then, arg)
                            ELSE IF then = "move" /\ x = arg THEN NULL ELSE mHandle[x]
         /\ then \in {"copy", "move"} => arg \in SharedVar
         /\ then = "adopt" => arg \in Block
         /\ Incoming(then, arg) \in Handle
         /\ v \in Var
  BY IncomingType DEF Complete, Operand, IInv, Var

LEMMA CompleteCounts ==
  ASSUME IInv, Disciplined,
         NEW v \in SharedVar, NEW then \in Then, NEW arg \in Operand(then),
         NEW s \in [Block -> Count], NEW m \in [Block -> MemState],
         Complete(v, then, arg, s, m), InBetween(v, s, m), Ready(v, then, arg, m)
  PROVE  /\ CountInv'
         /\ \A b \in Block : mStrong'[b] > 0 <=> s[b] > 0 \/ (then = "adopt" /\ b = arg)
<1> SUFFICES ASSUME NEW b \in Block
             PROVE  /\ mStrong'[b] = Cardinality(Owners(b)')
                    /\ mWeak'[b] = Cardinality(Observers(b)') + Temporary(b)'
                    /\ mStrong'[b] > 0 <=> s[b] > 0 \/ (then = "adopt" /\ b = arg)
  BY DEF CountInv
<1> DEFINE O == OthersLeft(v, b)
           h == Incoming(then, arg)
<1>1. /\ \A x \in Var : mHandle'[x] = IF x = v THEN h
                                      ELSE IF then = "move" /\ x = arg THEN NULL ELSE mHandle[x]
      /\ then \in {"copy", "move"} => arg \in SharedVar
      /\ then = "adopt" => arg \in Block
      /\ h \in Handle /\ v \in Var
  BY CompleteHandles
<1>2. s[b] = Cardinality(O) /\ IsFiniteSet(O) /\ Cardinality(O) \in Nat /\ Cardinality(O) < MaxCount
  BY OthersFinite DEF InBetween, Disciplined
<1>3. Observers(b)' = Observers(b)
  BY <1>1, VarAssumption DEF Observers, Var
<1>4. mWeak'[b] = Cardinality(Observers(b)') + Temporary(b)'
  BY <1>3 DEF InBetween
<1>5. v \notin O
  BY DEF OthersLeft
<1>6. CASE then \in {"destroy", "reset"} \/ (then = "copy" /\ h # b)
  <2>1. Owners(b)' = O
    BY <1>1, <1>6, BlockAssumption DEF Owners, OthersLeft, Incoming, Var
  <2>2. mStrong'[b] = s[b]
    BY <1>1, <1>6 DEF Complete, add_shared, Handle
  <2> QED
    BY <1>2, <1>4, <1>6, <2>1, <2>2
<1>7. CASE then = "copy" /\ h = b
  <2>1. Owners(b)' = O \cup {v}
    BY <1>1, <1>7 DEF Owners, OthersLeft, Ready, Var
  <2>2. Cardinality(O \cup {v}) = Cardinality(O) + 1
    BY <1>2, <1>5, FS_AddElement
  <2>3. arg \in O
    BY <1>1, <1>7 DEF OthersLeft, Incoming, Ready
  <2>4. Cardinality(O) # 0
    BY <1>2, <2>3, FS_EmptySet
  <2>5. s[b] # MaxCount
    BY <1>2, CountAssumption
  <2>6. mStrong'[b] = s[b] + 1
    BY <1>7, <2>5, BlockAssumption DEF Complete, add_shared, Inc
  <2> QED
    BY <1>2, <1>4, <1>7, <2>1, <2>2, <2>4, <2>6
<1>8. CASE then = "move"
  <2>1. mStrong'[b] = s[b]
    BY <1>8 DEF Complete
  <2>2. /\ v \in Owners(b)' <=> arg \in O
        /\ arg \in Owners(b)' <=> v \in O
        /\ \A x : x \notin {v, arg} => (x \in Owners(b)' <=> x \in O)
    BY <1>1, <1>8, BlockAssumption DEF Owners, OthersLeft, Incoming, Ready, Var
  <2>3. Cardinality(Owners(b)') = Cardinality(O)
    BY <1>2, <2>2, Exchanged
  <2> QED
    BY <1>2, <1>4, <1>8, <2>1, <2>3
<1>9. CASE then = "adopt" /\ arg # b
  <2>1. Owners(b)' = O
    BY <1>1, <1>9 DEF Owners, OthersLeft, Incoming, Var
  <2>2. mStrong'[b] = s[b]
    BY <1>1, <1>9 DEF Complete, constructed
  <2> QED
    BY <1>2, <1>4, <1>9, <2>1, <2>2
<1>10. CASE then = "adopt" /\ arg = b
  <2>1. O = {}
    BY <1>10, BlockAssumption DEF OthersLeft, InBetween, Ready, Var
  <2>2. Owners(b)' = O \cup {v}
    BY <1>1, <1>10 DEF Owners, OthersLeft, Incoming, Ready, Var
  <2>3. Cardinality(O) = 0 /\ Cardinality(O \cup {v}) = Cardinality(O) + 1
    BY <1>2, <1>5, <2>1, FS_AddElement, FS_EmptySet
  <2>4. mStrong'[b] = 1
    BY <1>10 DEF Complete, constructed
  <2> QED
    BY <1>4, <1>10, <2>2, <2>3, <2>4
<1> QED
  BY <1>6, <1>7, <1>8, <1>9, <1>10 DEF Then

LEMMA CompleteSafe ==
  ASSUME IInv, Disciplined,
         NEW v \in SharedVar, NEW then \in Then, NEW arg \in Operand(then),
         NEW s \in [Block -> Count], NEW m \in [Block -> MemState],
         Complete(v, then, arg, s, m), InBetween(v, s, m), Ready(v, then, arg, m)
  PROVE  /\ CompleteFault(v, then, arg, m) = "none"
         /\ VarInv' /\ CountInv' /\ LifeInv' /\ SelfInv'
         /\ \A b \in Block : mem'[b] = IF then = "adopt" /\ b = arg THEN "held" ELSE m[b]
<1> DEFINE h == Incoming(then, arg)
<1>1. /\ \A x \in Var : mHandle'[x] = IF x = v THEN h
                                      ELSE IF then = "move" /\ x = arg THEN NULL ELSE mHandle[x]
      /\ then \in {"copy", "move"} => arg \in SharedVar
      /\ then = "adopt" => arg \in Block
      /\ h \in Handle /\ v \in Var
  BY CompleteHandles
<1>2. \A b \in Block : mem'[b] = IF then = "adopt" /\ b = arg THEN "held" ELSE m[b]
  BY <1>1 DEF Complete
<1>3. h # NULL => h \in Block /\ mem'[h] = "held"
  <2>1. CASE then \in {"copy", "move"}
    BY <1>1, <1>2, <2>1 DEF InBetween, Ready, Incoming, Handle, Var
  <2>2. CASE then = "adopt"
    BY <1>1, <1>2, <2>2 DEF Incoming
  <2> QED
    BY <2>1, <2>2 DEF Incoming
<1>4. CompleteFault(v, then, arg, m) = "none"
  BY <1>1 DEF CompleteFault, InBetween, Ready, Var
<1>5. VarInv'
  <2> SUFFICES ASSUME NEW x \in Var
               PROVE  /\ mHandle'[x] # NULL => x \in scope' /\ mem'[mHandle'[x]] = "held"
                      /\ x \in scope' /\ Owner[x] # NULL => inst'[Owner[x]] \in {"live", "dying"}
    BY DEF VarInv
  <2>1. scope' = IF then = "destroy" THEN scope \ {v} ELSE scope
    BY DEF Complete
  <2>2. CASE x = v
    BY <1>1, <1>3, <2>1, <2>2 DEF InBetween, Ready, Incoming
  <2>3. CASE x # v
    <3>1. mHandle[x] # NULL => x \in scope /\ mHandle[x] \in Block /\ m[mHandle[x]] = "held"
      BY <2>3, ResetPtrType DEF IInv, VarInv, InBetween, Handle
    <3> QED
      BY <1>1, <1>2, <2>1, <2>3, <3>1 DEF InBetween
  <2> QED
    BY <2>2, <2>3
<1>6. CountInv' /\ \A b \in Block : mStrong'[b] > 0 <=> s[b] > 0 \/ (then = "adopt" /\ b = arg)
  BY CompleteCounts
<1>7. LifeInv'
  <2> SUFFICES ASSUME NEW b \in Block
               PROVE  /\ mStrong'[b] > 0 <=> inst'[b] = "live" /\ mem'[b] = "held"
                      /\ inst'[b] = "dying" => mem'[b] = "held"
                      /\ mem'[b] = "held" => inst'[b] # "none" /\ (mStrong'[b] > 0 \/ mWeak'[b] > 0)
                      /\ mem'[b] = "freed" => inst'[b] # "live"
    BY DEF LifeInv
  <2> QED
    BY <1>2, <1>6 DEF InBetween, Ready
<1>8. SelfInv'
  <2> SUFFICES ASSUME NEW b \in Block, shared_from_this_data'[b] # NULL
               PROVE  mem'[shared_from_this_data'[b]] # "none"
    BY DEF SelfInv
  <2>1. CASE shared_from_this_data'[b] = shared_from_this_data[b]
    <3>1. shared_from_this_data[b] \in Block /\ mem[shared_from_this_data[b]] # "none"
      BY <2>1 DEF IInv, SelfInv, TypeOK, HandleTypeOK, Handle
    <3> QED
      BY <1>2, <2>1, <3>1 DEF InBetween
  <2>2. CASE then = "adopt" /\ shared_from_this_data'[b] = arg
    BY <1>1, <1>2, <2>2
  <2>3. \/ shared_from_this_data'[b] = shared_from_this_data[b]
        \/ then = "adopt" /\ shared_from_this_data'[b] = arg
    BY DEF Complete, set_shared_from_this, IInv, TypeOK, HandleTypeOK
  <2> QED
    BY <2>1, <2>2, <2>3
<1> QED
  BY <1>2, <1>4, <1>5, <1>6, <1>7, <1>8

(***************************************************************************)
(* A release, as the discipline permits it.                                *)
(***************************************************************************)
Permitted(v, then, arg) ==
  /\ v \in scope /\ Free(v)
  /\ then = "destroy" => Closable(v)
  /\ then \in {"copy", "move"} => arg \in scope /\ arg \notin Releasing /\ arg # v
  /\ then = "move" => Free(arg)
  /\ then = "adopt" => Raw(arg)

\* What a release that is not the last one leaves in between.
LEMMA ReleaseInBetween ==
  ASSUME IInv, Disciplined, NEW v \in SharedVar, v \notin Releasing, Releasing' = Releasing,
         ~ LastReference(mHandle[v]), UNCHANGED <<mWeak, inst>>
  PROVE  InBetween(v, release_shared(mStrong, mHandle[v]), mem)
<1> DEFINE h == mHandle[v]
           s == release_shared(mStrong, h)
<1>1. v \in Var /\ h \in Handle
  BY ResetPtrType DEF IInv, Var
<1>2. h # NULL => mStrong[h] \in Nat /\ mStrong[h] > 1
  BY HolderOwns DEF LastReference, Disciplined, IInv, TypeOK, BlockTypeOK, Count
<1>3. \A b \in Block : s[b] = IF b = h THEN mStrong[b] - 1 ELSE mStrong[b]
  BY <1>1, <1>2, BlockAssumption DEF release_shared, Dec, Handle, IInv, TypeOK, BlockTypeOK
<1>4. ASSUME NEW b \in Block
      PROVE  s[b] = Cardinality(OthersLeft(v, b))
  <2>1. mStrong[b] = Cardinality(Owners(b)) /\ IsFiniteSet(Owners(b))
    BY OwnersFinite DEF IInv, CountInv, Disciplined
  <2>2. OthersLeft(v, b) = Owners(b) \ {v}
    BY DEF OthersLeft, Owners
  <2>3. v \in Owners(b) <=> h = b
    BY DEF Owners
  <2>4. Cardinality(Owners(b) \ {v})
          = IF v \in Owners(b) THEN Cardinality(Owners(b)) - 1 ELSE Cardinality(Owners(b))
    BY <2>1, FS_RemoveElement
  <2> QED
    BY <1>3, <2>1, <2>2, <2>3, <2>4
<1>5. \A b \in Block : s[b] > 0 <=> mStrong[b] > 0
  BY <1>2, <1>3, BlockAssumption
<1> HIDE DEF s
<1>6. \A b \in Block : mWeak'[b] = Cardinality(Observers(b)) + Temporary(b)'
  BY DEF IInv, CountInv, Temporary
<1>7. \A b \in Block :
        /\ s[b] > 0 <=> inst[b] = "live" /\ mem[b] = "held"
        /\ inst[b] = "dying" => mem[b] = "held"
        /\ mem[b] = "held" => inst[b] # "none" /\ (s[b] > 0 \/ mWeak[b] > 0)
        /\ mem[b] = "freed" => inst[b] # "live"
  BY <1>5 DEF IInv, LifeInv
<1>8. InBetween(v, s, mem)
  <2>1. \A x \in scope : Owner[x] # NULL => inst'[Owner[x]] \in {"live", "dying"}
    BY DEF IInv, VarInv, TypeOK, HandleTypeOK
  <2>2. \A x \in Var : x # v /\ mHandle[x] # NULL => mem[mHandle[x]] = "held"
    BY DEF IInv, VarInv
  <2> QED
    BY <1>4, <1>6, <1>7, <2>1, <2>2 DEF InBetween
<1> QED
  BY <1>8 DEF s

LEMMA ReleaseNotLast ==
  ASSUME IInv, Disciplined, TypeOK',
         NEW v \in SharedVar, NEW then \in Then, NEW arg \in Operand(then),
         Permitted(v, then, arg), ~ LastReference(mHandle[v]),
         Release(v, then, arg)
  PROVE  StepSafe
<1> DEFINE s == release_shared(mStrong, mHandle[v])
<1>1. /\ Complete(v, then, arg, s, mem)
      /\ fault' = IF Dangling(mHandle[v]) THEN "freed_block" ELSE CompleteFault(v, then, arg, mem)
      /\ UNCHANGED <<mWeak, inst, stack>>
  BY DEF Release
<1>2. v \in Var /\ mHandle[v] \in Handle
  BY ResetPtrType DEF IInv, Var
<1>3. s \in [Block -> Count] /\ mem \in [Block -> MemState]
  BY <1>2, StrongCountType DEF IInv, TypeOK, BlockTypeOK
<1>4. Releasing' = Releasing
  BY <1>1 DEF Releasing, Depth
<1>5. InBetween(v, s, mem)
  BY <1>1, <1>4, ReleaseInBetween DEF Permitted, Free
<1>6. Ready(v, then, arg, mem)
  BY <1>1, <1>4 DEF Ready, Permitted, Free, Raw
<1> HIDE DEF s
<1>7. /\ CompleteFault(v, then, arg, mem) = "none"
      /\ VarInv' /\ CountInv' /\ LifeInv' /\ SelfInv'
      /\ \A b \in Block : mem'[b] = IF then = "adopt" /\ b = arg THEN "held" ELSE mem[b]
  BY <1>1, <1>3, <1>5, <1>6, CompleteSafe
<1>8. CallsInv'
  <2>1. /\ \A x \in Var :
              mHandle'[x] = IF x = v THEN Incoming(then, arg)
                            ELSE IF then = "move" /\ x = arg THEN NULL ELSE mHandle[x]
        /\ scope' = IF then = "destroy" THEN scope \ {v} ELSE scope
    BY <1>1, CompleteHandles DEF Complete
  <2>2. \A x \in Var : ~ Free(x) => mHandle'[x] = mHandle[x]
    BY <2>1 DEF Permitted
  <2>3. \A x \in scope : ~ Closable(x) => x \in scope'
    BY <2>1 DEF Permitted
  <2> QED
    BY <1>1, <1>7, <2>2, <2>3, CallsGoOn DEF Permitted
<1>9. LifeStep
  BY <1>1, <1>7 DEF LifeStep, Permitted, Raw
<1>10. fault' = "none"
  BY <1>1, <1>2, <1>7, NothingDangles
<1> QED
  BY <1>7, <1>8, <1>9, <1>10 DEF StepSafe

(***************************************************************************)
(* The release of the last reference starts a destructor: one more call.   *)
(***************************************************************************)
LEMMA CallBegins ==
  ASSUME IInv, Disciplined,
         NEW v \in SharedVar, NEW then \in Then, NEW arg \in Operand(then),
         Permitted(v, then, arg), inst[mHandle[v]] = "live", mHandle[v] \in Block,
         BeginDestruction(v, then, arg)
  PROVE  CallsInv' /\ Releasing' = Releasing \cup {v}
<1> DEFINE b == mHandle[v]
           keep == UNION {Keepers(v, x) : x \in Operands(v, then, arg)}
           f == [blk |-> b, var |-> v, then |-> then, arg |-> arg, body |-> TRUE, keep |-> keep]
<1>1. /\ Depth = 1 .. Len(stack) /\ Len(stack) \in Nat
      /\ stack \in Seq(Frame)
  BY LenProperties DEF Depth, IInv, TypeOK, HandleTypeOK
<1> PICK n \in Nat : n = Len(stack) + 1
  BY <1>1
<1>2. /\ stack' = Append(stack, f)
      /\ mem' = mem /\ UNCHANGED handleVars
      /\ \A c \in Block : inst'[c] = IF c = b THEN "dying" ELSE inst[c]
  BY DEF BeginDestruction, release_last, IInv, TypeOK, BlockTypeOK
<1>3. /\ f.blk = b /\ f.var = v /\ f.then = then /\ f.arg = arg /\ f.keep = keep
  OBVIOUS
<1> HIDE DEF f
<1>4. /\ Depth' = Depth \cup {n} /\ n \notin Depth
      /\ \A i \in Depth : i < n /\ stack'[i] = stack[i]
      /\ stack'[n] = f
  <2>1. Len(stack') = n /\ stack'[n] = f /\ \A i \in 1 .. Len(stack) : stack'[i] = stack[i]
    BY <1>1, <1>2, AppendProperties
  <2>2. DOMAIN stack' = 1 .. n
    BY <1>1, <1>2, AppendProperties
  <2> QED
    BY <1>1, <2>1, <2>2 DEF Depth
<1>5. Releasing' = Releasing \cup {v}
  BY <1>3, <1>4 DEF Releasing
<1>6. \A i \in Depth : OperandsOf(i)' = OperandsOf(i)
  BY <1>4 DEF OperandsOf, Operands
<1>7. OperandsOf(n)' = Operands(v, then, arg)
  BY <1>3, <1>4 DEF OperandsOf, Operands
<1>8. \A i \in Depth : stack[i].blk \in Block /\ stack[i].blk # b
  BY FrameType DEF IInv, FrameInv
<1>9. FrameInv'
  <2>1. \A i \in Depth' : inst'[stack'[i].blk] = "dying" /\ mHandle'[stack'[i].var] = stack'[i].blk
    <3>1. \A i \in Depth : inst'[stack[i].blk] = "dying" /\ mHandle'[stack[i].var] = stack[i].blk
      BY <1>2, <1>8 DEF IInv, FrameInv, handleVars
    <3>2. inst'[f.blk] = "dying" /\ mHandle'[f.var] = f.blk
      BY <1>2, <1>3 DEF handleVars
    <3> QED
      BY <1>4, <3>1, <3>2
  <2>2. ASSUME NEW c \in Block, inst'[c] = "dying"
        PROVE  \E i \in Depth' : stack'[i].blk = c
    <3>1. CASE c = b
      BY <1>3, <1>4, <3>1
    <3>2. CASE c # b
      <4>1. PICK i \in Depth : stack[i].blk = c
        BY <1>2, <2>2, <3>2 DEF IInv, FrameInv
      <4> QED
        BY <1>4, <4>1
    <3> QED
      BY <3>1, <3>2
  <2>3. \A i, j \in Depth' : stack'[i].blk = stack'[j].blk => i = j
    BY <1>3, <1>4, <1>8 DEF IInv, FrameInv
  <2> QED
    BY <2>1, <2>2, <2>3 DEF FrameInv
<1>10. OperandInv'
  <2>1. ASSUME NEW i \in Depth, NEW x \in OperandsOf(i)
        PROVE  x \in scope /\ Outlives(i, x)'
    <3>1. x \in scope /\ Outlives(i, x)
      BY DEF IInv, OperandInv
    <3>2. Outlives(i, x)'
      BY <1>2, <1>4, <3>1 DEF Outlives, handleVars
    <3> QED
      BY <3>1, <3>2
  <2>2. ASSUME NEW x \in Operands(v, then, arg)
        PROVE  x \in scope /\ Outlives(n, x)'
    <3>1. x \in scope /\ x \in Var
      BY DEF Operands, Permitted, IInv, TypeOK, HandleTypeOK
    <3>2. Secured(v, x)
      BY DEF BeginDestruction
    <3>3. CASE Owner[x] = NULL
      BY <3>1, <3>3 DEF Outlives
    <3>4. CASE Owner[x] # NULL /\ inst[Owner[x]] = "dying"
      <4>1. Owner[x] \in Block
        BY <3>1, <3>4, VarAssumption
      <4>2. PICK j \in Depth : stack[j].blk = Owner[x]
        BY <3>4, <4>1 DEF IInv, FrameInv
      <4> QED
        BY <1>4, <3>1, <4>2 DEF Outlives
    <3>5. CASE Owner[x] # NULL /\ Keepers(v, x) # {}
      <4>1. PICK r \in keep : mHandle[r] = Owner[x]
        BY <3>5 DEF Keepers
      <4> QED
        BY <1>2, <1>3, <1>4, <3>1, <4>1 DEF Outlives, handleVars
    <3> QED
      BY <3>2, <3>3, <3>4, <3>5 DEF Secured, Disciplined
  <2> QED
    BY <1>2, <1>4, <1>6, <1>7, <2>1, <2>2 DEF OperandInv, handleVars
<1>11. SourceInv'
  <2>1. ASSUME NEW i \in Depth
        PROVE  /\ stack[i].then \in {"copy", "move"} =>
                    /\ \A j \in Depth : j <= i => stack[i].arg # stack[j].var
                    /\ stack[i].then = "move" =>
                         \A j \in Depth : j < i => stack[i].arg \notin stack[j].keep
               /\ stack[i].then = "destroy" => \A j \in Depth : j < i => stack[i].var \notin OperandsOf(j)
    BY DEF IInv, SourceInv
  <2>2. /\ then \in {"copy", "move"} => arg # v /\ \A j \in Depth : arg # stack[j].var
        /\ then = "move" => \A j \in Depth : arg \notin stack[j].keep
        /\ then = "destroy" => \A j \in Depth : v \notin OperandsOf(j)
    BY DEF Permitted, Free, Closable, Releasing, Kept
  <2>3. \A i, j \in Depth' : i \in Depth /\ j <= i => j \in Depth
    BY <1>1, <1>4
  <2>4. ASSUME NEW i \in Depth'
        PROVE  /\ stack'[i].then \in {"copy", "move"} =>
                    /\ \A j \in Depth' : j <= i => stack'[i].arg # stack'[j].var
                    /\ stack'[i].then = "move" =>
                         \A j \in Depth' : j < i => stack'[i].arg \notin stack'[j].keep
               /\ stack'[i].then = "destroy" =>
                    \A j \in Depth' : j < i => stack'[i].var \notin OperandsOf(j)'
    <3>1. CASE i \in Depth
      <4>1. \A j \in Depth' : j <= i => j \in Depth
        BY <2>3, <3>1
      <4>2. \A j \in Depth' : j < i => j \in Depth
        BY <1>1, <1>4, <3>1
      <4> QED
        BY <1>4, <1>6, <2>1, <3>1, <4>1, <4>2
    <3>2. CASE i = n
      BY <1>1, <1>3, <1>4, <1>6, <2>2, <3>2
    <3> QED
      BY <1>4, <3>1, <3>2
  <2> QED
    BY <2>4 DEF SourceInv
<1>12. KeepInv'
  <2>1. Kept' = Kept \cup keep
    BY <1>3, <1>4 DEF Kept
  <2>2. \A r \in keep : r \in scope /\ r # v /\ r \notin Releasing /\ Owner[r] = NULL
    BY DEF Keepers
  <2>3. \A r \in Kept : r \in scope /\ r # v /\ r \notin Releasing /\ Owner[r] = NULL
    BY DEF IInv, KeepInv, Permitted, Free
  <2> QED
    BY <1>2, <1>5, <2>1, <2>2, <2>3 DEF KeepInv, handleVars
<1>13. AdoptInv'
  <2>1. \A i \in Depth : stack[i].then = "adopt" =>
          stack[i].arg \in Block /\ inst[stack[i].arg] = "live" /\ mem[stack[i].arg] = "none"
    BY FrameType DEF IInv, AdoptInv, Operand
  <2>2. then = "adopt" => /\ arg \in Block /\ inst[arg] = "live" /\ mem[arg] = "none"
                          /\ \A i \in Depth : stack[i].then = "adopt" => stack[i].arg # arg
    BY DEF Permitted, Raw, Operand
  <2>3. mem[b] = "held"
    BY BlockAssumption DEF IInv, VarInv, Var
  <2>4. \A i \in Depth' : stack'[i].then = "adopt" =>
          inst'[stack'[i].arg] = "live" /\ mem'[stack'[i].arg] = "none"
    <3>1. \A i \in Depth : stack[i].then = "adopt" =>
            inst'[stack[i].arg] = "live" /\ mem'[stack[i].arg] = "none"
      BY <1>2, <2>1, <2>3
    <3>2. f.then = "adopt" => inst'[f.arg] = "live" /\ mem'[f.arg] = "none"
      BY <1>2, <1>3, <2>2, <2>3
    <3> QED
      BY <1>4, <3>1, <3>2
  <2>5. \A i, j \in Depth' :
          stack'[i].then = "adopt" /\ stack'[j].then = "adopt" /\ stack'[i].arg = stack'[j].arg => i = j
    BY <1>3, <1>4, <2>2 DEF IInv, AdoptInv
  <2> QED
    BY <2>4, <2>5 DEF AdoptInv
<1> QED
  BY <1>5, <1>9, <1>10, <1>11, <1>12, <1>13 DEF CallsInv

LEMMA ReleaseLast ==
  ASSUME IInv, Disciplined, TypeOK',
         NEW v \in SharedVar, NEW then \in Then, NEW arg \in Operand(then),
         Permitted(v, then, arg), LastReference(mHandle[v]),
         Release(v, then, arg)
  PROVE  StepSafe
<1> DEFINE b == mHandle[v]
<1>1. BeginDestruction(v, then, arg)
  BY DEF Release
<1>2. /\ v \in Var /\ b \in Block /\ v \in Owners(b)
      /\ mStrong[b] = 1 /\ inst[b] = "live" /\ mem[b] = "held"
  BY HolderOwns DEF LastReference, Permitted, Free, Disciplined, Var
<1>3. /\ \A c \in Block : mStrong'[c] = IF c = b THEN 0 ELSE mStrong[c]
      /\ \A c \in Block : mWeak'[c] = IF c = b THEN Inc(mWeak[c]) ELSE mWeak[c]
      /\ \A c \in Block : inst'[c] = IF c = b THEN "dying" ELSE inst[c]
      /\ UNCHANGED <<mem, handleVars>>
  BY <1>1 DEF BeginDestruction, release_last, IInv, TypeOK, BlockTypeOK
<1>4. fault' = "none"
  BY <1>1, <1>2 DEF BeginDestruction, Dangling
<1>5. CallsInv' /\ Releasing' = Releasing \cup {v}
  BY <1>1, <1>2, CallBegins
<1>6. \A c \in Block : mWeak'[c] = mWeak[c] + (IF c = b THEN 1 ELSE 0)
  <2>1. mWeak[b] = Cardinality(Observers(b))
    BY <1>2, ObserversFinite DEF IInv, CountInv, Temporary, Disciplined
  <2>2. mWeak[b] # MaxCount
    BY <2>1, ObserversFinite, CountAssumption DEF Disciplined
  <2>3. \A c \in Block : mWeak[c] \in Nat
    BY DEF IInv, TypeOK, BlockTypeOK, Count
  <2> QED
    BY <1>3, <2>2, <2>3 DEF Inc
<1>7. CountInv'
  <2> SUFFICES ASSUME NEW c \in Block
               PROVE  /\ mStrong'[c] = Cardinality(Owners(c)')
                      /\ mWeak'[c] = Cardinality(Observers(c)') + Temporary(c)'
    BY DEF CountInv
  <2>1. /\ mStrong[c] = Cardinality(Owners(c)) /\ mWeak[c] = Cardinality(Observers(c)) + Temporary(c)
        /\ IsFiniteSet(Owners(c)) /\ Cardinality(Observers(c)) \in Nat
    BY OwnersFinite, ObserversFinite DEF IInv, CountInv, Disciplined
  <2>2. Observers(c)' = Observers(c)
    BY <1>3 DEF Observers, handleVars
  <2>3. Temporary(c)' = Temporary(c) + (IF c = b THEN 1 ELSE 0)
    BY <1>2, <1>3 DEF Temporary
  <2>4. Owners(c)' = Owners(c) \ {v}
    BY <1>3, <1>5 DEF Owners, handleVars
  <2>5. v \in Owners(c) <=> c = b
    BY <1>2 DEF Owners
  <2>6. Cardinality(Owners(c) \ {v})
          = IF v \in Owners(c) THEN Cardinality(Owners(c)) - 1 ELSE Cardinality(Owners(c))
    BY <2>1, FS_RemoveElement
  <2>7. mStrong'[c] = Cardinality(Owners(c)')
    BY <1>2, <1>3, <2>1, <2>4, <2>5, <2>6
  <2>8. mWeak'[c] = Cardinality(Observers(c)') + Temporary(c)'
    BY <1>6, <2>1, <2>2, <2>3 DEF Temporary
  <2> QED
    BY <2>7, <2>8
<1>8. VarInv'
  BY <1>3, VarAssumption DEF IInv, VarInv, handleVars, TypeOK, HandleTypeOK
<1>9. LifeInv'
  <2> SUFFICES ASSUME NEW c \in Block
               PROVE  /\ mStrong'[c] > 0 <=> inst'[c] = "live" /\ mem[c] = "held"
                      /\ inst'[c] = "dying" => mem[c] = "held"
                      /\ mem[c] = "held" => inst'[c] # "none" /\ (mStrong'[c] > 0 \/ mWeak'[c] > 0)
                      /\ mem[c] = "freed" => inst'[c] # "live"
    BY <1>3 DEF LifeInv
  <2>1. CASE c = b
    <3>1. mWeak[b] \in Nat
      BY <1>2 DEF IInv, TypeOK, BlockTypeOK, Count
    <3> QED
      BY <1>2, <1>3, <1>6, <2>1, <3>1
  <2>2. CASE c # b
    <3>1. mStrong'[c] = mStrong[c] /\ mWeak'[c] = mWeak[c] /\ inst'[c] = inst[c]
      BY <1>3, <2>2
    <3> QED
      BY <3>1 DEF IInv, LifeInv
  <2> QED
    BY <2>1, <2>2
<1>10. SelfInv' /\ LifeStep
  BY <1>2, <1>3 DEF IInv, SelfInv, LifeStep, handleVars
<1> QED
  BY <1>4, <1>5, <1>7, <1>8, <1>9, <1>10 DEF StepSafe

LEMMA ReleaseSafe ==
  ASSUME IInv, Disciplined, TypeOK',
         NEW v \in SharedVar, NEW then \in Then, NEW arg \in Operand(then),
         Permitted(v, then, arg), Release(v, then, arg)
  PROVE  StepSafe
  BY ReleaseLast, ReleaseNotLast

(***************************************************************************)
(* Destructors: the end of the body, and the return into the function that *)
(* released the last reference.                                            *)
(***************************************************************************)
LEMMA EndBodySafe ==
  ASSUME IInv, Disciplined, TypeOK', EndBody
  PROVE  StepSafe
<1> USE DEF EndBody, blockVars, handleVars
<1>1. /\ Depth = 1 .. Len(stack) /\ Len(stack) \in Nat /\ stack \in Seq(Frame)
      /\ Len(stack) \in 1 .. Len(stack)
  BY LenProperties, TopFrame DEF Depth, IInv, TypeOK, HandleTypeOK
<1>2. Len(stack') = Len(stack)
  BY <1>1
<1>3. FramesLeft
  BY <1>1, <1>2 DEF FramesLeft
<1>4. ASSUME NEW i \in Depth
      PROVE  /\ inst[stack[i].blk] = "dying"
             /\ \A r \in stack[i].keep : r \in scope
             /\ OperandsOf(i) \subseteq scope
             /\ stack[i].then = "adopt" => inst[stack[i].arg] = "live" /\ mem[stack[i].arg] = "none"
  BY DEF IInv, FrameInv, KeepInv, Kept, OperandInv, AdoptInv
<1>5. \A b \in Block : inst[b] = "dying" => \E i \in Depth : stack[i].blk = b
  BY DEF IInv, FrameInv
<1>6. CallsInv' /\ Releasing' = {stack[i].var : i \in Depth}
  BY <1>1, <1>2, <1>3, <1>4, <1>5, FramesPreserved DEF CallsInv
<1>7. CountInv'
  BY <1>6, ReferencesSame DEF Releasing
<1>8. VarInv' /\ LifeInv' /\ SelfInv' /\ LifeStep
  BY DEF IInv, VarInv, LifeInv, SelfInv, LifeStep
<1> QED
  BY <1>6, <1>7, <1>8 DEF StepSafe, IInv

\* The innermost call, and the ones around it.
LEMMA InnermostCall ==
  ASSUME IInv, stack # <<>>
  PROVE  /\ Len(stack) \in Depth /\ Depth = 1 .. Len(stack) /\ Len(stack) \in Nat
         /\ Top.blk \in Block /\ inst[Top.blk] = "dying" /\ mem[Top.blk] = "held"
         /\ Top.var \in SharedVar /\ Top.var \in scope /\ mHandle[Top.var] = Top.blk
         /\ Top.then \in Then /\ Top.arg \in Operand(Top.then)
         /\ Releasing = {stack[i].var : i \in 1 .. Len(stack) - 1} \cup {Top.var}
         /\ \A i \in 1 .. Len(stack) - 1 :
              /\ i \in Depth /\ i < Len(stack)
              /\ stack[i].blk # Top.blk /\ stack[i].var # Top.var
<1>1. Len(stack) \in Depth /\ Depth = 1 .. Len(stack) /\ Len(stack) \in Nat
  BY TopFrame, FrameType DEF IInv, Depth
<1>2. Top = stack[Len(stack)]
  BY DEF Top
<1>3. /\ Top.blk \in Block /\ Top.var \in SharedVar /\ Top.then \in Then
      /\ Top.arg \in Operand(Top.then)
  BY <1>1, <1>2, FrameType DEF IInv
<1>4. /\ inst[Top.blk] = "dying" /\ mHandle[Top.var] = Top.blk /\ mem[Top.blk] = "held"
      /\ Top.var \in scope
  BY <1>1, <1>2, <1>3, OperandsAreShared DEF IInv, FrameInv, OperandInv, LifeInv
<1>5. \A i \in 1 .. Len(stack) - 1 :
        /\ i \in Depth /\ i < Len(stack)
        /\ stack[i].blk # Top.blk /\ stack[i].var # Top.var
  BY <1>1, <1>2 DEF IInv, FrameInv
<1>6. Depth = (1 .. Len(stack) - 1) \cup {Len(stack)}
  BY <1>1
<1>7. Releasing = {stack[i].var : i \in 1 .. Len(stack) - 1} \cup {Top.var}
  BY <1>2, <1>6 DEF Releasing
<1> QED
  BY <1>1, <1>3, <1>4, <1>5, <1>7

LEMMA ReturnInBetween ==
  ASSUME IInv, Disciplined, stack # <<>>,
         Members(Top.blk) \cap scope = {},
         mWeak' = [mWeak EXCEPT ![Top.blk] = Dec(@)],
         inst' = [inst EXCEPT ![Top.blk] = "dead"],
         Releasing' = {stack[i].var : i \in 1 .. Len(stack) - 1}
  PROVE  LET m == adjust(mStrong, mWeak', mem, Top.blk)
         IN  /\ InBetween(Top.var, mStrong, m)
             /\ \A c \in Block : c # Top.blk => m[c] = mem[c]
             /\ m[Top.blk] \in {"held", "freed"}
<1> PICK b \in Block : b = Top.blk
  BY InnermostCall
<1> DEFINE v == Top.var
           m == adjust(mStrong, mWeak', mem, b)
<1>1. /\ b \in Block /\ inst[b] = "dying" /\ mem[b] = "held"
      /\ v \in SharedVar /\ mHandle[v] = b
      /\ Releasing = Releasing' \cup {v}
  BY InnermostCall
<1>2. \A c \in Block : inst'[c] = IF c = b THEN "dead" ELSE inst[c]
  BY <1>1 DEF IInv, TypeOK, BlockTypeOK
<1>3. mStrong[b] = 0
  BY <1>1, NoBlockNoCount
<1>4. \A c \in Block : /\ mWeak[c] = Cardinality(Observers(c)) + Temporary(c)
                       /\ Cardinality(Observers(c)) \in Nat /\ IsFiniteSet(Observers(c))
  BY ObserversFinite DEF IInv, CountInv, Disciplined
<1>5. \A c \in Block : mWeak'[c] = Cardinality(Observers(c)) + Temporary(c)'
  <2>1. Temporary(b) = 1 /\ Temporary(b)' = 0
    BY <1>1, <1>2 DEF Temporary
  <2>2. mWeak'[b] = mWeak[b] - 1
    BY <1>1, <1>4, <2>1 DEF Dec, IInv, TypeOK, BlockTypeOK
  <2>3. \A c \in Block : c # b => mWeak'[c] = mWeak[c] /\ Temporary(c)' = Temporary(c)
    BY <1>1, <1>2 DEF Temporary, IInv, TypeOK, BlockTypeOK
  <2> QED
    BY <1>1, <1>4, <2>1, <2>2, <2>3
<1>6. \A c \in Block : m[c] = IF c = b /\ mWeak'[b] = 0 THEN "freed" ELSE mem[c]
  BY <1>1, <1>3 DEF adjust, IInv, TypeOK, BlockTypeOK
<1> HIDE DEF m
<1>7. \A c \in Block : mStrong[c] = Cardinality(OthersLeft(v, c))
  <2>1. \A c \in Block : OthersLeft(v, c) = Owners(c)
    BY <1>1 DEF OthersLeft, Owners
  <2> QED
    BY <2>1 DEF IInv, CountInv
<1>8. ASSUME NEW x \in Var, x # v, mHandle[x] # NULL
      PROVE  m[mHandle[x]] = "held"
  <2>1. mHandle[x] \in Block /\ mem[mHandle[x]] = "held"
    BY <1>8, ResetPtrType DEF IInv, VarInv, Handle
  <2> SUFFICES ASSUME mHandle[x] = b
               PROVE  mWeak'[b] # 0
    BY <1>6, <2>1
  <2>2. CASE x \in WeakVar
    <3>1. x \in Observers(b)
      BY <2>2 DEF Observers
    <3>2. Cardinality(Observers(b)) # 0
      BY <1>1, <1>4, <3>1, FS_EmptySet
    <3> QED
      BY <1>1, <1>4, <1>5, <3>2 DEF Temporary
  <2>3. CASE x \in SharedVar /\ x \notin Releasing
    BY <1>1, <1>8, <2>3, HolderOwns DEF Disciplined
  <2>4. CASE x \in Releasing
    <3>1. PICK i \in 1 .. Len(stack) - 1 : stack[i].var = x
      BY <1>1, <1>8, <2>4
    <3>2. stack[i].blk # b /\ mHandle[x] = stack[i].blk
      BY <3>1, InnermostCall DEF IInv, FrameInv
    <3> QED
      BY <3>2
  <2> QED
    BY <2>2, <2>3, <2>4 DEF Var
<1>9. \A x \in scope : Owner[x] # NULL => inst'[Owner[x]] \in {"live", "dying"}
  <2> SUFFICES ASSUME NEW x \in scope, Owner[x] # NULL
               PROVE  inst'[Owner[x]] \in {"live", "dying"}
    OBVIOUS
  <2>1. x \in Var /\ Owner[x] \in Block
    BY VarAssumption DEF IInv, TypeOK, HandleTypeOK
  <2>2. Owner[x] # b
    BY <2>1 DEF Members
  <2> QED
    BY <1>2, <2>1, <2>2 DEF IInv, VarInv
<1>10. ASSUME NEW c \in Block
       PROVE  /\ mStrong[c] > 0 <=> inst'[c] = "live" /\ m[c] = "held"
              /\ inst'[c] = "dying" => m[c] = "held"
              /\ m[c] = "held" => inst'[c] # "none" /\ (mStrong[c] > 0 \/ mWeak'[c] > 0)
              /\ m[c] = "freed" => inst'[c] # "live"
              /\ m[c] = "none" => mem[c] = "none"
  <2>1. CASE c = b
    <3>1. mWeak'[b] \in Nat
      BY <1>1, <1>4, <1>5 DEF Temporary
    <3> QED
      BY <1>1, <1>2, <1>3, <1>6, <2>1, <3>1
  <2>2. CASE c # b
    <3>1. m[c] = mem[c] /\ inst'[c] = inst[c] /\ mWeak'[c] = mWeak[c]
      BY <1>1, <1>2, <1>6, <2>2 DEF IInv, TypeOK, BlockTypeOK
    <3> QED
      BY <3>1 DEF IInv, LifeInv
  <2> QED
    BY <2>1, <2>2
<1>11. InBetween(v, mStrong, m)
  BY <1>5, <1>7, <1>8, <1>9, <1>10 DEF InBetween
<1> QED
  BY <1>1, <1>6, <1>11 DEF m

\* Return leaves the calls around the innermost one as they were.
LEMMA ReturnFrames ==
  ASSUME IInv, TypeOK', Return
  PROVE  LET n == Len(stack) - 1
         IN  /\ Len(stack') = n /\ \A i \in 1 .. n : stack'[i] = stack[i]
             /\ Releasing' = {stack[i].var : i \in 1 .. n}
<1> DEFINE n == Len(stack) - 1
<1>1. stack # <<>> /\ stack' = SubSeq(stack, 1, n)
  BY DEF Return, Unwinding
<1>2. /\ Len(stack) \in Depth /\ Depth = 1 .. Len(stack) /\ Len(stack) \in Nat
      /\ \A i \in 1 .. n : i \in Depth
  BY <1>1, InnermostCall
<1>3. Len(stack') = n /\ \A i \in 1 .. n : stack'[i] = stack[i]
  <2>1. stack \in Seq(Frame) /\ n \in Int /\ 1 \in Int /\ n >= 0
    BY <1>2 DEF IInv, TypeOK, HandleTypeOK
  <2>2. \A i \in 1 .. n : stack[i] \in Frame
    BY <1>2, FrameType DEF IInv
  <2>3. /\ Len(SubSeq(stack, 1, n)) = IF 1 <= n THEN n - 1 + 1 ELSE 0
        /\ \A i \in 1 .. n - 1 + 1 : SubSeq(stack, 1, n)[i] = stack[1 + i - 1]
    <3> HIDE DEF n
    <3> QED
      BY <2>1, <2>2, SubSeqProperties
  <2>4. n - 1 + 1 = n /\ \A i \in 1 .. n : 1 + i - 1 = i
    BY <1>2
  <2> QED
    BY <1>1, <1>2, <2>3, <2>4
<1>4. Releasing' = {stack[i].var : i \in 1 .. n}
  <2>1. Depth' = 1 .. Len(stack')
    BY LenProperties DEF Depth, TypeOK, HandleTypeOK
  <2> QED
    BY <1>3, <2>1 DEF Releasing
<1> QED
  BY <1>3, <1>4

LEMMA ReturnSafe ==
  ASSUME IInv, Disciplined, TypeOK', Return
  PROVE  StepSafe
<1> DEFINE n == Len(stack) - 1
<1>1. stack # <<>> /\ fault = "none" /\ Members(Top.blk) \cap scope = {}
  BY DEF Return, Unwinding
<1>2. PICK b \in Block, v \in SharedVar, then \in Then, arg \in Operand(Top.then) :
        b = Top.blk /\ v = Top.var /\ then = Top.then /\ arg = Top.arg
  BY <1>1, InnermostCall
<1> DEFINE m == adjust(mStrong, mWeak', mem, b)
<1>3. /\ mWeak' = [mWeak EXCEPT ![b] = Dec(@)]
      /\ inst' = [inst EXCEPT ![b] = "dead"]
      /\ Complete(v, then, arg, mStrong, m)
      /\ fault' = IF Dangling(b) THEN "freed_block" ELSE CompleteFault(v, then, arg, m)
      /\ stack' = SubSeq(stack, 1, n)
  BY <1>2 DEF Return
<1>4. /\ Len(stack) \in Depth /\ Depth = 1 .. Len(stack) /\ Len(stack) \in Nat
      /\ inst[b] = "dying" /\ mem[b] = "held"
      /\ v \in scope /\ mHandle[v] = b
      /\ Releasing = {stack[i].var : i \in 1 .. n} \cup {v}
      /\ \A i \in 1 .. n : i \in Depth /\ i < Len(stack) /\ stack[i].blk # b /\ stack[i].var # v
      /\ stack[Len(stack)].var = v /\ stack[Len(stack)].then = then /\ stack[Len(stack)].arg = arg
  BY <1>1, <1>2, InnermostCall DEF Top
<1>5. Len(stack') = n /\ \A i \in 1 .. n : stack'[i] = stack[i]
  BY ReturnFrames
<1>6. FramesLeft /\ n \in Nat
  BY <1>4, <1>5 DEF FramesLeft
<1>7. Releasing' = {stack[i].var : i \in 1 .. n}
  BY ReturnFrames
<1>8. /\ InBetween(v, mStrong, m)
      /\ \A c \in Block : c # b => m[c] = mem[c]
      /\ m[b] \in {"held", "freed"}
  BY <1>1, <1>2, <1>3, <1>7, ReturnInBetween
<1>9. arg \in Operand(then) /\ mStrong \in [Block -> Count] /\ m \in [Block -> MemState]
  BY <1>2, MemoryType DEF IInv, TypeOK, BlockTypeOK
<1> HIDE DEF m
<1>10. /\ then \in {"copy", "move"} =>
            /\ arg \in scope /\ arg # v
            /\ \A i \in 1 .. n : stack[i].var # arg
       /\ then = "move" => \A i \in 1 .. n : arg \notin stack[i].keep
       /\ then = "destroy" => \A i \in 1 .. n : v \notin OperandsOf(i)
  <2>1. then \in {"copy", "move"} => arg \in OperandsOf(Len(stack))
    BY <1>4, OperandsAreShared DEF IInv
  <2> QED
    BY <1>4, <2>1 DEF IInv, SourceInv, OperandInv
<1>11. /\ then = "adopt" => arg \in Block /\ inst[arg] = "live" /\ mem[arg] = "none"
       /\ then = "adopt" => \A i \in 1 .. n : stack[i].then = "adopt" => stack[i].arg # arg
       /\ \A i \in 1 .. n : stack[i].then = "adopt" =>
            stack[i].arg \in Block /\ inst[stack[i].arg] = "live" /\ mem[stack[i].arg] = "none"
  <2>1. then = "adopt" => arg \in Block
    BY <1>9 DEF Operand
  <2>2. \A i \in 1 .. n : stack[i].then = "adopt" => stack[i].arg \in Block
    BY <1>4, FrameType DEF IInv, Operand
  <2> QED
    BY <1>4, <2>1, <2>2 DEF IInv, AdoptInv
<1>12. \A c \in Block : inst'[c] = IF c = b THEN "dead" ELSE inst[c]
  BY <1>3 DEF IInv, TypeOK, BlockTypeOK
<1>13. Ready(v, then, arg, m)
  BY <1>4, <1>7, <1>8, <1>10, <1>11, <1>12 DEF Ready
<1>14. /\ CompleteFault(v, then, arg, m) = "none"
       /\ VarInv' /\ CountInv' /\ LifeInv' /\ SelfInv'
       /\ \A c \in Block : mem'[c] = IF then = "adopt" /\ c = arg THEN "held" ELSE m[c]
  BY <1>3, <1>8, <1>9, <1>13, CompleteSafe
<1>15. /\ \A x \in Var : mHandle'[x] = IF x = v THEN Incoming(then, arg)
                                       ELSE IF then = "move" /\ x = arg THEN NULL ELSE mHandle[x]
       /\ scope' = IF then = "destroy" THEN scope \ {v} ELSE scope
  BY <1>3, <1>9, CompleteHandles DEF Complete
<1>16. CallsInv'
  <2>1. ASSUME NEW i \in 1 .. n
        PROVE  /\ inst'[stack[i].blk] = "dying"
               /\ mHandle'[stack[i].var] = mHandle[stack[i].var]
               /\ \A r \in stack[i].keep : mHandle'[r] = mHandle[r] /\ r \in scope'
               /\ OperandsOf(i) \subseteq scope'
               /\ stack[i].then = "adopt" =>
                    inst'[stack[i].arg] = "live" /\ mem'[stack[i].arg] = "none"
    <3>1. i \in Depth /\ stack[i].blk \in Block /\ stack[i].var \in Var /\ stack[i].keep \subseteq Var
      BY <1>4, FrameType DEF IInv, Var
    <3>2. inst'[stack[i].blk] = "dying"
      <4>1. inst[stack[i].blk] = "dying" /\ stack[i].blk # b
        BY <1>4, <3>1 DEF IInv, FrameInv
      <4> QED
        BY <1>12, <3>1, <4>1
    <3>3. mHandle'[stack[i].var] = mHandle[stack[i].var]
      BY <1>4, <1>10, <1>15, <3>1
    <3>4. ASSUME NEW r \in stack[i].keep
          PROVE  mHandle'[r] = mHandle[r] /\ r \in scope'
      <4>1. r \in Var /\ r \in scope /\ r # v
        BY <1>4, <3>1 DEF IInv, KeepInv, Kept
      <4> QED
        BY <1>10, <1>15, <4>1
    <3>5. OperandsOf(i) \subseteq scope'
      BY <1>10, <1>15, <3>1 DEF IInv, OperandInv
    <3>6. stack[i].then = "adopt" => inst'[stack[i].arg] = "live" /\ mem'[stack[i].arg] = "none"
      BY <1>4, <1>8, <1>11, <1>12, <1>14
    <3> QED
      BY <3>2, <3>3, <3>4, <3>5, <3>6
  <2>2. ASSUME NEW c \in Block, inst'[c] = "dying"
        PROVE  \E i \in 1 .. n : stack[i].blk = c
    <3>1. c # b /\ inst[c] = "dying"
      BY <1>12, <2>2
    <3>2. PICK i \in Depth : stack[i].blk = c
      BY <3>1 DEF IInv, FrameInv
    <3>3. i # Len(stack)
      BY <1>2, <3>1, <3>2 DEF Top
    <3> QED
      BY <1>4, <3>2, <3>3
  <2> QED
    BY <1>5, <1>6, <2>1, <2>2, FramesPreserved DEF CallsInv
<1>17. LifeStep
  BY <1>4, <1>8, <1>11, <1>12, <1>14 DEF LifeStep
<1>18. fault' = "none"
  BY <1>3, <1>4, <1>14 DEF Dangling
<1> QED
  BY <1>14, <1>16, <1>17, <1>18 DEF StepSafe

(***************************************************************************)
(* Every step.                                                             *)
(***************************************************************************)
LEMMA InstanceStepSafe ==
  ASSUME IInv, Disciplined, TypeOK', InstanceStep
  PROVE  StepSafe
<1>1. CASE \E b \in Block : New(b) \/ MakeSharedThrows(b) \/ \E c \in Block : CopyInstance(b, c)
  BY <1>1, QuietSafe
<1>2. CASE \E b \in Block, v \in SharedVar : AdoptCtor(v, b) \/ MakeShared(v, b)
  BY <1>2, CaptureSafe
<1>3. ASSUME NEW b \in Block, NEW v \in SharedVar, SharedFromThis(v, b)
      PROVE  StepSafe
  <2>1. CASE DefaultCtor(v)
    BY <2>1, QuietSafe
  <2>2. CASE shared_from_this_data[b] = b /\ PrivateCtor(v, b, b, TRUE) /\ inst[b] = "live"
    <3>1. mem[b] = "held"
      BY <2>2, BlockAssumption DEF IInv, SelfInv, LifeInv, TypeOK, BlockTypeOK, MemState
    <3>2. mStrong[b] > 0
      BY <2>2, <3>1 DEF IInv, LifeInv
    <3> QED
      BY <2>2, <3>2, PrivateCtorSafe DEF Handle
  <2> QED
    BY <1>3, <2>1, <2>2 DEF SharedFromThis, Disciplined
<1> QED
  BY <1>1, <1>2, <1>3 DEF InstanceStep

LEMMA SharedStepSafe ==
  ASSUME IInv, Disciplined, TypeOK', SharedStep
  PROVE  StepSafe
<1> Liberties = {}
  BY DEF Disciplined
<1>1. CASE \E v \in SharedVar : DefaultCtor(v)
  BY <1>1, QuietSafe
<1>2. ASSUME NEW v \in SharedVar,
             Destroy(v) \/ Reset(v) \/ \E b \in Block : ResetTo(v, b)
      PROVE  StepSafe
  <2>1. CASE Destroy(v)
    <3>1. Permitted(v, "destroy", NULL)
      BY <2>1, Discipline DEF Destroy, Permitted, Closable
    <3> QED
      BY <2>1, <3>1, ReleaseSafe DEF Destroy, Then, Operand
  <2>2. CASE Reset(v)
    <3>1. Permitted(v, "reset", NULL)
      BY <2>2, Discipline DEF Reset, Permitted
    <3> QED
      BY <2>2, <3>1, ReleaseSafe DEF Reset, Then, Operand
  <2>3. ASSUME NEW b \in Block, ResetTo(v, b)
        PROVE  StepSafe
    <3>1. Permitted(v, "adopt", b)
      BY <2>3, Discipline DEF ResetTo, Permitted
    <3> QED
      BY <2>3, <3>1, ReleaseSafe DEF ResetTo, Then, Operand
  <2> QED
    BY <1>2, <2>1, <2>2, <2>3
<1>3. ASSUME NEW v \in SharedVar, NEW u \in SharedVar,
             CopyCtor(v, u) \/ PointerCast(v, u) \/ DynamicCastFails(v, u)
      PROVE  StepSafe
  <2>1. u \in Var /\ mHandle[u] \in Handle /\ u \notin Releasing
    BY <1>3, ResetPtrType, Discipline DEF CopyCtor, PointerCast, DynamicCastFails, IInv, Var
  <2>2. mPtr[u] \in {NULL, mHandle[u]}
    BY <2>1 DEF IInv, PointerMatchesBlock
  <2>3. mHandle[u] # NULL => mStrong[mHandle[u]] > 0
    BY <2>1, HolderOwns DEF Disciplined
  <2> QED
    BY <1>3, <2>1, <2>2, <2>3, PrivateCtorSafe DEF CopyCtor, PointerCast, DynamicCastFails
<1>4. ASSUME NEW v \in SharedVar, NEW u \in SharedVar, MoveCtor(v, u)
      PROVE  StepSafe
  <2>1. /\ v \in Var /\ v \notin scope /\ Owner[v] = NULL
        /\ u \in scope /\ Free(u)
    BY <1>4, Discipline DEF MoveCtor, Fresh, Var
  <2>2. mHandle[v] = NULL /\ Free(v)
    BY <2>1, OutOfScope DEF Closable
  <2> QED
    BY <1>4, <2>1, <2>2, ExchangeSafe DEF MoveCtor
<1>5. ASSUME NEW v \in SharedVar, NEW u \in SharedVar, CopyAssign(v, u)
      PROVE  StepSafe
  <2>1. Permitted(v, "copy", u)
    BY <1>5, Discipline DEF CopyAssign, Permitted
  <2> QED
    BY <1>5, <2>1, ReleaseSafe DEF CopyAssign, Then, Operand
<1>6. ASSUME NEW v \in SharedVar, NEW u \in SharedVar, MoveAssign(v, u)
      PROVE  StepSafe
  <2>1. Permitted(v, "move", u)
    BY <1>6, Discipline DEF MoveAssign, Permitted, Free
  <2> QED
    BY <1>6, <2>1, ReleaseSafe DEF MoveAssign, Then, Operand
<1>7. ASSUME NEW v \in SharedVar, NEW u \in SharedVar, Swap(v, u)
      PROVE  StepSafe
  <2>1. v \in scope /\ u \in scope /\ Free(v) /\ Free(u) /\ scope' = scope \cup {v}
    BY <1>7, Discipline DEF Swap
  <2> QED
    BY <1>7, <2>1, ExchangeSafe DEF Swap
<1> QED
  BY <1>1, <1>2, <1>3, <1>4, <1>5, <1>6, <1>7 DEF SharedStep

LEMMA WeakStepSafe ==
  ASSUME IInv, Disciplined, TypeOK', WeakStep
  PROVE  StepSafe
<1> Liberties = {}
  BY DEF Disciplined
<1>1. NULL \in Handle /\ \A x \in Var : mHandle[x] \in Handle
  BY ResetPtrType DEF IInv, Handle
<1>2. ASSUME NEW w \in WeakVar, WeakDefaultCtor(w)
      PROVE  StepSafe
  <2>1. Closable(w)
    BY <1>2, OutOfScope DEF WeakDefaultCtor, Fresh, Var
  <2> QED
    BY <1>1, <1>2, <2>1, UpdateSafe DEF WeakDefaultCtor
<1>3. ASSUME NEW w \in WeakVar, WeakDestroy(w)
      PROVE  StepSafe
  <2>1. Closable(w)
    BY <1>3, Discipline DEF WeakDestroy
  <2> QED
    BY <1>1, <1>3, <2>1, UpdateSafe DEF WeakDestroy
<1>4. ASSUME NEW w \in WeakVar, WeakReset(w)
      PROVE  StepSafe
  <2>1. w \in scope /\ Free(w)
    BY <1>4, Discipline DEF WeakReset
  <2> QED
    BY <1>1, <1>4, <2>1, UpdateSafe DEF WeakReset
<1>5. ASSUME NEW w \in WeakVar, NEW x \in Var, w # x, Fresh(w), NEW p,
             Update(w, p, mHandle[x], scope \cup {w})
      PROVE  StepSafe
  <2>1. Closable(w)
    BY <1>5, OutOfScope DEF Fresh, Var
  <2> QED
    BY <1>1, <1>5, <2>1, UpdateSafe
<1>6. ASSUME NEW w \in WeakVar, NEW x \in Var, w # x, MayWrite(w), NEW p,
             Update(w, p, mHandle[x], scope)
      PROVE  StepSafe
  <2>1. w \in scope /\ Free(w)
    BY <1>6, Discipline
  <2> QED
    BY <1>1, <1>6, <2>1, UpdateSafe
<1>7. ASSUME NEW w \in WeakVar, NEW x \in WeakVar, WeakCopyCtor(w, x) \/ WeakCopyAssign(w, x)
      PROVE  StepSafe
  BY <1>5, <1>6, <1>7 DEF WeakCopyCtor, WeakCopyAssign, MayRead, Fresh, Var
<1>8. ASSUME NEW w \in WeakVar, NEW v \in SharedVar, WeakFromShared(w, v) \/ WeakAssignShared(w, v)
      PROVE  StepSafe
  <2>1. w # v /\ v \in Var
    BY VarAssumption DEF Var
  <2> QED
    BY <1>5, <1>6, <1>8, <2>1 DEF WeakFromShared, WeakAssignShared
<1>9. ASSUME NEW w \in WeakVar, NEW x \in WeakVar, WeakMoveCtor(w, x)
      PROVE  StepSafe
  <2>1. /\ w \in Var /\ w \notin scope /\ Owner[w] = NULL
        /\ x \in scope /\ Free(x)
    BY <1>9, Discipline DEF WeakMoveCtor, Fresh, Var
  <2>2. mHandle[w] = NULL /\ Free(w)
    BY <2>1, OutOfScope DEF Closable
  <2> QED
    BY <1>9, <2>1, <2>2, ExchangeSafe DEF WeakMoveCtor
<1>10. ASSUME NEW w \in WeakVar, NEW v \in SharedVar, Lock(v, w)
       PROVE  StepSafe
  <2>1. w \in Var /\ w \in scope
    BY <1>10, Discipline DEF Lock, Var
  <2>2. CASE LockExpired(v, w)
    <3>1. w \notin Kept /\ w \notin Releasing
      BY FrameType, VarAssumption DEF IInv, Kept, Releasing
    <3>2. Free(w) /\ w \in scope \cup {v}
      BY <2>1, <3>1 DEF Free
    <3> QED
      BY <1>1, <2>2, <3>2, UpdateSafe DEF LockExpired
  <2>3. CASE /\ mHandle[w] # NULL /\ has_shared_references(mHandle[w])
             /\ PrivateCtor(v, mHandle[w], mPtr[w], v \in TrackingVar)
    <3>1. mPtr[w] \in {NULL, mHandle[w]} /\ mHandle[w] \in Handle
      BY <1>1, <2>1 DEF IInv, PointerMatchesBlock
    <3> QED
      BY <2>3, <3>1, PrivateCtorSafe DEF has_shared_references
  <2> QED
    BY <1>10, <2>2, <2>3 DEF Lock
<1>11. ASSUME NEW w \in WeakVar, NEW x \in WeakVar, WeakMoveAssign(w, x)
       PROVE  StepSafe
  BY <1>11, WeakMoveAssignSafe
<1> QED
  BY <1>2, <1>3, <1>4, <1>7, <1>8, <1>9, <1>10, <1>11 DEF WeakStep

LEMMA DestructorStepSafe ==
  ASSUME IInv, Disciplined, TypeOK', DestructorStep
  PROVE  StepSafe
<1>1. CASE EndBody \/ Return
  BY <1>1, EndBodySafe, ReturnSafe
<1>2. ASSUME NEW v \in SharedVar, DestroySharedMember(v)
      PROVE  StepSafe
  <2>1. Closable(v)
    BY <1>2, MemberIsClosable DEF DestroySharedMember, Unwinding, Disciplined
  <2>2. Permitted(v, "destroy", NULL)
    BY <1>2, <2>1 DEF DestroySharedMember, Permitted, Closable
  <2> QED
    BY <1>2, <2>2, ReleaseSafe DEF DestroySharedMember, Then, Operand
<1>3. ASSUME NEW w \in WeakVar, DestroyWeakMember(w)
      PROVE  StepSafe
  <2>1. Closable(w)
    BY <1>3, MemberIsClosable DEF DestroyWeakMember, Unwinding, Disciplined
  <2> QED
    BY <1>3, <2>1, UpdateSafe DEF DestroyWeakMember, Handle
<1> QED
  BY <1>1, <1>2, <1>3 DEF DestructorStep

LEMMA NextSafe ==
  ASSUME IInv, Disciplined, Next
  PROVE  IInv' /\ LifeStep
<1>1. TypeOK'
  BY InstanceStepType, SharedStepType, WeakStepType, DestructorStepType DEF Next, IInv
<1>2. StepSafe
  BY <1>1, InstanceStepSafe, SharedStepSafe, WeakStepSafe, DestructorStepSafe DEF Next
<1>3. PointerMatchesBlock'
  BY InstanceStepPointer, SharedStepPointer, WeakStepPointer, DestructorStepPointer
  DEF Next, IInv, Disciplined
<1> QED
  BY <1>1, <1>2, <1>3 DEF StepSafe, CallsInv, IInv

LEMMA StutterSafe ==
  ASSUME IInv, UNCHANGED vars
  PROVE  IInv'
<1> USE DEF vars, blockVars, handleVars
<1>1. TypeOK' /\ PointerMatchesBlock' /\ fault' = "none"
  BY DEF IInv, TypeOK, BlockTypeOK, HandleTypeOK, PointerMatchesBlock
<1>2. VarInv' /\ LifeInv' /\ SelfInv'
  BY DEF IInv, VarInv, LifeInv, SelfInv
<1>3. CountInv'
  BY DEF IInv, CountInv, Owners, Observers, Temporary, Releasing, Depth
<1>4. FrameInv' /\ OperandInv' /\ SourceInv' /\ KeepInv' /\ AdoptInv'
  <2>1. Depth' = Depth /\ Kept' = Kept /\ Releasing' = Releasing
    BY DEF Depth, Kept, Releasing
  <2>2. \A i \in Depth : OperandsOf(i)' = OperandsOf(i)
    BY DEF OperandsOf, Operands
  <2>3. FrameInv' /\ KeepInv' /\ AdoptInv'
    BY <2>1 DEF IInv, FrameInv, KeepInv, AdoptInv
  <2>4. OperandInv'
    BY <2>1, <2>2 DEF IInv, OperandInv, Outlives
  <2>5. SourceInv'
    BY <2>1, <2>2 DEF IInv, SourceInv
  <2> QED
    BY <2>3, <2>4, <2>5
<1> QED
  BY <1>1, <1>2, <1>3, <1>4 DEF IInv

\* The invariant of module Safety holds in every state of every disciplined
\* program, whatever its variables, instances and destructors are.
THEOREM InvariantHolds ==
  ASSUME Disciplined
  PROVE  Spec => []IInv
<1>1. Init => IInv
  BY InitSafe DEF Disciplined
<1>2. IInv /\ [Next]_vars => IInv'
  BY NextSafe, StutterSafe
<1> QED
  BY <1>1, <1>2, PTL DEF Spec

(***************************************************************************)
(* The properties.                                                         *)
(***************************************************************************)

\* No operation, from wherever it is called, uses a freed block, destroys an
\* instance twice, or resumes on a variable that its own destructor call took
\* away: the code of the library and the discipline of the program suffice.
THEOREM MemoryIsSafe ==
  ASSUME Disciplined
  PROVE  Spec => []MemorySafe
<1>1. IInv => MemorySafe
  BY DEF IInv, MemorySafe
<1> QED
  BY <1>1, InvariantHolds, PTL

\* The counts of every block are the numbers of its owners and observers, the
\* temporary reference of a release in progress included.
THEOREM CountsAreExact ==
  ASSUME Disciplined
  PROVE  Spec => []CountsExact
<1>1. IInv => CountsExact
  BY DEF IInv, CountInv, CountsExact, Temporary
<1> QED
  BY <1>1, InvariantHolds, PTL

\* What a shared_ptr_nc holds is alive, except while that very variable is
\* giving up the last reference.
THEOREM OwnedInstancesLive ==
  ASSUME Disciplined
  PROVE  Spec => []OwnedIsLive
<1>1. IInv => OwnedIsLive
  BY HolderOwns DEF OwnedIsLive, Disciplined
<1> QED
  BY <1>1, InvariantHolds, PTL

\* A block stays allocated for as long as a weak_ptr refers to it.
THEOREM ObservedBlocksHeld ==
  ASSUME Disciplined
  PROVE  Spec => []ObservedIsHeld
<1>1. IInv => ObservedIsHeld
  BY DEF IInv, VarInv, ObservedIsHeld, Var
<1> QED
  BY <1>1, InvariantHolds, PTL

\* Nothing stays allocated that nothing refers to.
THEOREM NoLeak ==
  ASSUME Disciplined
  PROVE  Spec => []NothingLeaks
<1>1. ASSUME IInv
      PROVE  NothingLeaks
  <2> SUFFICES ASSUME NEW b \in Block, mem[b] = "held"
               PROVE  /\ inst[b] = "live" => Owners(b) # {}
                      /\ Owners(b) # {} \/ Observers(b) # {} \/ inst[b] = "dying"
    BY DEF NothingLeaks
  <2>1. /\ mStrong[b] = Cardinality(Owners(b))
        /\ mWeak[b] = Cardinality(Observers(b)) + Temporary(b)
    BY <1>1 DEF IInv, CountInv
  <2>2. mStrong[b] > 0 => Owners(b) # {}
    BY <2>1, FS_EmptySet
  <2>3. inst[b] # "dying" /\ mWeak[b] > 0 => Observers(b) # {}
    BY <2>1, FS_EmptySet DEF Temporary
  <2> QED
    BY <1>1, <2>2, <2>3 DEF IInv, LifeInv
<1> QED
  BY <1>1, InvariantHolds, PTL

\* The count of an instance whose destruction has begun stays zero: no copy, no
\* cast, no lock() and no shared_from_this() made by its destructor revives it.
THEOREM ZeroStaysZero ==
  ASSUME Disciplined
  PROVE  Spec => []ZeroIsFinal
<1>1. IInv => ZeroIsFinal
  BY NoBlockNoCount DEF ZeroIsFinal
<1> QED
  BY <1>1, InvariantHolds, PTL

\* Every instance is destroyed at most once, and every block freed at most once
\* and after the destructor of its instance has returned.
THEOREM LifeOnlyForward ==
  ASSUME Disciplined
  PROVE  Spec => LifeGoesForward
<1>1. IInv /\ [Next]_vars => [LifeStep]_vars
  BY NextSafe
<1> QED
  BY <1>1, InvariantHolds, PTL DEF Spec, LifeGoesForward
=============================================================================
