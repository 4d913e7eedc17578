----------------------------- MODULE OwnershipProofs -----------------------------
(***************************************************************************)
(* SmartPtr implements Ownership for every program that keeps the          *)
(* discipline, and what that says of blocks that nothing refers to.        *)
(***************************************************************************)
EXTENDS SafetyProofs, Accessors

(***************************************************************************)
(* The refinement mapping in the states of the invariant.                  *)
(***************************************************************************)
AliveHasOwner == \A b \in Block : lives[b] = "alive" => Abstract!Owners(b) # {}

HeldIsNeeded == held = {b \in Block : Abstract!Needed(b)}

LEMMA AliveOwned == IInv => AliveHasOwner
<1> SUFFICES ASSUME IInv, NEW b \in Block, lives[b] = "alive"
             PROVE  Abstract!Owners(b) # {}
  BY DEF AliveHasOwner
<1>1. mStrong[b] > 0 /\ mStrong[b] = Cardinality(Owners(b))
  BY DEF IInv, LifeInv, CountInv, lives, LifeOf
<1>2. PICK v \in SharedVar : mHandle[v] = b /\ v \notin Releasing
  BY <1>1, FS_EmptySet DEF Owners
<1>3. owned[v] = b
  BY <1>2 DEF owned, Owned
<1> QED
  BY <1>3 DEF Abstract!Owners

LEMMA HeldNeeded == IInv => HeldIsNeeded
<1> SUFFICES ASSUME IInv, NEW b \in Block
             PROVE  mem[b] = "held" <=> Abstract!Needed(b)
  BY DEF HeldIsNeeded, held
<1>1. Abstract!Observers(b) = Observers(b)
  BY DEF Abstract!Observers, Observers, observed
<1>2. lives[b] \in {"alive", "dying"} <=> mem[b] = "held" /\ inst[b] \in {"live", "dying"}
  BY DEF IInv, LifeInv, lives, LifeOf
<1>3. ASSUME NEW w \in Observers(b)
      PROVE  mem[b] = "held"
  <2>1. w \in Var /\ mHandle[w] = b /\ b # NULL
    BY BlockAssumption DEF Observers, Var
  <2> QED
    BY <2>1 DEF IInv, VarInv
<1>4. mem[b] = "held" /\ inst[b] \notin {"live", "dying"} => mStrong[b] = 0 /\ mWeak[b] > 0
  BY DEF IInv, LifeInv, TypeOK, BlockTypeOK, Count
<1>5. mWeak[b] = Cardinality(Observers(b)) + Temporary(b)
  BY DEF IInv, CountInv
<1>6. mWeak[b] > 0 /\ inst[b] # "dying" => Observers(b) # {}
  BY <1>5, FS_EmptySet DEF Temporary
<1> QED
  BY <1>1, <1>2, <1>3, <1>4, <1>6 DEF Abstract!Needed

(***************************************************************************)
(* How the mapped state changes, from what each variable owns and what     *)
(* becomes of each instance.                                               *)
(***************************************************************************)
LEMMA OneOwnerChanges ==
  ASSUME NEW v \in SharedVar, NEW h,
         \A x \in SharedVar : Owned(x)' = IF x = v THEN h ELSE Owned(x)
  PROVE  owned' = [owned EXCEPT ![v] = h]
  BY DEF owned

LEMMA TwoOwnersChange ==
  ASSUME NEW v \in SharedVar, NEW u \in SharedVar, v # u, NEW h, NEW g,
         \A x \in SharedVar : Owned(x)' = IF x = v THEN h ELSE IF x = u THEN g ELSE Owned(x)
  PROVE  owned' = [owned EXCEPT ![v] = h, ![u] = g]
  BY DEF owned

LEMMA OwnersStay ==
  ASSUME \A x \in SharedVar : Owned(x)' = Owned(x)
  PROVE  owned' = owned
  BY DEF owned

LEMMA OneLifeChanges ==
  ASSUME NEW b \in Block, NEW l,
         \A c \in Block : LifeOf(c)' = IF c = b THEN l ELSE LifeOf(c)
  PROVE  lives' = [lives EXCEPT ![b] = l]
  BY DEF lives

LEMMA LivesStay ==
  ASSUME \A c \in Block : LifeOf(c)' = LifeOf(c)
  PROVE  lives' = lives
  BY DEF lives

LEMMA ObserversStay ==
  ASSUME \A w \in WeakVar : mHandle'[w] = mHandle[w]
  PROVE  observed' = observed
  BY DEF observed

(***************************************************************************)
(* The steps of Ownership, without the record that is kept.                *)
(***************************************************************************)
OwnershipStep ==
  \/ Abstract!Reassign
  \/ Abstract!Exchange
  \/ Abstract!LoseLast
  \/ Abstract!EndDestruction
  \/ Abstract!Observe
  \/ UNCHANGED <<owned, observed, lives>>

LEMMA RecordFollows ==
  ASSUME IInv, HeldIsNeeded', OwnershipStep
  PROVE  [Abstract!Next]_(Abstract!vars)
<1>1. held' = {b \in Block : Abstract!Needed(b)'}
  BY DEF HeldIsNeeded
<1>2. CASE UNCHANGED <<owned, observed, lives>>
  <2>1. \A b \in Block : Abstract!Needed(b)' = Abstract!Needed(b)
    BY <1>2 DEF Abstract!Needed, Abstract!Observers
  <2>2. held' = held
    BY <1>1, <2>1, HeldNeeded DEF HeldIsNeeded
  <2> QED
    BY <1>2, <2>2 DEF Abstract!vars
<1> QED
  BY <1>1, <1>2 DEF OwnershipStep, Abstract!Next

\* What was alive and is alive still has an owner.
LEMMA OwnersRemain ==
  ASSUME AliveHasOwner', \A b \in Block : lives[b] = "alive" => lives'[b] = "alive"
  PROVE  \A b \in Block : lives[b] = "alive" => Abstract!Owners(b)' # {}
  BY DEF AliveHasOwner

(***************************************************************************)
(* The rest of a function that released v: it acquires what `then` says.   *)
(* `now` is the life of the instances at that point.                       *)
(***************************************************************************)
LEMMA CompletionAcquires ==
  ASSUME IInv, EnoughCounters,
         NEW v \in SharedVar, NEW then \in Then, NEW arg \in Operand(then), NEW now,
         \A x \in Var :
           mHandle'[x] = IF x = v THEN Incoming(then, arg)
                         ELSE IF then = "move" /\ x = arg THEN NULL ELSE mHandle[x],
         Releasing' = Releasing \ {v},
         then \in {"copy", "move"} => arg # v /\ arg \notin Releasing,
         then = "adopt" => lives[arg] = "unmanaged",
         lives' = IF then = "adopt" THEN [now EXCEPT ![arg] = "alive"] ELSE now
  PROVE  Abstract!Acquire(now)
<1>1. ASSUME NEW x \in SharedVar
      PROVE  Owned(x)' = IF x = v THEN Incoming(then, arg)
                         ELSE IF then = "move" /\ x = arg THEN NULL ELSE Owned(x)
  BY DEF Owned, Var
<1>2. CASE then = "copy"
  <2>1. arg \in SharedVar /\ mHandle[arg] \in Block \cup {NULL}
    BY <1>2, ResetPtrType DEF Operand, IInv, Handle, Var
  <2>2. mHandle[arg] # NULL => lives[mHandle[arg]] = "alive"
    BY <1>2, <2>1, HolderOwns DEF lives, LifeOf
  <2>3. \A x \in SharedVar : Owned(x)' = IF x = v THEN mHandle[arg] ELSE Owned(x)
    BY <1>1, <1>2 DEF Incoming
  <2>4. owned' = [owned EXCEPT ![v] = mHandle[arg]]
    BY <2>3, OneOwnerChanges
  <2> QED
    BY <1>2, <2>1, <2>2, <2>4 DEF Abstract!Acquire, Abstract!Take
<1>3. CASE then = "move"
  <2>1. arg \in SharedVar \ {v} /\ owned[arg] = mHandle[arg]
    BY <1>3 DEF Operand, owned, Owned
  <2>2. \A x \in SharedVar : Owned(x)' = IF x = v THEN owned[arg]
                                         ELSE IF x = arg THEN NULL ELSE Owned(x)
    BY <1>1, <1>3, <2>1 DEF Incoming
  <2>3. owned' = [owned EXCEPT ![v] = owned[arg], ![arg] = NULL]
    BY <2>1, <2>2, TwoOwnersChange
  <2> QED
    BY <1>3, <2>1, <2>3 DEF Abstract!Acquire, Abstract!HandOver
<1>4. CASE then = "adopt"
  <2>1. arg \in Block
    BY <1>4 DEF Operand
  <2>2. \A x \in SharedVar : Owned(x)' = IF x = v THEN arg ELSE Owned(x)
    BY <1>1, <1>4 DEF Incoming
  <2>3. owned' = [owned EXCEPT ![v] = arg]
    BY <2>2, OneOwnerChanges
  <2> QED
    BY <1>4, <2>1, <2>3 DEF Abstract!Acquire, Abstract!Capture
<1>5. CASE then \in {"destroy", "reset"}
  <2>1. \A x \in SharedVar : Owned(x)' = IF x = v THEN NULL ELSE Owned(x)
    BY <1>1, <1>5 DEF Incoming
  <2>2. owned' = [owned EXCEPT ![v] = NULL]
    BY <2>1, OneOwnerChanges
  <2> QED
    BY <1>5, <2>2 DEF Abstract!Acquire, Abstract!Take
<1> QED
  BY <1>2, <1>3, <1>4, <1>5 DEF Then

\* A reference that is not the last is given up, and something else acquired.
LEMMA ReleaseReassigns ==
  ASSUME IInv, Disciplined, AliveHasOwner',
         NEW v \in SharedVar, NEW then \in Then, NEW arg \in Operand(then),
         Permitted(v, then, arg), ~ LastReference(mHandle[v]),
         Release(v, then, arg)
  PROVE  OwnershipStep
<1>1. /\ Complete(v, then, arg, release_shared(mStrong, mHandle[v]), mem)
      /\ UNCHANGED <<mWeak, inst, stack>>
  BY DEF Release
<1>2. Releasing' = Releasing /\ v \notin Releasing
  BY <1>1 DEF Releasing, Depth, Permitted, Free
<1>3. \A x \in Var :
        mHandle'[x] = IF x = v THEN Incoming(then, arg)
                      ELSE IF then = "move" /\ x = arg THEN NULL ELSE mHandle[x]
  BY <1>1, CompleteHandles
<1>4. \A c \in Block : mem'[c] = IF then = "adopt" /\ c = arg THEN "held" ELSE mem[c]
  BY <1>1 DEF Complete, IInv, TypeOK, BlockTypeOK
<1>5. /\ then \in {"copy", "move"} => arg # v /\ arg \notin Releasing
      /\ then = "adopt" => arg \in Block /\ inst[arg] = "live" /\ mem[arg] = "none"
  BY DEF Permitted, Raw, Operand, Free
<1>6. \A c \in Block : LifeOf(c)' = IF then = "adopt" /\ c = arg THEN "alive" ELSE LifeOf(c)
  BY <1>1, <1>4, <1>5 DEF LifeOf
<1>7. lives' = IF then = "adopt" THEN [lives EXCEPT ![arg] = "alive"] ELSE lives
  <2>1. CASE then = "adopt"
    BY <1>5, <1>6, <2>1, OneLifeChanges
  <2>2. CASE then # "adopt"
    BY <1>6, <2>2, LivesStay
  <2> QED
    BY <2>1, <2>2
<1>8. then = "adopt" => lives[arg] = "unmanaged"
  BY <1>5 DEF lives, LifeOf
<1>9. Abstract!Acquire(lives)
  BY <1>2, <1>3, <1>5, <1>7, <1>8, CompletionAcquires DEF Disciplined
<1>10. \A c \in Block : lives[c] = "alive" => lives'[c] = "alive"
  BY <1>6 DEF lives
<1>11. observed' = observed
  <2>1. \A w \in WeakVar : w \in Var /\ w # v /\ (then = "move" => w # arg)
    BY VarAssumption DEF Var, Operand
  <2> QED
    BY <1>3, <2>1, ObserversStay
<1> QED
  BY <1>9, <1>10, <1>11, OwnersRemain DEF OwnershipStep, Abstract!Reassign

\* The last reference is given up: the instance loses its only owner and its
\* destruction begins.
LEMMA ReleaseLosesLast ==
  ASSUME IInv, Disciplined,
         NEW v \in SharedVar, NEW then \in Then, NEW arg \in Operand(then),
         Permitted(v, then, arg), LastReference(mHandle[v]),
         Release(v, then, arg)
  PROVE  OwnershipStep
<1>1. BeginDestruction(v, then, arg)
  BY DEF Release
<1>2. v \notin Releasing
  BY DEF Permitted, Free
<1>3. PICK b \in Block : /\ b = mHandle[v] /\ v \in Owners(b)
                         /\ inst[b] = "live" /\ mem[b] = "held" /\ mStrong[b] = 1
  BY <1>2, HolderOwns DEF LastReference, Disciplined
<1>4. /\ mHandle' = mHandle /\ mem' = mem
      /\ \A c \in Block : inst'[c] = IF c = b THEN "dying" ELSE inst[c]
  BY <1>1, <1>3 DEF BeginDestruction, release_last, handleVars, IInv, TypeOK, BlockTypeOK
<1>5. Releasing' = Releasing \cup {v}
  BY <1>1, <1>3, CallBegins
<1>6. \A x \in Owners(b) : x = v
  <2>1. IsFiniteSet(Owners(b)) /\ Cardinality(Owners(b)) = 1
    BY <1>3, OwnersFinite DEF IInv, CountInv, Disciplined
  <2> QED
    BY <1>3, <2>1, FS_Singleton
<1>7. Abstract!Owners(b) = {v}
  <2>1. ASSUME NEW x \in SharedVar
        PROVE  owned[x] = b <=> x \in Owners(b)
    BY BlockAssumption DEF owned, Owned, Owners
  <2> QED
    BY <1>3, <1>6, <2>1 DEF Abstract!Owners
<1>8. owned' = [owned EXCEPT ![v] = NULL]
  <2>1. \A x \in SharedVar : Owned(x)' = IF x = v THEN NULL ELSE Owned(x)
    BY <1>4, <1>5 DEF Owned
  <2> QED
    BY <2>1, OneOwnerChanges
<1>9. lives' = [lives EXCEPT ![b] = "dying"]
  <2>1. \A c \in Block : LifeOf(c)' = IF c = b THEN "dying" ELSE LifeOf(c)
    BY <1>4 DEF LifeOf
  <2> QED
    BY <2>1, OneLifeChanges
<1>10. observed' = observed
  BY <1>4 DEF observed
<1> QED
  BY <1>7, <1>8, <1>9, <1>10 DEF OwnershipStep, Abstract!LoseLast

(***************************************************************************)
(* The destructor returns.                                                 *)
(***************************************************************************)
LEMMA ReturnEndsDestruction ==
  ASSUME IInv, Disciplined, TypeOK', AliveHasOwner', Return
  PROVE  OwnershipStep
<1> DEFINE n == Len(stack) - 1
<1>1. stack # <<>> /\ Members(Top.blk) \cap scope = {}
  BY DEF Return, Unwinding
<1>2. PICK b \in Block, v \in SharedVar, then \in Then, arg \in Operand(Top.then) :
        b = Top.blk /\ v = Top.var /\ then = Top.then /\ arg = Top.arg
  BY <1>1, InnermostCall
<1>3. PICK m : m = adjust(mStrong, mWeak', mem, b)
  OBVIOUS
<1>4. /\ mWeak' = [mWeak EXCEPT ![b] = Dec(@)]
      /\ inst' = [inst EXCEPT ![b] = "dead"]
      /\ Complete(v, then, arg, mStrong, m)
  BY <1>2, <1>3 DEF Return
<1>5. arg \in Operand(then)
  BY <1>2
<1>6. /\ Len(stack) \in Depth
      /\ inst[b] = "dying"
      /\ Releasing = {stack[i].var : i \in 1 .. n} \cup {v}
      /\ \A i \in 1 .. n : i \in Depth /\ i < Len(stack) /\ stack[i].blk # b /\ stack[i].var # v
      /\ stack[Len(stack)].then = then /\ stack[Len(stack)].arg = arg
      /\ stack[Len(stack)].var = v
  BY <1>1, <1>2, InnermostCall DEF Top
<1>7. Releasing' = {stack[i].var : i \in 1 .. n}
  BY ReturnFrames
<1>8. Releasing' = Releasing \ {v}
  BY <1>6, <1>7
<1>9. /\ then \in {"copy", "move"} => arg # v /\ \A i \in 1 .. n : stack[i].var # arg
      /\ then = "adopt" => arg \in Block /\ inst[arg] = "live" /\ mem[arg] = "none"
  <2>1. then = "adopt" => arg \in Block
    BY <1>5 DEF Operand
  <2> QED
    BY <1>6, <2>1 DEF IInv, SourceInv, AdoptInv
<1>10. then \in {"copy", "move"} => arg # v /\ arg \notin Releasing
  BY <1>6, <1>9
<1>11. \A x \in Var :
         mHandle'[x] = IF x = v THEN Incoming(then, arg)
                       ELSE IF then = "move" /\ x = arg THEN NULL ELSE mHandle[x]
  BY <1>4, <1>5, CompleteHandles
<1>12. \A c \in Block : c # b => m[c] = mem[c]
  BY <1>1, <1>2, <1>3, <1>4, <1>7, ReturnInBetween
<1>13. \A c \in Block \ {b} : mem'[c] = IF then = "adopt" /\ c = arg THEN "held" ELSE mem[c]
  <2>1. m \in [Block -> MemState]
    BY <1>3, MemoryType DEF IInv, TypeOK, BlockTypeOK
  <2> QED
    BY <1>4, <1>9, <1>12, <2>1 DEF Complete
<1>14. \A c \in Block : inst'[c] = IF c = b THEN "dead" ELSE inst[c]
  BY <1>4 DEF IInv, TypeOK, BlockTypeOK
<1>15. ASSUME NEW c \in Block
       PROVE  LifeOf(c)' = IF c = b THEN "gone"
                           ELSE IF then = "adopt" /\ c = arg THEN "alive" ELSE LifeOf(c)
  BY <1>9, <1>13, <1>14 DEF LifeOf
<1>16. lives' = IF then = "adopt" THEN [lives EXCEPT ![b] = "gone", ![arg] = "alive"]
                ELSE [lives EXCEPT ![b] = "gone"]
  BY <1>6, <1>9, <1>15 DEF lives
<1>17. lives[b] = "dying" /\ (then = "adopt" => lives[arg] = "unmanaged")
  BY <1>6, <1>9 DEF lives, LifeOf
<1>18. Abstract!Acquire([lives EXCEPT ![b] = "gone"])
  <2>1. PICK now : now = [lives EXCEPT ![b] = "gone"]
    OBVIOUS
  <2>2. lives' = IF then = "adopt" THEN [now EXCEPT ![arg] = "alive"] ELSE now
    BY <1>16, <2>1
  <2>3. Abstract!Acquire(now)
    BY <1>5, <1>8, <1>10, <1>11, <1>17, <2>2, CompletionAcquires DEF Disciplined
  <2> QED
    BY <2>1, <2>3
<1>19. \A c \in Block : lives[c] = "alive" => lives'[c] = "alive"
  BY <1>15, <1>17 DEF lives
<1>20. observed' = observed
  <2>1. \A w \in WeakVar : w \in Var /\ w # v /\ (then = "move" => w # arg)
    BY <1>5, VarAssumption DEF Var, Operand
  <2> QED
    BY <1>11, <2>1, ObserversStay
<1> QED
  BY <1>17, <1>18, <1>19, <1>20, OwnersRemain DEF OwnershipStep, Abstract!EndDestruction

(***************************************************************************)
(* Steps that release nothing.                                             *)
(***************************************************************************)
LEMMA NothingHappens ==
  ASSUME UNCHANGED mHandle, Releasing' = Releasing,
         \A b \in Block : LifeOf(b)' = LifeOf(b)
  PROVE  OwnershipStep
<1>1. owned' = owned
  BY OwnersStay DEF Owned
<1>2. lives' = lives
  BY LivesStay
<1>3. observed' = observed
  BY DEF observed
<1> QED
  BY <1>1, <1>2, <1>3 DEF OwnershipStep

\* A new instance is managed by nothing, a failed make_shared frees a block that
\* never had an instance, and the end of a destructor body is no event.
LEMMA QuietHappens ==
  ASSUME IInv,
         \/ \E b \in Block : New(b) \/ MakeSharedThrows(b)
         \/ \E b, c \in Block : CopyInstance(b, c)
         \/ \E v \in SharedVar : DefaultCtor(v)
         \/ EndBody
  PROVE  OwnershipStep
<1>1. UNCHANGED mHandle
  BY DEF New, MakeSharedThrows, CopyInstance, DefaultCtor, EndBody, handleVars
<1>2. Releasing' = Releasing
  <2>1. CASE EndBody
    <3>1. /\ stack \in Seq(Frame) /\ Len(stack) \in Depth
          /\ stack' = [stack EXCEPT ![Len(stack)].body = FALSE]
      BY <2>1, InnermostCall DEF EndBody, IInv, TypeOK, HandleTypeOK
    <3>2. Depth' = Depth /\ \A i \in Depth : stack'[i].var = stack[i].var
      BY <3>1 DEF Depth, Frame
    <3> QED
      BY <3>2 DEF Releasing
  <2>2. CASE UNCHANGED stack
    BY <2>2 DEF Releasing, Depth
  <2> QED
    BY <2>1, <2>2 DEF New, MakeSharedThrows, CopyInstance, DefaultCtor
<1>3. ASSUME NEW b \in Block
      PROVE  LifeOf(b)' = LifeOf(b)
  BY DEF New, MakeSharedThrows, CopyInstance, DefaultCtor, EndBody, blockVars, LifeOf,
         IInv, TypeOK, BlockTypeOK
<1> QED
  BY <1>1, <1>2, <1>3, NothingHappens

\* A pointer is made from nothing (AdoptCtor, MakeShared).
LEMMA CaptureReassigns ==
  ASSUME IInv, AliveHasOwner', NEW v \in SharedVar, NEW b \in Block,
         AdoptCtor(v, b) \/ MakeShared(v, b)
  PROVE  OwnershipStep
<1>1. v \notin Releasing /\ v \in Var /\ v \notin WeakVar
  BY OutOfScope, VarAssumption DEF AdoptCtor, MakeShared, Fresh, Var, Closable, Free
<1>2. Releasing' = Releasing
  BY DEF AdoptCtor, MakeShared, Releasing, Depth
<1>3. mHandle' = [mHandle EXCEPT ![v] = b]
  BY DEF AdoptCtor, MakeShared
<1>4. owned' = [owned EXCEPT ![v] = b]
  <2>1. \A x \in SharedVar : Owned(x)' = IF x = v THEN b ELSE Owned(x)
    BY <1>1, <1>2, <1>3 DEF Owned, IInv, TypeOK, HandleTypeOK, Var
  <2> QED
    BY <2>1, OneOwnerChanges
<1>5. LifeOf(b) = "unmanaged"
  BY DEF AdoptCtor, MakeShared, Raw, LifeOf
<1>6. ASSUME NEW c \in Block
      PROVE  LifeOf(c)' = IF c = b THEN "alive" ELSE LifeOf(c)
  BY DEF AdoptCtor, MakeShared, Raw, LifeOf, IInv, TypeOK, BlockTypeOK
<1>7. lives' = [lives EXCEPT ![b] = "alive"]
  BY <1>6, OneLifeChanges
<1>8. Abstract!Acquire(lives)
  BY <1>4, <1>5, <1>7 DEF Abstract!Acquire, Abstract!Capture, lives
<1>9. observed' = observed
  BY <1>1, <1>3, ObserversStay DEF Var
<1>10. \A c \in Block : lives[c] = "alive" => lives'[c] = "alive"
  BY <1>7 DEF lives
<1> QED
  BY <1>8, <1>9, <1>10, OwnersRemain DEF OwnershipStep, Abstract!Reassign

\* A pointer is made from another one, from a weak_ptr that is not expired, or
\* from an instance that knows its block.
LEMMA CopyReassigns ==
  ASSUME IInv, AliveHasOwner',
         NEW v \in SharedVar, NEW h \in Handle, NEW p, NEW tracks,
         h # NULL => mStrong[h] > 0,
         PrivateCtor(v, h, p, tracks)
  PROVE  OwnershipStep
<1>1. v \notin Releasing /\ v \in Var /\ v \notin WeakVar
  BY OutOfScope, VarAssumption DEF PrivateCtor, Fresh, Var, Closable, Free
<1>2. Releasing' = Releasing /\ UNCHANGED <<mem, inst>>
  BY DEF PrivateCtor, Releasing, Depth
<1>3. mHandle' = [mHandle EXCEPT ![v] = h]
  BY DEF PrivateCtor
<1>4. owned' = [owned EXCEPT ![v] = h]
  <2>1. \A x \in SharedVar : Owned(x)' = IF x = v THEN h ELSE Owned(x)
    BY <1>1, <1>2, <1>3 DEF Owned, IInv, TypeOK, HandleTypeOK, Var
  <2> QED
    BY <2>1, OneOwnerChanges
<1>5. h # NULL => lives[h] = "alive"
  BY DEF Handle, lives, LifeOf, IInv, LifeInv
<1>6. lives' = lives
  BY <1>2 DEF lives, LifeOf
<1>7. Abstract!Acquire(lives)
  BY <1>4, <1>5, <1>6 DEF Abstract!Acquire, Abstract!Take, Handle
<1>8. observed' = observed
  BY <1>1, <1>3, ObserversStay DEF Var
<1> QED
  BY <1>6, <1>7, <1>8, OwnersRemain DEF OwnershipStep, Abstract!Reassign

\* Two pointers change places: a swap, or a move into a pointer that is null.
LEMMA SwapExchanges ==
  ASSUME IInv, NEW v \in SharedVar, NEW u \in SharedVar, Free(v), Free(u),
         mHandle' = [mHandle EXCEPT ![v] = mHandle[u], ![u] = mHandle[v]],
         UNCHANGED <<blockVars, stack>>
  PROVE  OwnershipStep
<1>1. Releasing' = Releasing /\ UNCHANGED <<mem, inst>>
  BY DEF Releasing, Depth, blockVars
<1>2. owned' = [owned EXCEPT ![v] = owned[u], ![u] = owned[v]]
  BY <1>1 DEF owned, Owned, Free, IInv, TypeOK, HandleTypeOK, Var
<1>3. lives' = lives
  BY <1>1 DEF lives, LifeOf
<1>4. observed' = observed
  BY VarAssumption DEF observed, Var, IInv, TypeOK, HandleTypeOK
<1> QED
  BY <1>2, <1>3, <1>4 DEF OwnershipStep, Abstract!Exchange

(***************************************************************************)
(* Weak references.  The release of one may free the block of an instance  *)
(* that is gone, which is no change of any life.                           *)
(***************************************************************************)
LEMMA WeakResetKillsNothing ==
  ASSUME IInv, Disciplined, NEW w \in WeakVar, mem' = mem_reset(w), UNCHANGED inst
  PROVE  lives' = lives
<1>1. ASSUME NEW c \in Block
      PROVE  LifeOf(c)' = LifeOf(c)
  BY WeakResetMemory DEF LifeOf
<1> QED
  BY <1>1, LivesStay

LEMMA WeakLeavesOwners ==
  ASSUME IInv, NEW w \in WeakVar, NEW x \in WeakVar, NEW g, NEW h, UNCHANGED stack,
         mHandle' = [mHandle EXCEPT ![w] = g, ![x] = h] \/ mHandle' = [mHandle EXCEPT ![w] = g]
  PROVE  owned' = owned
<1>1. \A v \in SharedVar : v \in Var /\ mHandle'[v] = mHandle[v]
  BY VarAssumption DEF Var, IInv, TypeOK, HandleTypeOK
<1>2. Releasing' = Releasing
  BY DEF Releasing, Depth
<1> QED
  BY <1>1, <1>2, OwnersStay DEF Owned

LEMMA UpdateObserves ==
  ASSUME IInv, Disciplined, NEW w \in WeakVar, NEW h \in Handle, NEW p, NEW extent,
         Update(w, p, h, extent)
  PROVE  OwnershipStep
<1> DEFINE g == IF Assigns(h) THEN h ELSE NULL
<1>1. /\ mHandle' = [mHandle EXCEPT ![w] = g] /\ mem' = mem_reset(w)
      /\ UNCHANGED <<inst, stack>>
  BY DEF Update
<1>2. g \in Block \cup {NULL} /\ (g # NULL => lives[g] = "alive")
  BY DEF Assigns, has_shared_references, Handle, lives, LifeOf, IInv, LifeInv
<1> HIDE DEF g
<1>3. owned' = owned
  BY <1>1, WeakLeavesOwners
<1>4. lives' = lives
  BY <1>1, WeakResetKillsNothing
<1>5. observed' = [observed EXCEPT ![w] = g]
  BY <1>1 DEF observed, IInv, TypeOK, HandleTypeOK, Var
<1> QED
  BY <1>2, <1>3, <1>4, <1>5 DEF OwnershipStep, Abstract!Observe

LEMMA WeakMoveObserves ==
  ASSUME IInv, Disciplined, NEW w \in WeakVar, NEW x \in WeakVar, w # x,
         mHandle' = [mHandle EXCEPT ![w] = mHandle[x], ![x] = NULL],
         mem' = mem \/ mem' = mem_reset(w), UNCHANGED <<inst, stack>>
  PROVE  OwnershipStep
<1>1. owned' = owned
  BY WeakLeavesOwners
<1>2. lives' = lives
  <2>1. CASE mem' = mem
    BY <2>1, LivesStay DEF LifeOf
  <2>2. CASE mem' = mem_reset(w)
    BY <2>2, WeakResetKillsNothing
  <2> QED
    BY <2>1, <2>2
<1>3. observed' = [observed EXCEPT ![w] = observed[x], ![x] = NULL]
  BY DEF observed, IInv, TypeOK, HandleTypeOK, Var
<1> QED
  BY <1>1, <1>2, <1>3 DEF OwnershipStep, Abstract!Observe

(***************************************************************************)
(* Every step.                                                             *)
(***************************************************************************)
LEMMA ReleaseHappens ==
  ASSUME IInv, Disciplined, AliveHasOwner',
         NEW v \in SharedVar, NEW then \in Then, NEW arg \in Operand(then),
         Permitted(v, then, arg), Release(v, then, arg)
  PROVE  OwnershipStep
  BY ReleaseReassigns, ReleaseLosesLast

LEMMA InstanceStepHappens ==
  ASSUME IInv, Disciplined, AliveHasOwner', InstanceStep
  PROVE  OwnershipStep
<1>1. CASE \E b \in Block : New(b) \/ MakeSharedThrows(b) \/ \E c \in Block : CopyInstance(b, c)
  BY <1>1, QuietHappens
<1>2. CASE \E b \in Block, v \in SharedVar : AdoptCtor(v, b) \/ MakeShared(v, b)
  BY <1>2, CaptureReassigns
<1>3. ASSUME NEW b \in Block, NEW v \in SharedVar, SharedFromThis(v, b)
      PROVE  OwnershipStep
  <2>1. CASE DefaultCtor(v)
    BY <2>1, QuietHappens
  <2>2. CASE shared_from_this_data[b] = b /\ PrivateCtor(v, b, b, TRUE) /\ inst[b] = "live"
    <3>1. mem[b] = "held"
      BY <2>2, BlockAssumption DEF IInv, SelfInv, LifeInv, TypeOK, BlockTypeOK, MemState
    <3>2. mStrong[b] > 0 /\ b \in Handle
      BY <2>2, <3>1 DEF IInv, LifeInv, Handle
    <3> QED
      BY <2>2, <3>2, CopyReassigns
  <2> QED
    BY <1>3, <2>1, <2>2 DEF SharedFromThis, Disciplined
<1> QED
  BY <1>1, <1>2, <1>3 DEF InstanceStep

LEMMA SharedStepHappens ==
  ASSUME IInv, Disciplined, AliveHasOwner', SharedStep
  PROVE  OwnershipStep
<1> Liberties = {}
  BY DEF Disciplined
<1>1. CASE \E v \in SharedVar : DefaultCtor(v)
  BY <1>1, QuietHappens
<1>2. ASSUME NEW v \in SharedVar, Destroy(v)
      PROVE  OwnershipStep
  <2>1. Permitted(v, "destroy", NULL)
    BY <1>2, Discipline DEF Destroy, Permitted, Closable
  <2> QED
    BY <1>2, <2>1, ReleaseHappens DEF Destroy, Then, Operand
<1>3. ASSUME NEW v \in SharedVar, Reset(v)
      PROVE  OwnershipStep
  <2>1. Permitted(v, "reset", NULL)
    BY <1>3, Discipline DEF Reset, Permitted
  <2> QED
    BY <1>3, <2>1, ReleaseHappens DEF Reset, Then, Operand
<1>4. ASSUME NEW v \in SharedVar, NEW b \in Block, ResetTo(v, b)
      PROVE  OwnershipStep
  <2>1. Permitted(v, "adopt", b)
    BY <1>4, Discipline DEF ResetTo, Permitted
  <2> QED
    BY <1>4, <2>1, ReleaseHappens DEF ResetTo, Then, Operand
<1>5. ASSUME NEW v \in SharedVar, NEW u \in SharedVar,
             CopyCtor(v, u) \/ PointerCast(v, u) \/ DynamicCastFails(v, u)
      PROVE  OwnershipStep
  <2>1. u \in Var /\ mHandle[u] \in Handle /\ u \notin Releasing
    BY <1>5, ResetPtrType, Discipline DEF CopyCtor, PointerCast, DynamicCastFails, IInv, Var
  <2>2. mHandle[u] # NULL => mStrong[mHandle[u]] > 0
    BY <2>1, HolderOwns DEF Disciplined
  <2> QED
    BY <1>5, <2>1, <2>2, CopyReassigns DEF CopyCtor, PointerCast, DynamicCastFails
<1>6. ASSUME NEW v \in SharedVar, NEW u \in SharedVar, MoveCtor(v, u)
      PROVE  OwnershipStep
  <2>1. v \in Var /\ v \notin scope /\ u \in scope /\ Free(u)
    BY <1>6, Discipline DEF MoveCtor, Fresh, Var
  <2>2. mHandle[v] = NULL /\ Free(v)
    BY <2>1, OutOfScope DEF Closable
  <2> QED
    BY <1>6, <2>1, <2>2, SwapExchanges DEF MoveCtor
<1>7. ASSUME NEW v \in SharedVar, NEW u \in SharedVar, CopyAssign(v, u)
      PROVE  OwnershipStep
  <2>1. Permitted(v, "copy", u)
    BY <1>7, Discipline DEF CopyAssign, Permitted
  <2> QED
    BY <1>7, <2>1, ReleaseHappens DEF CopyAssign, Then, Operand
<1>8. ASSUME NEW v \in SharedVar, NEW u \in SharedVar, MoveAssign(v, u)
      PROVE  OwnershipStep
  <2>1. Permitted(v, "move", u)
    BY <1>8, Discipline DEF MoveAssign, Permitted, Free
  <2> QED
    BY <1>8, <2>1, ReleaseHappens DEF MoveAssign, Then, Operand
<1>9. ASSUME NEW v \in SharedVar, NEW u \in SharedVar, Swap(v, u)
      PROVE  OwnershipStep
  BY <1>9, Discipline, SwapExchanges DEF Swap
<1> QED
  BY <1>1, <1>2, <1>3, <1>4, <1>5, <1>6, <1>7, <1>8, <1>9 DEF SharedStep

LEMMA WeakStepHappens ==
  ASSUME IInv, Disciplined, AliveHasOwner', WeakStep
  PROVE  OwnershipStep
<1>1. NULL \in Handle /\ \A x \in Var : mHandle[x] \in Handle
  BY ResetPtrType DEF IInv, Handle
<1>2. ASSUME NEW w \in WeakVar, NEW h \in Handle, NEW p, NEW extent, Update(w, p, h, extent)
      PROVE  OwnershipStep
  BY <1>2, UpdateObserves
<1>3. ASSUME NEW w \in WeakVar, WeakDefaultCtor(w) \/ WeakDestroy(w) \/ WeakReset(w)
      PROVE  OwnershipStep
  BY <1>1, <1>2, <1>3 DEF WeakDefaultCtor, WeakDestroy, WeakReset
<1>4. ASSUME NEW w \in WeakVar, NEW x \in WeakVar, WeakCopyCtor(w, x) \/ WeakCopyAssign(w, x)
      PROVE  OwnershipStep
  BY <1>1, <1>2, <1>4 DEF WeakCopyCtor, WeakCopyAssign, Var
<1>5. ASSUME NEW w \in WeakVar, NEW v \in SharedVar, WeakFromShared(w, v) \/ WeakAssignShared(w, v)
      PROVE  OwnershipStep
  BY <1>1, <1>2, <1>5 DEF WeakFromShared, WeakAssignShared, Var
<1>6. ASSUME NEW w \in WeakVar, NEW x \in WeakVar, WeakMoveCtor(w, x) \/ WeakMoveAssign(w, x)
      PROVE  OwnershipStep
  <2>1. w # x
    BY <1>6 DEF WeakMoveCtor, WeakMoveAssign, Fresh, MayWrite, MayRead
  <2> QED
    BY <1>6, <2>1, WeakMoveObserves DEF WeakMoveCtor, WeakMoveAssign, blockVars
<1>7. ASSUME NEW w \in WeakVar, NEW v \in SharedVar, Lock(v, w)
      PROVE  OwnershipStep
  <2>1. CASE LockExpired(v, w)
    BY <1>1, <1>2, <2>1 DEF LockExpired
  <2>2. CASE /\ mHandle[w] # NULL /\ has_shared_references(mHandle[w])
             /\ PrivateCtor(v, mHandle[w], mPtr[w], v \in TrackingVar)
    BY <1>1, <2>2, CopyReassigns DEF has_shared_references, Var
  <2> QED
    BY <1>7, <2>1, <2>2 DEF Lock
<1> QED
  BY <1>3, <1>4, <1>5, <1>6, <1>7 DEF WeakStep

LEMMA DestructorStepHappens ==
  ASSUME IInv, Disciplined, TypeOK', AliveHasOwner', DestructorStep
  PROVE  OwnershipStep
<1>1. CASE EndBody
  BY <1>1, QuietHappens
<1>2. CASE Return
  BY <1>2, ReturnEndsDestruction
<1>3. ASSUME NEW v \in SharedVar, DestroySharedMember(v)
      PROVE  OwnershipStep
  <2>1. Closable(v)
    BY <1>3, MemberIsClosable DEF DestroySharedMember, Unwinding, Disciplined
  <2>2. Permitted(v, "destroy", NULL)
    BY <1>3, <2>1 DEF DestroySharedMember, Permitted, Closable
  <2> QED
    BY <1>3, <2>2, ReleaseHappens DEF DestroySharedMember, Then, Operand
<1>4. ASSUME NEW w \in WeakVar, DestroyWeakMember(w)
      PROVE  OwnershipStep
  BY <1>4, UpdateObserves DEF DestroyWeakMember, Handle
<1> QED
  BY <1>1, <1>2, <1>3, <1>4 DEF DestructorStep

LEMMA StepMaps ==
  ASSUME IInv, IInv', AliveHasOwner', HeldIsNeeded', Disciplined, Next
  PROVE  [Abstract!Next]_(Abstract!vars)
<1>1. TypeOK'
  BY DEF IInv
<1>2. OwnershipStep
  BY <1>1, InstanceStepHappens, SharedStepHappens, WeakStepHappens, DestructorStepHappens
  DEF Next
<1> QED
  BY <1>2, RecordFollows

LEMMA StutterMaps ==
  ASSUME UNCHANGED vars
  PROVE  UNCHANGED Abstract!vars
<1>1. Releasing' = Releasing /\ UNCHANGED <<mHandle, mem, inst>>
  BY DEF vars, blockVars, handleVars, Releasing, Depth
<1> QED
  BY <1>1 DEF Abstract!vars, owned, observed, lives, held, Owned, LifeOf

LEMMA InitMaps ==
  ASSUME Init
  PROVE  Abstract!Init
<1>1. Releasing = {}
  BY DEF Init, HandleInit, Releasing, Depth
<1> QED
  BY <1>1 DEF Init, BlockInit, HandleInit, Var, Abstract!Init,
              owned, observed, lives, held, Owned, LifeOf

\* The smart pointers implement Ownership: for every set of variables and
\* instances, an instance lives from its first owner to its last, is destroyed
\* once and owned by nothing afterwards, and its record is kept exactly while it
\* is alive, being destroyed or observed, whatever the destructors do.
THEOREM SmartPtrImplementsOwnership ==
  ASSUME Disciplined
  PROVE  Spec => ImplementsOwnership
<1>1. Init => Abstract!Init
  BY InitMaps
<1>2. IInv /\ IInv' /\ AliveHasOwner' /\ HeldIsNeeded' /\ [Next]_vars
        => [Abstract!Next]_(Abstract!vars)
  BY StepMaps, StutterMaps
<1> QED
  BY <1>1, <1>2, InvariantHolds, AliveOwned, HeldNeeded, PTL
  DEF Spec, ImplementsOwnership, Abstract!Spec

(***************************************************************************)
(* Nothing comes back: what Ownership says of an instance that nothing     *)
(* refers to, and what becomes of its block.                               *)
(***************************************************************************)
LEMMA DyingIsNotTaken ==
  ASSUME IInv, NEW b \in Block, lives[b] = "dying",
         Abstract!Owners(b) = {}, Abstract!Observers(b) = {}, [Abstract!Next]_(Abstract!vars)
  PROVE  /\ Abstract!Owners(b)' = {} /\ Abstract!Observers(b)' = {}
         /\ lives'[b] \in {"dying", "gone"}
<1>1. /\ b # NULL /\ lives = [c \in Block |-> LifeOf(c)]
      /\ \A v \in SharedVar : owned[v] # b
      /\ \A w \in WeakVar : observed[w] # b
  BY BlockAssumption DEF lives, Abstract!Owners, Abstract!Observers
<1>2. DOMAIN owned = SharedVar
  BY DEF owned
<1>3. DOMAIN observed = WeakVar
  BY DEF observed
<1>4. ASSUME NEW now, now \in {lives, [lives EXCEPT ![b] = "gone"]}
                      \/ \E i \in Block : lives[i] = "dying" /\ now = [lives EXCEPT ![i] = "gone"],
             Abstract!Acquire(now)
      PROVE  /\ \A v \in SharedVar : owned'[v] # b
             /\ lives'[b] \in {"dying", "gone"}
  <2>1. now[b] \in {"dying", "gone"} /\ DOMAIN now = Block
    BY <1>1, <1>4
  <2>2. ASSUME NEW p \in SharedVar, NEW i \in Block \cup {NULL}, Abstract!Take(p, i, now)
        PROVE  /\ \A v \in SharedVar : owned'[v] # b
               /\ lives'[b] \in {"dying", "gone"}
    BY <1>1, <1>2, <2>1, <2>2 DEF Abstract!Take
  <2>3. ASSUME NEW p \in SharedVar, NEW i \in Block, Abstract!Capture(p, i, now)
        PROVE  /\ \A v \in SharedVar : owned'[v] # b
               /\ lives'[b] \in {"dying", "gone"}
    BY <1>1, <1>2, <2>1, <2>3 DEF Abstract!Capture
  <2>4. ASSUME NEW p \in SharedVar, NEW q \in SharedVar \ {p}, Abstract!HandOver(p, q, now)
        PROVE  /\ \A v \in SharedVar : owned'[v] # b
               /\ lives'[b] \in {"dying", "gone"}
    BY <1>1, <1>2, <2>1, <2>4 DEF Abstract!HandOver
  <2> QED
    BY <1>4, <2>2, <2>3, <2>4 DEF Abstract!Acquire
<1>5. CASE Abstract!Reassign
  BY <1>1, <1>4, <1>5 DEF Abstract!Reassign, Abstract!Owners, Abstract!Observers
<1>6. CASE Abstract!Exchange
  BY <1>1, <1>2, <1>6 DEF Abstract!Exchange, Abstract!Owners, Abstract!Observers
<1>7. CASE Abstract!LoseLast
  BY <1>1, <1>2, <1>7 DEF Abstract!LoseLast, Abstract!Owners, Abstract!Observers
<1>8. CASE Abstract!EndDestruction
  <2>1. PICK i \in Block :
          /\ lives[i] = "dying"
          /\ \/ Abstract!Acquire([lives EXCEPT ![i] = "gone"])
             \/ owned' = owned /\ lives' = [lives EXCEPT ![i] = "gone"]
    BY <1>8 DEF Abstract!EndDestruction
  <2>2. /\ \A v \in SharedVar : owned'[v] # b
        /\ lives'[b] \in {"dying", "gone"}
    BY <1>1, <1>4, <2>1
  <2> QED
    BY <1>1, <1>8, <2>2 DEF Abstract!EndDestruction, Abstract!Owners, Abstract!Observers
<1>9. CASE Abstract!Observe
  BY <1>1, <1>3, <1>9 DEF Abstract!Observe, Abstract!Owners, Abstract!Observers
<1>10. CASE UNCHANGED Abstract!vars
  BY <1>1, <1>10 DEF Abstract!vars, Abstract!Owners, Abstract!Observers
<1> QED
  BY <1>5, <1>6, <1>7, <1>8, <1>9, <1>10 DEF Abstract!Next

\* The owners and observers Ownership sees are those of the model.
LEMMA SameReferences ==
  \A b \in Block : Abstract!Owners(b) = Owners(b) /\ Abstract!Observers(b) = Observers(b)
  BY BlockAssumption
  DEF Abstract!Owners, Abstract!Observers, Owners, Observers, owned, observed, Owned

LEMMA AbandonedIsDying ==
  ASSUME IInv, NEW b \in Block, Abandoned(b)
  PROVE  inst[b] = "dying"
<1>1. Cardinality(Owners(b)) = 0 /\ Cardinality(Observers(b)) = 0
  BY FS_EmptySet DEF Abandoned
<1>2. mStrong[b] = 0 /\ mWeak[b] = 0 + Temporary(b)
  BY <1>1 DEF IInv, CountInv
<1> QED
  BY <1>2 DEF IInv, LifeInv, Abandoned, Temporary

LEMMA AbandonedWaits ==
  ASSUME IInv, HeldIsNeeded', LifeStep, [Abstract!Next]_(Abstract!vars)
  PROVE  AbandonedStep
<1> SUFFICES ASSUME NEW b \in Block, Abandoned(b)
             PROVE  /\ inst[b] = "dying"
                    /\ \/ Abandoned(b)' /\ inst'[b] = "dying"
                       \/ mem'[b] = "freed" /\ inst'[b] = "dead"
  BY DEF AbandonedStep
<1>1. inst[b] = "dying" /\ mem[b] = "held" /\ lives[b] = "dying"
  BY AbandonedIsDying DEF Abandoned, lives, LifeOf
<1>2. Abstract!Owners(b) = {} /\ Abstract!Observers(b) = {}
  BY SameReferences DEF Abandoned
<1>3. /\ Abstract!Owners(b)' = {} /\ Abstract!Observers(b)' = {}
      /\ lives'[b] \in {"dying", "gone"}
  BY <1>1, <1>2, DyingIsNotTaken
<1>4. Owners(b)' = {} /\ Observers(b)' = {}
  BY <1>3, BlockAssumption
  DEF Abstract!Owners, Abstract!Observers, Owners, Observers, owned, observed, Owned
<1>5. lives'[b] = LifeOf(b)'
  BY DEF lives
<1>6. mem'[b] = "held" <=> lives'[b] = "dying"
  BY <1>3 DEF HeldIsNeeded, held, Abstract!Needed
<1>7. CASE lives'[b] = "dying"
  BY <1>1, <1>4, <1>5, <1>6, <1>7 DEF LifeOf, Abandoned
<1>8. CASE lives'[b] = "gone"
  BY <1>1, <1>6, <1>8 DEF LifeStep
<1> QED
  BY <1>1, <1>3, <1>7, <1>8

\* A control block that nothing refers to is one whose instance is in its
\* destructor. No operation of that destructor, or of any other, gives it an
\* owner or an observer again, and the end of the destructor frees it: for every
\* set of variables and instances, only a destructor that does not return could
\* leak a block.
THEOREM AbandonedBlocksOnlyWait ==
  ASSUME Disciplined
  PROVE  Spec => AbandonedOnlyWaits
<1>1. IInv /\ IInv' /\ AliveHasOwner' /\ HeldIsNeeded' /\ [Next]_vars => [AbandonedStep]_vars
  <2>1. IInv /\ IInv' /\ AliveHasOwner' /\ HeldIsNeeded' /\ Next => LifeStep
    BY NextSafe
  <2>2. IInv /\ IInv' /\ AliveHasOwner' /\ HeldIsNeeded' /\ Next => AbandonedStep
    BY <2>1, StepMaps, AbandonedWaits
  <2> QED
    BY <2>2
<1> QED
  BY <1>1, InvariantHolds, AliveOwned, HeldNeeded, PTL DEF Spec, AbandonedOnlyWaits

(***************************************************************************)
(* The accessors.                                                          *)
(***************************************************************************)

\* What unique(), use_count() and expired() answer is true of the owners, also
\* in the destructors that a release runs.
THEOREM AccessorsAnswerOwners ==
  ASSUME Disciplined
  PROVE  Spec => []AccessorsTellOwners
<1>1. ASSUME IInv
      PROVE  AccessorsTellOwners
  <2>1. ASSUME NEW v \in SharedVar, v \notin Releasing
        PROVE  /\ unique(v) <=> mHandle[v] # NULL /\ Owners(mHandle[v]) = {v}
               /\ use_count(v) = 0 => get(v) = NULL
    <3>1. CASE mHandle[v] = NULL
      BY <1>1, <3>1 DEF unique, use_count, get, IInv, PointerMatchesBlock, Var
    <3>2. CASE mHandle[v] # NULL
      <4>1. PICK b \in Block : b = mHandle[v] /\ v \in Owners(b) /\ mStrong[b] > 0
        BY <1>1, <2>1, <3>2, HolderOwns DEF Disciplined
      <4>2. IsFiniteSet(Owners(b)) /\ mStrong[b] = Cardinality(Owners(b))
        BY <1>1, OwnersFinite DEF IInv, CountInv, Disciplined
      <4>3. mStrong[b] = 1 <=> Owners(b) = {v}
        BY <4>1, <4>2, FS_Singleton
      <4> QED
        BY <3>2, <4>1, <4>3 DEF unique, use_count
    <3> QED
      BY <3>1, <3>2
  <2>2. ASSUME NEW w \in WeakVar
        PROVE  ~ expired(w) <=> mHandle[w] # NULL /\ Owners(mHandle[w]) # {}
    <3>1. CASE mHandle[w] # NULL
      <4>1. PICK b \in Block : b = mHandle[w]
        BY <1>1, <3>1, ResetPtrType DEF IInv, Handle, Var
      <4>2. IsFiniteSet(Owners(b)) /\ mStrong[b] = Cardinality(Owners(b)) /\ mStrong[b] \in Nat
        BY <1>1, OwnersFinite DEF IInv, CountInv, Disciplined, TypeOK, BlockTypeOK, Count
      <4>3. mStrong[b] > 0 <=> Owners(b) # {}
        BY <4>2, FS_EmptySet
      <4> QED
        BY <3>1, <4>1, <4>3 DEF expired, has_shared_references
    <3> QED
      BY <3>1 DEF expired
  <2> QED
    BY <2>1, <2>2 DEF AccessorsTellOwners
<1> QED
  BY <1>1, InvariantHolds, PTL
=============================================================================
