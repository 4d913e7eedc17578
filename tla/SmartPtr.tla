------------------------------- MODULE SmartPtr --------------------------------
(***************************************************************************)
(* A single-threaded program that uses shared_ptr_nc, weak_ptr and         *)
(* enable_shared_from_this in any order the discipline of module Handles   *)
(* allows, including from inside the destructors the library calls.        *)
(***************************************************************************)
EXTENDS WeakPtr, FiniteSets

Init == BlockInit /\ HandleInit

InstanceStep ==
  \E b \in Block :
    \/ New(b)
    \/ MakeSharedThrows(b)
    \/ \E c \in Block : CopyInstance(b, c)
    \/ \E v \in SharedVar : AdoptCtor(v, b) \/ MakeShared(v, b) \/ SharedFromThis(v, b)

SharedStep ==
  \E v \in SharedVar :
    \/ DefaultCtor(v)
    \/ Destroy(v)
    \/ Reset(v)
    \/ \E b \in Block : ResetTo(v, b)
    \/ \E u \in SharedVar :
         \/ CopyCtor(v, u)
         \/ MoveCtor(v, u)
         \/ PointerCast(v, u)
         \/ DynamicCastFails(v, u)
         \/ CopyAssign(v, u)
         \/ MoveAssign(v, u)
         \/ Swap(v, u)

WeakStep ==
  \E w \in WeakVar :
    \/ WeakDefaultCtor(w)
    \/ WeakDestroy(w)
    \/ WeakReset(w)
    \/ \E x \in WeakVar :
         \/ WeakCopyCtor(w, x)
         \/ WeakMoveCtor(w, x)
         \/ WeakCopyAssign(w, x)
         \/ WeakMoveAssign(w, x)
    \/ \E v \in SharedVar :
         \/ WeakFromShared(w, v)
         \/ WeakAssignShared(w, v)
         \/ Lock(v, w)

DestructorStep ==
  \/ EndBody
  \/ \E v \in SharedVar : DestroySharedMember(v)
  \/ \E w \in WeakVar : DestroyWeakMember(w)
  \/ Return

Next == InstanceStep \/ SharedStep \/ WeakStep \/ DestructorStep

Spec == Init /\ [][Next]_vars

(***************************************************************************)
(* Destructors terminate: the body of each one ends, and the compiled code *)
(* around it (member destructors, the return into release_shared) runs.    *)
(* Nothing is assumed of the program at top level.                         *)
(***************************************************************************)
Fairness == WF_vars(DestructorStep)

FairSpec == Spec /\ Fairness

(***************************************************************************)
(* Type correctness.                                                       *)
(***************************************************************************)
TypeOK == BlockTypeOK /\ HandleTypeOK

(***************************************************************************)
(* Safety.                                                                 *)
(***************************************************************************)

\* No operation of a disciplined program uses a freed control block, destroys
\* an instance twice or reads a destroyed variable, wherever the destructors
\* that release_shared calls put their own operations.
MemorySafe == fault = "none"

\* The counts are the numbers of references: a block counts the shared_ptr_nc
\* that hold it and are not releasing it, and the weak_ptr that observe it,
\* and one more weak reference while release_shared is in the destructor
\* (prefix.hpp:175).
CountsExact ==
  fault = "none" =>
    \A b \in Block :
      /\ mStrong[b] = Cardinality(Owners(b))
      /\ mWeak[b] = Cardinality(Observers(b)) + (IF inst[b] = "dying" THEN 1 ELSE 0)

\* "When we have a strong pointer, then the managed instance is live (or null)"
\* (shared_ptr_nc.html:143): what a variable in scope holds is alive, whichever
\* destructors are running.
OwnedIsLive ==
  fault = "none" =>
    \A v \in (SharedVar \cap scope) \ Releasing :
      mHandle[v] # NULL => inst[mHandle[v]] = "live" /\ mem[mHandle[v]] = "held"

\* The block of a weak_ptr stays allocated for as long as the weak_ptr refers
\* to it, also after the instance is gone.
ObservedIsHeld ==
  fault = "none" =>
    \A w \in WeakVar \cap scope : mHandle[w] # NULL => mem[mHandle[w]] = "held"

\* Nothing is kept that nothing refers to: an instance that a smart pointer
\* managed lives only while one owns it, and a control block is allocated only
\* while something owns, observes or destroys its instance.
NothingLeaks ==
  fault = "none" =>
    \A b \in Block :
      mem[b] = "held" =>
        /\ inst[b] = "live" => Owners(b) # {}
        /\ Owners(b) # {} \/ Observers(b) # {} \/ inst[b] = "dying"

\* A pointer that is not null points to the instance its block manages, and a
\* null block comes with a null pointer.
PointerMatchesBlock == \A x \in Var : mPtr[x] \in {NULL, mHandle[x]}

\* "When the strong reference count reaches 0, then it can never increase
\* again" (prefix.hpp:32), the assertion of add_shared (prefix.hpp:142) and the
\* test that no reference is resolved during a destructor (correctness.cpp:1085):
\* an instance whose destruction has begun has no strong reference.
ZeroIsFinal == \A b \in Block : inst[b] \in {"dying", "dead"} => mStrong[b] = 0

(***************************************************************************)
(* What the documentation says and the code does not do.                   *)
(***************************************************************************)

\* lock() returns null only when "the referenced instance has been delete[d]"
\* or "the weak_pointer originally was created from a null shared pointer"
\* (shared_ptr_nc.hpp:145): a weak_ptr with a live instance points to it, as
\* long as there is no shared_ptr_nc with that block and a null pointer.
LockFindsInstance ==
  \A w \in WeakVar \cap scope :
    mHandle[w] # NULL /\ has_shared_references(mHandle[w]) =>
      \/ mPtr[w] = mHandle[w]
      \/ \E v \in Owners(mHandle[w]) : mPtr[v] = NULL

\* "When we have a strong pointer, then the managed instance is live (or null)"
\* (shared_ptr_nc.html:143), of every shared_ptr_nc, one that is being released included.
StrongPointerIsLive ==
  fault = "none" =>
    \A v \in SharedVar \cap scope : mPtr[v] # NULL => inst[mPtr[v]] = "live"

\* "A tracked instance will store a pointer to its control block in a base
\* class" (prefix.hpp:258).
TrackedKnowsBlock ==
  \A b \in TrackingBlock :
    inst[b] = "live" /\ mem[b] = "held" => shared_from_this_data[b] = b

(***************************************************************************)
(* Action properties.                                                      *)
(***************************************************************************)

\* The life of a block and of its instance only goes forward: an instance is
\* destroyed once, its block is freed once and not before the destructor of
\* the instance has returned.
LifeStep ==
  \A b \in Block :
    /\ inst[b] # inst'[b] =>
         <<inst[b], inst'[b]>> \in {<<"none", "live">>, <<"live", "dying">>, <<"dying", "dead">>}
    /\ mem[b] # mem'[b] =>
         \/ mem[b] = "none"
         \/ mem[b] = "held" /\ mem'[b] = "freed" /\ inst'[b] = "dead"

LifeGoesForward == [][LifeStep]_vars

\* A variable that has a block and a null pointer: it keeps an instance or its
\* record, and nobody can reach the instance by it.
Blind(x) == mHandle[x] # NULL /\ mPtr[x] = NULL

\* Blindness has two sources, the assignment of a weak_ptr from a shared_ptr_nc
\* (suffix.hpp:362) and a dynamic_pointer_cast that fails (suffix.hpp:490). All
\* other operations, and what a call does when a destructor comes back to it,
\* can only hand it on with the block.
BlindStep ==
  \A x \in Var :
    Blind(x)' =>
      \/ \E y \in Var : Blind(y) /\ mHandle[y] = mHandle'[x]
      \/ x \in WeakVar /\ \E v \in SharedVar : WeakAssignShared(x, v)
      \/ x \in SharedVar /\ \E u \in SharedVar : DynamicCastFails(x, u)

OnlyTwoBlind == [][BlindStep]_vars

\* A managed instance that was captured as the tracking type knows its block
\* from then on, whatever is cast, copied or assigned, until the instance itself
\* is overwritten by a copy of another (shared_ptr_nc.hpp:177).
KnowsBlock(b) == inst[b] = "live" /\ mem[b] = "held" => shared_from_this_data[b] = b

TrackedStep ==
  \A b \in TrackingBlock :
    KnowsBlock(b) => KnowsBlock(b)' \/ \E c \in Block : CopyInstance(b, c)

OnlyCopiesForget == [][TrackedStep]_vars

(***************************************************************************)
(* Liveness.                                                               *)
(***************************************************************************)

\* A release that destroys instances gives control back to the program, also
\* when each destructor releases the next instance of a chain.
CallReturns == stack # <<>> ~> stack = <<>>

\* A control block with no reference left is freed.
Abandoned(b) == mem[b] = "held" /\ Owners(b) = {} /\ Observers(b) = {}
AbandonedIsFreed == \A b \in Block : Abandoned(b) ~> mem[b] = "freed"

\* Nothing refers to such a block again, and it has only its destructor to wait
\* for: the end of that one frees it, and nothing else does (prefix.hpp:183).
AbandonedStep ==
  \A b \in Block :
    Abandoned(b) =>
      /\ inst[b] = "dying"
      /\ \/ Abandoned(b)' /\ inst'[b] = "dying"
         \/ mem'[b] = "freed" /\ inst'[b] = "dead"

AbandonedOnlyWaits == [][AbandonedStep]_vars
=============================================================================
