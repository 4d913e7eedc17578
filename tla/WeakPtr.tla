-------------------------------- MODULE WeakPtr --------------------------------
(***************************************************************************)
(* bch::weak_ptr (bch/shared_ptr_nc.hpp, bch/shared_ptr_nc/suffix.hpp).    *)
(*                                                                         *)
(* Releasing a weak reference runs no user code, so every operation is one *)
(* step: reset() of the target, and then Assign() where the operation has  *)
(* one.                                                                    *)
(***************************************************************************)
EXTENDS SharedPtr

(***************************************************************************)
(* Assign(ptr, handle) takes a reference unless the instance is gone.      *)
(***************************************************************************)
\* Mutant: the instance may be gone.
Assigns_Unchecked(h) == h # NULL

Assigns(h) == h # NULL /\ has_shared_references(h)

(***************************************************************************)
(* The weak counts and the block memory after reset() of w.                *)
(***************************************************************************)
weak_reset(w) == release_weak(mWeak, mHandle[w])
mem_reset(w) == release_weak_mem(mStrong, weak_reset(w), mem, mHandle[w])

\* reset() of w, then Assign(p, h); `extent` is the set of variables in scope afterwards.
Update(w, p, h, extent) ==
  /\ mWeak' = IF Assigns(h) THEN add_weak(weak_reset(w), h) ELSE weak_reset(w)
  /\ mem' = mem_reset(w)
  /\ mHandle' = [mHandle EXCEPT ![w] = IF Assigns(h) THEN h ELSE NULL]
  /\ mPtr' = [mPtr EXCEPT ![w] = IF Assigns(h) THEN p ELSE ResetPtr(w)]
  /\ scope' = extent
  /\ fault' = IF Dangling(mHandle[w]) \/ (h # NULL /\ mem_reset(w)[h] # "held")
              THEN "freed_block" ELSE "none"
  /\ UNCHANGED <<mStrong, inst, shared_from_this_data, stack>>

(***************************************************************************)
(* Constructors.                                                           *)
(***************************************************************************)
WeakDefaultCtor(w) ==
  /\ ProgramRuns
  /\ Fresh(w)
  /\ Update(w, NULL, NULL, scope \cup {w})

WeakCopyCtor(w, x) ==
  /\ ProgramRuns
  /\ Fresh(w) /\ MayRead(x)
  /\ Update(w, mPtr[x], mHandle[x], scope \cup {w})

\* weak_ptr(const shared_ptr_nc<U>&).
WeakFromShared(w, v) ==
  /\ ProgramRuns
  /\ Fresh(w) /\ MayRead(v)
  /\ Update(w, mPtr[v], mHandle[v], scope \cup {w})

WeakMoveCtor(w, x) ==
  /\ ProgramRuns
  /\ Fresh(w) /\ MayWrite(x)
  /\ scope' = scope \cup {w}
  /\ mHandle' = [mHandle EXCEPT ![w] = mHandle[x], ![x] = NULL]
  /\ mPtr' = [mPtr EXCEPT ![w] = mPtr[x], ![x] = NULL]
  /\ UNCHANGED <<blockVars, shared_from_this_data, stack, fault>>

(***************************************************************************)
(* Destructor, reset and assignment.                                       *)
(***************************************************************************)
WeakDestroy(w) ==
  /\ ProgramRuns
  /\ MayClose(w)
  /\ Update(w, NULL, NULL, scope \ {w})

\* A weak member goes with the instance it belongs to.
DestroyWeakMember(w) ==
  /\ Unwinding
  /\ w \in scope /\ Owner[w] = Top.blk
  /\ Update(w, NULL, NULL, scope \ {w})

WeakReset(w) ==
  /\ ProgramRuns
  /\ MayWrite(w)
  /\ Update(w, NULL, NULL, scope)

WeakCopyAssign(w, x) ==
  /\ ProgramRuns
  /\ w # x
  /\ MayWrite(w) /\ MayRead(x)
  /\ Update(w, mPtr[x], mHandle[x], scope)

\* Mutant: the source keeps what it had.
WeakMoveAssign_KeepsSource(w, x) ==
  /\ ProgramRuns
  /\ w # x
  /\ MayWrite(w) /\ MayWrite(x)
  /\ mWeak' = weak_reset(w)
  /\ mem' = mem_reset(w)
  /\ mHandle' = [mHandle EXCEPT ![w] = mHandle[x]]
  /\ mPtr' = [mPtr EXCEPT ![w] = mPtr[x]]
  /\ fault' = IF Dangling(mHandle[w]) THEN "freed_block" ELSE "none"
  /\ UNCHANGED <<mStrong, inst, scope, shared_from_this_data, stack>>

WeakMoveAssign(w, x) ==
  /\ ProgramRuns
  /\ w # x
  /\ MayWrite(w) /\ MayWrite(x)
  /\ mWeak' = weak_reset(w)
  /\ mem' = mem_reset(w)
  /\ mHandle' = [mHandle EXCEPT ![w] = mHandle[x], ![x] = NULL]
  /\ mPtr' = [mPtr EXCEPT ![w] = mPtr[x], ![x] = ResetPtr(w)]
  /\ fault' = IF Dangling(mHandle[w]) THEN "freed_block" ELSE "none"
  /\ UNCHANGED <<mStrong, inst, scope, shared_from_this_data, stack>>

\* operator=(const shared_ptr_nc<T>&): Assign is given the weak_ptr's own
\* mPtr, which reset() has just cleared, and not the source's.
WeakAssignShared(w, v) ==
  /\ ProgramRuns
  /\ MayWrite(w) /\ MayRead(v)
  /\ Update(w, ResetPtr(w), mHandle[v], scope)

(***************************************************************************)
(* lock(), with its result in v.                                           *)
(***************************************************************************)

\* Mutant: lock() of an expired weak_ptr that does not reset it.
LockExpired_NoReset(v, w) ==
  /\ mHandle[w] # NULL => ~ has_shared_references(mHandle[w])
  /\ DefaultCtor(v)

\* lock() of a null pointer, or of one whose instance is gone: lock() then
\* also resets the weak_ptr.
LockExpired(v, w) ==
  /\ mHandle[w] # NULL => ~ has_shared_references(mHandle[w])
  /\ Fresh(v)
  /\ Update(w, NULL, NULL, scope \cup {v})

\* Mutant: lock() that takes a reference without has_shared_references().
Lock_Unchecked(v, w) ==
  /\ ProgramRuns
  /\ MayRead(w)
  /\ PrivateCtor(v, mHandle[w], mPtr[w], v \in TrackingVar)

Lock(v, w) ==
  /\ ProgramRuns
  /\ MayRead(w)
  /\ \/ LockExpired(v, w)
     \/ /\ mHandle[w] # NULL /\ has_shared_references(mHandle[w])
        /\ PrivateCtor(v, mHandle[w], mPtr[w], v \in TrackingVar)
=============================================================================
