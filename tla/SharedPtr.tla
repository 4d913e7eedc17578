------------------------------- MODULE SharedPtr -------------------------------
(***************************************************************************)
(* bch::shared_ptr_nc and enable_shared_from_this                          *)
(* (bch/shared_ptr_nc.hpp, bch/shared_ptr_nc/suffix.hpp).                  *)
(*                                                                         *)
(* Every operation that releases a reference is Release(v, then, arg):     *)
(* reset() (or the destructor) of v, and then what the calling function    *)
(* does.  When the reference is not the last one, this is a single step.   *)
(* When it is, the destructor of the instance runs between the release and *)
(* the rest, which Return takes up.                                        *)
(***************************************************************************)
EXTENDS Handles

(***************************************************************************)
(* set_shared_from_this(p, h), for a pointer type that tracks or not.      *)
(***************************************************************************)
\* Mutant: the instance is not told.
set_shared_from_this_Ignored(tracks, p, h) == shared_from_this_data

set_shared_from_this(tracks, p, h) ==
  IF tracks /\ p # NULL
  THEN [shared_from_this_data EXCEPT ![p] = h]
  ELSE shared_from_this_data

(***************************************************************************)
(* The rest of the function that released v, when v no longer refers to    *)
(* anything: s and m are the strong counts and the block memory after the  *)
(* release.  "copy" and "move" read the source only now.                   *)
(***************************************************************************)
Incoming(then, arg) ==
  IF then \in {"copy", "move"} THEN mHandle[arg]
  ELSE IF then = "adopt" THEN arg
  ELSE NULL

\* Mutant: assignment that forgets the pointer, as that of weak_ptr does.
IncomingPtr_Forgotten(v, then, arg) == IF then = "adopt" THEN arg ELSE ResetPtr(v)

IncomingPtr(v, then, arg) ==
  IF then = "move" \/ (then = "copy" /\ mHandle[arg] # NULL) THEN mPtr[arg]
  ELSE IF then = "adopt" THEN arg
  ELSE ResetPtr(v)

CompleteFault(v, then, arg, m) ==
  IF v \notin scope THEN "stale_target"
  ELSE IF then \in {"copy", "move"} /\ arg \notin scope THEN "stale_source"
  ELSE IF then = "copy" /\ mHandle[arg] # NULL /\ m[mHandle[arg]] # "held" THEN "freed_block"
  ELSE "none"

Complete(v, then, arg, s, m) ==
  /\ mStrong' = IF then = "copy" THEN add_shared(s, Incoming(then, arg))
                ELSE IF then = "adopt" THEN constructed(s, arg)
                ELSE s
  /\ mem' = IF then = "adopt" THEN [m EXCEPT ![arg] = "held"] ELSE m
  /\ mHandle' = [x \in Var |->
       IF x = v THEN Incoming(then, arg)
       ELSE IF then = "move" /\ x = arg THEN NULL ELSE mHandle[x]]
  /\ mPtr' = [x \in Var |->
       IF x = v THEN IncomingPtr(v, then, arg)
       ELSE IF then = "move" /\ x = arg THEN ResetPtr(v) ELSE mPtr[x]]
  /\ scope' = IF then = "destroy" THEN scope \ {v} ELSE scope
  /\ shared_from_this_data' =
       set_shared_from_this(then = "adopt" /\ arg \in TrackingBlock, arg, arg)

(***************************************************************************)
(* release_shared takes the last reference: the destructor starts.         *)
(***************************************************************************)
BeginDestruction(v, then, arg) ==
  LET b == mHandle[v] IN
  /\ \A x \in Operands(v, then, arg) : Secured(v, x)
  /\ release_last(b)
  /\ stack' = Append(stack,
       [blk |-> b, var |-> v, then |-> then, arg |-> arg, body |-> TRUE,
        keep |-> UNION {Keepers(v, x) : x \in Operands(v, then, arg)}])
  /\ fault' = IF Dangling(b) THEN "freed_block"
              ELSE IF inst[b] # "live" THEN "destroyed_twice"
              ELSE "none"
  /\ UNCHANGED handleVars

Release(v, then, arg) ==
  \/ /\ LastReference(mHandle[v])
     /\ BeginDestruction(v, then, arg)
  \/ /\ ~ LastReference(mHandle[v])
     /\ Complete(v, then, arg, release_shared(mStrong, mHandle[v]), mem)
     /\ fault' = IF Dangling(mHandle[v]) THEN "freed_block"
                 ELSE CompleteFault(v, then, arg, mem)
     /\ UNCHANGED <<mWeak, inst, stack>>

(***************************************************************************)
(* The destructor of the innermost instance: its body ends, its members    *)
(* are destroyed one by one (in the reverse order of a declaration order   *)
(* that is the program's, so in any order), and it returns.                *)
(***************************************************************************)
EndBody ==
  /\ fault = "none" /\ stack # <<>>
  /\ Top.body
  /\ stack' = [stack EXCEPT ![Len(stack)].body = FALSE]
  /\ UNCHANGED <<blockVars, handleVars, fault>>

\* Mutant: a null member is never done with.
DestroySharedMember_OnlyHeld(v) ==
  /\ Unwinding
  /\ v \in scope /\ Owner[v] = Top.blk
  /\ mHandle[v] # NULL
  /\ Release(v, "destroy", NULL)

DestroySharedMember(v) ==
  /\ Unwinding
  /\ v \in scope /\ Owner[v] = Top.blk
  /\ Release(v, "destroy", NULL)

Return ==
  LET f == Top
      b == f.blk
      w == [mWeak EXCEPT ![b] = Dec(@)]
      m == adjust(mStrong, w, mem, b)
  IN
  /\ Unwinding
  /\ Members(b) \cap scope = {}
  /\ mWeak' = w
  /\ inst' = [inst EXCEPT ![b] = "dead"]
  /\ Complete(f.var, f.then, f.arg, mStrong, m)
  /\ fault' = IF Dangling(b) THEN "freed_block" ELSE CompleteFault(f.var, f.then, f.arg, m)
  /\ stack' = SubSeq(stack, 1, Len(stack) - 1)

(***************************************************************************)
(* Constructors.  v is a root that is not in scope yet: a local variable,  *)
(* a global, or the temporary a function returns.                          *)
(***************************************************************************)

\* The instance b is constructed by `new` or in the memory of make_shared:
\* its member variables start out null.
New(b) ==
  /\ ProgramRuns
  /\ inst[b] = "none" /\ mem[b] = "none"
  /\ inst' = [inst EXCEPT ![b] = "live"]
  /\ scope' = scope \cup Members(b)
  /\ UNCHANGED <<mStrong, mWeak, mem, mHandle, mPtr, shared_from_this_data, stack, fault>>

\* shared_ptr_nc() and shared_ptr_nc(nullptr).
DefaultCtor(v) ==
  /\ ProgramRuns
  /\ Fresh(v)
  /\ scope' = scope \cup {v}
  /\ UNCHANGED <<blockVars, mHandle, mPtr, shared_from_this_data, stack, fault>>

\* shared_ptr_nc(U* ptr), with ControlBlockDeleter<U>::Create.
AdoptCtor(v, b) ==
  /\ ProgramRuns
  /\ Fresh(v) /\ Raw(b)
  /\ mStrong' = constructed(mStrong, b)
  /\ mem' = [mem EXCEPT ![b] = "held"]
  /\ scope' = scope \cup {v}
  /\ mHandle' = [mHandle EXCEPT ![v] = b]
  /\ mPtr' = [mPtr EXCEPT ![v] = b]
  /\ shared_from_this_data' = set_shared_from_this(b \in TrackingBlock, b, b)
  /\ UNCHANGED <<mWeak, inst, stack, fault>>

\* make_shared: the block and the instance share one allocation.
MakeShared(v, b) ==
  /\ ProgramRuns
  /\ Fresh(v)
  /\ inst[b] = "none" /\ mem[b] = "none"
  /\ inst' = [inst EXCEPT ![b] = "live"]
  /\ mStrong' = constructed(mStrong, b)
  /\ mem' = [mem EXCEPT ![b] = "held"]
  /\ scope' = scope \cup Members(b) \cup {v}
  /\ mHandle' = [mHandle EXCEPT ![v] = b]
  /\ mPtr' = [mPtr EXCEPT ![v] = b]
  /\ shared_from_this_data' = set_shared_from_this(b \in TrackingBlock, b, b)
  /\ UNCHANGED <<mWeak, stack, fault>>

\* Mutant: the allocation is not guarded while the constructor of T runs.
MakeSharedThrows_Unguarded(b) ==
  /\ ProgramRuns
  /\ inst[b] = "none" /\ mem[b] = "none"
  /\ mem' = [mem EXCEPT ![b] = "held"]
  /\ UNCHANGED <<mStrong, mWeak, inst, handleVars, stack, fault>>

\* make_shared whose T constructor throws: the guard frees the allocation.
MakeSharedThrows(b) ==
  /\ ProgramRuns
  /\ inst[b] = "none" /\ mem[b] = "none"
  /\ mem' = [mem EXCEPT ![b] = "freed"]
  /\ UNCHANGED <<mStrong, mWeak, inst, handleVars, stack, fault>>

(***************************************************************************)
(* The private constructor (handle, ptr, increaseRefCount), and the copy   *)
(* constructors, which do the same without set_shared_from_this.           *)
(***************************************************************************)
\* Mutant: increaseRefCount is ignored.
PrivateCtor_NoAdd(v, h, p, tracks) ==
  /\ Fresh(v)
  /\ scope' = scope \cup {v}
  /\ mHandle' = [mHandle EXCEPT ![v] = h]
  /\ mPtr' = [mPtr EXCEPT ![v] = p]
  /\ shared_from_this_data' = set_shared_from_this(tracks, p, h)
  /\ UNCHANGED <<blockVars, stack, fault>>

PrivateCtor(v, h, p, tracks) ==
  /\ Fresh(v)
  /\ scope' = scope \cup {v}
  /\ mHandle' = [mHandle EXCEPT ![v] = h]
  /\ mPtr' = [mPtr EXCEPT ![v] = p]
  /\ mStrong' = add_shared(mStrong, h)
  /\ shared_from_this_data' = set_shared_from_this(tracks, p, h)
  /\ fault' = IF Dangling(h) THEN "freed_block"
              ELSE IF tracks /\ p # NULL /\ inst[p] \notin {"live", "dying"} THEN "dead_instance"
              ELSE "none"
  /\ UNCHANGED <<mWeak, mem, inst, stack>>

CopyCtor(v, u) ==
  /\ ProgramRuns
  /\ MayRead(u)
  /\ PrivateCtor(v, mHandle[u], mPtr[u], FALSE)

\* Mutant: the source of the move keeps its handle.
MoveCtor_KeepsSource(v, u) ==
  /\ ProgramRuns
  /\ Fresh(v) /\ MayWrite(u)
  /\ scope' = scope \cup {v}
  /\ mHandle' = [mHandle EXCEPT ![v] = mHandle[u]]
  /\ mPtr' = [mPtr EXCEPT ![v] = mPtr[u]]
  /\ UNCHANGED <<blockVars, shared_from_this_data, stack, fault>>

\* Mutant: the source of the move keeps its pointer.
MoveCtor_KeepsPointer(v, u) ==
  /\ ProgramRuns
  /\ Fresh(v) /\ MayWrite(u)
  /\ scope' = scope \cup {v}
  /\ mHandle' = [mHandle EXCEPT ![v] = mHandle[u], ![u] = NULL]
  /\ mPtr' = [mPtr EXCEPT ![v] = mPtr[u]]
  /\ UNCHANGED <<blockVars, shared_from_this_data, stack, fault>>

MoveCtor(v, u) ==
  /\ ProgramRuns
  /\ Fresh(v) /\ MayWrite(u)
  /\ scope' = scope \cup {v}
  /\ mHandle' = [mHandle EXCEPT ![v] = mHandle[u], ![u] = NULL]
  /\ mPtr' = [mPtr EXCEPT ![v] = mPtr[u], ![u] = NULL]
  /\ UNCHANGED <<blockVars, shared_from_this_data, stack, fault>>

\* static_, const_ and dynamic_pointer_cast.
PointerCast(v, u) ==
  /\ ProgramRuns
  /\ MayRead(u)
  /\ PrivateCtor(v, mHandle[u], mPtr[u], v \in TrackingVar)

\* dynamic_pointer_cast to a type the instance does not have: the pointer is
\* null, the handle and its reference are not.
DynamicCastFails(v, u) ==
  /\ ProgramRuns
  /\ MayRead(u) /\ mPtr[u] # NULL
  /\ PrivateCtor(v, mHandle[u], NULL, v \in TrackingVar)

(***************************************************************************)
(* enable_shared_from_this.                                                *)
(***************************************************************************)

\* Mutant: shared_from_this() without the test for an instance nobody manages.
SharedFromThis_NoNullCheck(v, b) ==
  /\ ProgramRuns
  /\ v \in TrackingVar
  /\ inst[b] = "live"
  /\ PrivateCtor(v, shared_from_this_data[b], b, TRUE)

\* shared_from_this() called on the instance b.
SharedFromThis(v, b) ==
  /\ ProgramRuns
  /\ v \in TrackingVar
  /\ inst[b] \in {"live"} \cup (IF "shared_from_dying" \in Liberties THEN {"dying"} ELSE {})
  /\ \/ /\ shared_from_this_data[b] = NULL
        /\ DefaultCtor(v)
     \/ /\ shared_from_this_data[b] # NULL
        /\ "copied_self" \notin Liberties => shared_from_this_data[b] = b
        /\ PrivateCtor(v, shared_from_this_data[b], b, TRUE)

\* The instance b is copied from c.  The base declares no copy operations,
\* so the implicit ones copy _shared_from_this_data.
CopyInstance(b, c) ==
  /\ ProgramRuns
  /\ TrackingVar # {}
  /\ b # c
  /\ inst[b] = "live" /\ inst[c] = "live"
  /\ shared_from_this_data' = [shared_from_this_data EXCEPT ![b] = shared_from_this_data[c]]
  /\ UNCHANGED <<blockVars, mHandle, mPtr, scope, stack, fault>>

(***************************************************************************)
(* Destructor, reset and assignment.                                       *)
(***************************************************************************)
Destroy(v) ==
  /\ ProgramRuns
  /\ MayClose(v)
  /\ Release(v, "destroy", NULL)

Reset(v) ==
  /\ ProgramRuns
  /\ MayWrite(v)
  /\ Release(v, "reset", NULL)

\* reset(U* ptr).
ResetTo(v, b) ==
  /\ ProgramRuns
  /\ MayWrite(v) /\ Raw(b)
  /\ Release(v, "adopt", b)

CopyAssign(v, u) ==
  /\ ProgramRuns
  /\ v # u
  /\ MayWrite(v) /\ MayRead(u)
  /\ Release(v, "copy", u)

MoveAssign(v, u) ==
  /\ ProgramRuns
  /\ v # u
  /\ MayWrite(v) /\ MayWrite(u)
  /\ Release(v, "move", u)

Swap(v, u) ==
  /\ ProgramRuns
  /\ v # u
  /\ MayWrite(v) /\ MayWrite(u)
  /\ mHandle' = [mHandle EXCEPT ![v] = mHandle[u], ![u] = mHandle[v]]
  /\ mPtr' = [mPtr EXCEPT ![v] = mPtr[u], ![u] = mPtr[v]]
  /\ UNCHANGED <<blockVars, scope, shared_from_this_data, stack, fault>>
=============================================================================
