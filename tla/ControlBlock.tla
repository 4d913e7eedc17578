------------------------------ MODULE ControlBlock ------------------------------
(***************************************************************************)
(* bch::detail::ControlBlock (bch/shared_ptr_nc/prefix.hpp): the strong    *)
(* and the weak reference count of each managed instance, the lifetime of  *)
(* the instance and of the memory of the control block.                    *)
(*                                                                         *)
(* The methods are operators that return the new value of the state they   *)
(* change, so that the handle modules can chain the calls one C++ function *)
(* makes (release one block, add a reference to another) in one step.      *)
(* release_shared is the exception: when it takes the last reference it    *)
(* runs the destructor of the instance, which is arbitrary user code.  It  *)
(* is split into release_last, which runs up to the virtual call           *)
(* on_zero_shared, and Return (module SharedPtr), which is the rest.       *)
(*                                                                         *)
(* Block identities are used once: a freed block never comes back as       *)
(* another one, so that a stale handle cannot be mistaken for a good one.  *)
(***************************************************************************)
EXTENDS Naturals

CONSTANTS
  Block,      \* managed instances; each names its control block as well
  NULL,       \* nullptr
  MaxCount    \* largest std::uint32_t

ASSUME BlockAssumption == NULL \notin Block
ASSUME CountAssumption == MaxCount \in Nat \ {0}

VARIABLES
  mStrong,    \* strong reference count of each block
  mWeak,      \* weak reference count of each block
  mem,        \* memory of the control block
  inst        \* lifetime of the managed instance

blockVars == <<mStrong, mWeak, mem, inst>>

Count      == 0 .. MaxCount
MemState   == {"none", "held", "freed"}
InstState  == {"none", "live", "dying", "dead"}

BlockTypeOK ==
  /\ mStrong \in [Block -> Count]
  /\ mWeak \in [Block -> Count]
  /\ mem \in [Block -> MemState]
  /\ inst \in [Block -> InstState]

\* No block exists yet: its counts are those it has before it is constructed.
BlockInit ==
  /\ mStrong = [b \in Block |-> 0]
  /\ mWeak = [b \in Block |-> 0]
  /\ mem = [b \in Block |-> "none"]
  /\ inst = [b \in Block |-> "none"]

\* The strong counts after the constructor of the block b, mStrong{1}; mWeak{0} is
\* what a block has that was not constructed before.
constructed(s, b) == [s EXCEPT ![b] = 1]

(***************************************************************************)
(* ++ and -- on an unsigned 32 bit counter wrap around.                    *)
(***************************************************************************)
Inc(n) == IF n = MaxCount THEN 0 ELSE n + 1
Dec(n) == IF n = 0 THEN MaxCount ELSE n - 1

has_shared_references(b) == mStrong[b] > 0

(***************************************************************************)
(* The counting methods.  A null handle is never called upon: each caller  *)
(* tests it first, and the test is folded into the operators.              *)
(***************************************************************************)
add_shared(s, h) == IF h = NULL THEN s ELSE [s EXCEPT ![h] = Inc(@)]

add_weak(w, h) == IF h = NULL THEN w ELSE [w EXCEPT ![h] = Inc(@)]

\* release_shared when the count does not reach zero.
release_shared(s, h) == IF h = NULL THEN s ELSE [s EXCEPT ![h] = Dec(@)]

\* Mutant: adjust that looks at the weak count alone.
adjust_WeakOnly(s, w, m, b) ==
  IF w[b] = 0 THEN [m EXCEPT ![b] = "freed"] ELSE m

\* Mutant: adjust that looks at the strong count alone.
adjust_StrongOnly(s, w, m, b) ==
  IF s[b] = 0 THEN [m EXCEPT ![b] = "freed"] ELSE m

\* Frees the block when neither count is left.
adjust(s, w, m, b) ==
  IF s[b] = 0 /\ w[b] = 0 THEN [m EXCEPT ![b] = "freed"] ELSE m

\* Mutant: a signed counter, released by reset() and once more by its caller.
release_weak_Signed(w, h) == IF h = NULL THEN w ELSE [w EXCEPT ![h] = @ - 2]

\* The weak counts after release_weak on h.
release_weak(w, h) == IF h = NULL THEN w ELSE [w EXCEPT ![h] = Dec(@)]

\* Mutant: release_weak that does not look whether the block can go.
release_weak_mem_NoAdjust(s, w, m, h) == m

\* The block memory after release_weak on h; w is the count already released.
release_weak_mem(s, w, m, h) ==
  IF h # NULL /\ w[h] = 0 THEN adjust(s, w, m, h) ELSE m

(***************************************************************************)
(* release_shared that takes the last reference, up to on_zero_shared: the *)
(* extra weak reference keeps the block while the destructor runs.         *)
(***************************************************************************)
LastReference(h) == h # NULL /\ mStrong[h] = 1

\* Mutant: release_shared without the temporary weak reference.
release_last_Unguarded(b) ==
  /\ mStrong' = [mStrong EXCEPT ![b] = 0]
  /\ inst' = [inst EXCEPT ![b] = "dying"]
  /\ UNCHANGED <<mWeak, mem>>

release_last(b) ==
  /\ mStrong' = [mStrong EXCEPT ![b] = 0]
  /\ mWeak' = [mWeak EXCEPT ![b] = Inc(@)]
  /\ inst' = [inst EXCEPT ![b] = "dying"]
  /\ UNCHANGED mem

(***************************************************************************)
(* A call through the handle h uses freed memory.                          *)
(***************************************************************************)
Dangling(h) == h # NULL /\ mem[h] # "held"

=============================================================================
