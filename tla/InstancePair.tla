----------------------------- MODULE InstancePair ------------------------------
(***************************************************************************)
(* bch::AllocateInstancePair (bch/common/memory.cpp): one allocation that  *)
(* holds the control block and, aligned for its type, the instance that    *)
(* make_shared constructs.                                                 *)
(*                                                                         *)
(* Addresses and sizes are unsigned integers of one width and wrap around  *)
(* at AddressSpace.  malloc is external: it returns a multiple of          *)
(* MallocAlign at the start of a region that no live allocation overlaps,  *)
(* or nothing.                                                             *)
(***************************************************************************)
EXTENDS Naturals, FiniteSets

CONSTANTS
  AddressSpace,   \* number of values of std::size_t and of uintptr_t
  MallocAlign,    \* alignment of what malloc returns
  Size1,          \* sizes of the first instance, the control block
  Size2,          \* sizes of the second instance
  Alignment,      \* alignments asked for the second instance
  MaxLive         \* bound on the number of allocations alive at once

ASSUME SpaceAssumption ==
  /\ AddressSpace \in Nat \ {0}     \* a power of two
  /\ MallocAlign \in 1 .. AddressSpace - 1
  /\ MaxLive \in Nat
ASSUME SizeAssumption ==
  /\ Size1 \subseteq 1 .. AddressSpace - 1
  /\ Size2 \subseteq 1 .. AddressSpace - 1
  /\ Alignment \subseteq 0 .. AddressSpace - 1
  /\ \A a \in Alignment \ {0} : AddressSpace % a = 0

VARIABLE pairs    \* the live allocations

Address == 0 .. AddressSpace - 1

Wrap(n) == n % AddressSpace
Minus(m, n) == Wrap(AddressSpace + m - n)

(***************************************************************************)
(* n & (alignment - 1).  An alignment divides AddressSpace, so that it is  *)
(* a power of two and the conjunction is the modulus; for 0 the mask is    *)
(* alignment - 1 wrapped around, which has every bit set.                  *)
(***************************************************************************)
Masked(n, alignment) == IF alignment = 0 THEN n ELSE n % alignment

\* Mutant: the outer mask is missing, so that an aligned address is padded too.
CalculatePadding_NoOuterMask(nonAlignedSize, alignment) ==
  Minus(alignment, Masked(nonAlignedSize, alignment))

CalculatePadding(nonAlignedSize, alignment) ==
  Masked(Minus(alignment, Masked(nonAlignedSize, alignment)), alignment)

\* Mutant: no room for the padding.
TotalSize_NoPadding(size1, size2, alignment) == Wrap(size2 + size1)

TotalSize(size1, size2, alignment) ==
  LET maxAlignmentPadding == IF alignment > 0 THEN alignment - 1 ELSE 0
  IN  Wrap(size2 + maxAlignmentPadding + size1)

\* Mutant: the padding is computed for the start of the allocation.
SecondAddress_FromStart(ptr1, size1, alignment) ==
  Wrap(Wrap(ptr1 + size1) + CalculatePadding(ptr1, alignment))

SecondAddress(ptr1, size1, alignment) ==
  LET ptr2Base == Wrap(ptr1 + size1)
  IN  Wrap(ptr2Base + CalculatePadding(ptr2Base, alignment))

Disjoint(start1, length1, start2, length2) ==
  start1 + length1 <= start2 \/ start2 + length2 <= start1

\* malloc(size) may return p.
MallocReturns(p, size) ==
  /\ p > 0
  /\ p % MallocAlign = 0
  /\ p + size <= AddressSpace
  /\ \A q \in pairs : Disjoint(p, size, q.ptr1, q.total)

Init == pairs = {}

AllocateInstancePair(size1, size2, alignment) ==
  /\ Cardinality(pairs) < MaxLive
  /\ \E p \in Address :
       /\ MallocReturns(p, TotalSize(size1, size2, alignment))
       /\ pairs' = pairs \cup
            {[ptr1 |-> p, ptr2 |-> SecondAddress(p, size1, alignment),
              size1 |-> size1, size2 |-> size2, alignment |-> alignment,
              total |-> TotalSize(size1, size2, alignment)]}

\* The guard of make_shared or ControlBlock::adjust passes ptr1 to free().
Free(q) == pairs' = pairs \ {q}

Next ==
  \/ \E size1 \in Size1, size2 \in Size2, alignment \in Alignment :
       AllocateInstancePair(size1, size2, alignment)
  \/ \E q \in pairs : Free(q)

Spec == Init /\ [][Next]_pairs

(***************************************************************************)
(* Properties.                                                             *)
(***************************************************************************)

\* The instance has the alignment of its type (memory.hpp:17).
Aligned == \A q \in pairs : q.alignment > 0 => q.ptr2 % q.alignment = 0

\* The instance begins after the control block and ends inside the allocation,
\* whatever address malloc returns.
FitsInAllocation ==
  \A q \in pairs :
    /\ q.ptr1 + q.size1 <= q.ptr2
    /\ q.ptr2 + q.size2 <= q.ptr1 + q.total

\* It begins at the first address after the block that has its alignment: not a
\* byte more than that is lost to padding.
PlacedFirst ==
  \A q \in pairs :
    q.alignment > 0 => \A p \in q.ptr1 + q.size1 .. q.ptr2 - 1 : p % q.alignment # 0

\* No two of the objects that are alive share a byte: control blocks and
\* instances of the same and of different allocations.
Objects ==
  {[start |-> q.ptr1, length |-> q.size1] : q \in pairs} \cup
  {[start |-> q.ptr2, length |-> q.size2] : q \in pairs}
NoOverlap ==
  /\ Cardinality(Objects) = 2 * Cardinality(pairs)
  /\ \A o1, o2 \in Objects : o1 # o2 => Disjoint(o1.start, o1.length, o2.start, o2.length)
=============================================================================
