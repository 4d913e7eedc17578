--------------------------- MODULE InstancePairProofs ----------------------------
(***************************************************************************)
(* Where AllocateInstancePair puts the instance, for every width of an     *)
(* address, every alignment but zero, and sizes whose sum does not wrap.   *)
(***************************************************************************)
EXTENDS InstancePair, Integers, FiniteSetTheorems, TLAPS

(***************************************************************************)
(* What the callers ask for: alignments of types, which are never zero,    *)
(* and sizes that fit in the address space together with the padding.      *)
(***************************************************************************)
Sensible ==
  /\ 0 \notin Alignment
  /\ \A size1 \in Size1, size2 \in Size2, a \in Alignment :
       size2 + (a - 1) + size1 < AddressSpace

(***************************************************************************)
(* Remainders.                                                             *)
(***************************************************************************)
LEMMA RemainderRange ==
  ASSUME NEW n \in Nat, NEW a \in Nat \ {0}
  PROVE  n % a \in 0 .. a - 1
  OBVIOUS

LEMMA Division ==
  ASSUME NEW n \in Nat, NEW a \in Nat \ {0}, NEW q, NEW r, q = n \div a, r = n % a
  PROVE  n = q * a + r
  BY Z3

LEMMA Quotient ==
  ASSUME NEW n \in Nat, NEW a \in Nat \ {0}
  PROVE  \E q \in Nat : n = q * a + (n % a)
<1>1. PICK q : q = n \div a
  OBVIOUS
<1>2. PICK r : r = n % a
  OBVIOUS
<1>3. n = q * a + r
  BY <1>1, <1>2, Division
<1>4. q \in Int /\ q >= 0
  BY <1>1
<1>5. q \in Nat
  BY <1>4
<1> QED
  BY <1>2, <1>3, <1>5

LEMMA RemainderOfSum ==
  ASSUME NEW q \in Nat, NEW a \in Nat \ {0}, NEW r \in 0 .. a - 1
  PROVE  (q * a + r) % a = r
  OBVIOUS

LEMMA Smaller ==
  ASSUME NEW a \in Nat \ {0}, NEW n \in 0 .. a - 1
  PROVE  n % a = n
  OBVIOUS

LEMMA OnceMore ==
  ASSUME NEW n \in Nat, NEW a \in Nat \ {0}
  PROVE  (n + a) % a = n % a
<1>1. PICK q \in Nat : n = q * a + (n % a)
  BY Quotient
<1>2. PICK r \in 0 .. a - 1 : r = n % a
  BY RemainderRange
<1>3. (q + 1) * a = q * a + a /\ q * a \in Nat /\ q + 1 \in Nat
  OBVIOUS
<1>4. n + a = (q + 1) * a + r
  BY <1>1, <1>2, <1>3
<1> QED
  BY <1>2, <1>3, <1>4, RemainderOfSum

\* Two different multiples are at least one alignment apart.
LEMMA MultiplesApart ==
  ASSUME NEW p \in Nat, NEW q \in Nat, NEW a \in Nat \ {0}, p % a = 0, q % a = 0, p < q
  PROVE  p + a <= q
<1>1. PICK k \in Nat : p = k * a
  <2>1. PICK k \in Nat : p = k * a + (p % a)
    BY Quotient
  <2>2. k * a \in Nat
    OBVIOUS
  <2> QED
    BY <2>1, <2>2
<1>2. PICK m \in Nat : q = m * a
  <2>1. PICK m \in Nat : q = m * a + (q % a)
    BY Quotient
  <2>2. m * a \in Nat
    OBVIOUS
  <2> QED
    BY <2>1, <2>2
<1>3. k < m
  <2>1. ASSUME m <= k
        PROVE  m * a <= k * a
    BY <2>1
  <2> QED
    BY <1>1, <1>2, <2>1
<1>4. (k + 1) * a <= m * a
  BY <1>3
<1>5. (k + 1) * a = k * a + a
  OBVIOUS
<1> QED
  BY <1>1, <1>2, <1>4, <1>5

(***************************************************************************)
(* The padding is less than the alignment and fills up to a multiple of    *)
(* it, although it is computed with subtractions that wrap around.         *)
(***************************************************************************)
LEMMA PaddingAligns ==
  ASSUME NEW n \in Nat, NEW a \in Alignment \ {0}
  PROVE  /\ CalculatePadding(n, a) \in 0 .. a - 1
         /\ (n + CalculatePadding(n, a)) % a = 0
<1>1. a \in Nat \ {0} /\ a < AddressSpace /\ AddressSpace \in Nat \ {0}
  BY SpaceAssumption, SizeAssumption
<1>2. PICK r \in 0 .. a - 1 : r = n % a
  BY <1>1, RemainderRange
<1>3. Minus(a, Masked(n, a)) = a - r
  <2>1. Minus(a, Masked(n, a)) = (a - r + AddressSpace) % AddressSpace
    BY <1>1, <1>2 DEF Minus, Wrap, Masked
  <2>2. a - r \in Nat /\ a - r \in 0 .. AddressSpace - 1
    BY <1>1
  <2>3. (a - r + AddressSpace) % AddressSpace = (a - r) % AddressSpace
    BY <1>1, <2>2, OnceMore
  <2> QED
    BY <1>1, <2>1, <2>2, <2>3, Smaller
<1>4. CalculatePadding(n, a) = (a - r) % a
  BY <1>1, <1>3 DEF CalculatePadding, Masked
<1>5. PICK q \in Nat : n = q * a + r
  BY <1>1, <1>2, Quotient
<1>6. CASE r = 0
  <2>1. CalculatePadding(n, a) = 0
    <3>1. (0 + a) % a = 0 % a /\ 0 % a = 0
      BY <1>1, OnceMore, Smaller
    <3> QED
      BY <1>1, <1>4, <1>6, <3>1
  <2> QED
    BY <1>1, <1>2, <1>6, <2>1
<1>7. CASE r > 0
  <2>1. CalculatePadding(n, a) = a - r /\ a - r \in 0 .. a - 1
    BY <1>1, <1>4, <1>7, Smaller
  <2>2. (q + 1) * a = q * a + a /\ q * a \in Nat /\ q + 1 \in Nat
    BY <1>1
  <2>3. n + CalculatePadding(n, a) = (q + 1) * a + 0
    BY <1>1, <1>5, <2>1, <2>2
  <2>4. 0 \in 0 .. a - 1
    BY <1>1
  <2>5. ((q + 1) * a + 0) % a = 0
    BY <1>1, <2>2, <2>4, RemainderOfSum
  <2> QED
    BY <2>1, <2>3, <2>5
<1> QED
  BY <1>6, <1>7

(***************************************************************************)
(* One allocation.                                                         *)
(***************************************************************************)
Sound(q) ==
  /\ q.ptr1 \in Nat /\ q.ptr2 \in Nat /\ q.total \in Nat
  /\ q.size1 \in Nat \ {0} /\ q.size2 \in Nat \ {0} /\ q.alignment \in Nat \ {0}
  /\ q.ptr2 % q.alignment = 0
  /\ q.ptr2 < q.ptr1 + q.size1 + q.alignment
  /\ q.ptr1 + q.size1 <= q.ptr2
  /\ q.ptr2 + q.size2 <= q.ptr1 + q.total

LEMMA NewPairSound ==
  ASSUME Sensible, NEW size1 \in Size1, NEW size2 \in Size2, NEW a \in Alignment,
         NEW p \in Address, MallocReturns(p, TotalSize(size1, size2, a))
  PROVE  Sound([ptr1 |-> p, ptr2 |-> SecondAddress(p, size1, a),
                size1 |-> size1, size2 |-> size2, alignment |-> a,
                total |-> TotalSize(size1, size2, a)])
<1>1. /\ size1 \in Nat \ {0} /\ size2 \in Nat \ {0} /\ a \in Nat \ {0} /\ p \in Nat
      /\ AddressSpace \in Nat \ {0} /\ size2 + (a - 1) + size1 < AddressSpace
  BY SpaceAssumption, SizeAssumption DEF Sensible, Address
<1>2. TotalSize(size1, size2, a) = size2 + (a - 1) + size1
  BY <1>1, Smaller DEF TotalSize, Wrap
<1>3. p + (size2 + (a - 1) + size1) <= AddressSpace
  BY <1>2 DEF MallocReturns
<1>4. Wrap(p + size1) = p + size1
  <2>1. p + size1 \in 0 .. AddressSpace - 1
    BY <1>1, <1>3
  <2> QED
    BY <1>1, <2>1, Smaller DEF Wrap
<1>5. PICK padding \in 0 .. a - 1 :
        /\ padding = CalculatePadding(p + size1, a)
        /\ (p + size1 + padding) % a = 0
  <2>1. p + size1 \in Nat /\ a \in Alignment \ {0}
    BY <1>1
  <2> QED
    BY <2>1, PaddingAligns
<1>6. SecondAddress(p, size1, a) = p + size1 + padding
  <2>1. SecondAddress(p, size1, a) = Wrap(p + size1 + padding)
    BY <1>4, <1>5 DEF SecondAddress
  <2>2. p + size1 + padding \in 0 .. AddressSpace - 1
    BY <1>1, <1>3
  <2> QED
    BY <1>1, <2>1, <2>2, Smaller DEF Wrap
<1> QED
  BY <1>1, <1>2, <1>5, <1>6 DEF Sound

(***************************************************************************)
(* All allocations.                                                        *)
(***************************************************************************)
First(q) == [start |-> q.ptr1, length |-> q.size1]
Second(q) == [start |-> q.ptr2, length |-> q.size2]

Apart(q1, q2) == Disjoint(q1.ptr1, q1.total, q2.ptr1, q2.total)

PairInv ==
  /\ IsFiniteSet(pairs) /\ IsFiniteSet(Objects)
  /\ Cardinality(Objects) = 2 * Cardinality(pairs)
  /\ \A q \in pairs : Sound(q)
  /\ \A q1, q2 \in pairs : q1 # q2 => Apart(q1, q2)

\* The two objects of an allocation share no byte, nor do those of two.
LEMMA ObjectsOfOne ==
  ASSUME NEW q, Sound(q)
  PROVE  /\ First(q) # Second(q)
         /\ Disjoint(q.ptr1, q.size1, q.ptr2, q.size2)
<1>1. /\ q.ptr1 \in Nat /\ q.ptr2 \in Nat /\ q.size1 \in Nat \ {0}
      /\ q.ptr1 + q.size1 <= q.ptr2
  BY DEF Sound
<1>2. First(q).start = q.ptr1 /\ Second(q).start = q.ptr2
  BY DEF First, Second
<1> QED
  BY <1>1, <1>2 DEF Disjoint

LEMMA ObjectsOfTwo ==
  ASSUME NEW q1, NEW q2, Sound(q1), Sound(q2), Apart(q1, q2) \/ Apart(q2, q1),
         NEW o1 \in {First(q1), Second(q1)}, NEW o2 \in {First(q2), Second(q2)}
  PROVE  /\ o1 # o2
         /\ Disjoint(o1.start, o1.length, o2.start, o2.length)
<1>1. /\ o1.start \in Nat /\ o1.length \in Nat \ {0}
      /\ q1.ptr1 <= o1.start /\ o1.start + o1.length <= q1.ptr1 + q1.total
      /\ q1.ptr1 \in Nat /\ q1.total \in Nat
  BY DEF First, Second, Sound
<1>2. /\ o2.start \in Nat /\ o2.length \in Nat \ {0}
      /\ q2.ptr1 <= o2.start /\ o2.start + o2.length <= q2.ptr1 + q2.total
      /\ q2.ptr1 \in Nat /\ q2.total \in Nat
  BY DEF First, Second, Sound
<1>3. q1.ptr1 + q1.total <= q2.ptr1 \/ q2.ptr1 + q2.total <= q1.ptr1
  BY DEF Apart, Disjoint
<1>4. o1.start # o2.start /\ Disjoint(o1.start, o1.length, o2.start, o2.length)
  BY <1>1, <1>2, <1>3 DEF Disjoint
<1> QED
  BY <1>4

LEMMA ObjectsArePairs ==
  \A o : o \in Objects <=> \E q \in pairs : o \in {First(q), Second(q)}
  BY DEF Objects, First, Second

LEMMA AllocateSafe ==
  ASSUME Sensible, PairInv, NEW size1 \in Size1, NEW size2 \in Size2, NEW a \in Alignment,
         AllocateInstancePair(size1, size2, a)
  PROVE  PairInv'
<1>1. PICK p \in Address :
        /\ MallocReturns(p, TotalSize(size1, size2, a))
        /\ pairs' = pairs \cup
             {[ptr1 |-> p, ptr2 |-> SecondAddress(p, size1, a),
               size1 |-> size1, size2 |-> size2, alignment |-> a,
               total |-> TotalSize(size1, size2, a)]}
  BY DEF AllocateInstancePair
<1>2. PICK n : n = [ptr1 |-> p, ptr2 |-> SecondAddress(p, size1, a),
                    size1 |-> size1, size2 |-> size2, alignment |-> a,
                    total |-> TotalSize(size1, size2, a)]
  OBVIOUS
<1>3. pairs' = pairs \cup {n} /\ Sound(n)
  BY <1>1, <1>2, NewPairSound
<1>4. \A q \in pairs : Apart(n, q)
  BY <1>1, <1>2 DEF MallocReturns, Apart
<1>5. ASSUME NEW q \in pairs
      PROVE  q # n /\ Apart(q, n)
        /\ First(n) \notin {First(q), Second(q)} /\ Second(n) \notin {First(q), Second(q)}
  <2>1. Sound(q) /\ Apart(n, q)
    BY <1>4 DEF PairInv
  <2>2. First(n) \notin {First(q), Second(q)} /\ Second(n) \notin {First(q), Second(q)}
    BY <1>3, <2>1, ObjectsOfTwo
  <2>3. Apart(q, n)
    BY <2>1 DEF Apart, Disjoint
  <2> QED
    BY <2>2, <2>3
<1>6. Objects' = (Objects \cup {First(n)}) \cup {Second(n)}
  BY <1>3 DEF Objects, First, Second
<1>7. First(n) \notin Objects /\ Second(n) \notin Objects \cup {First(n)} /\ n \notin pairs
  BY <1>3, <1>5, ObjectsArePairs, ObjectsOfOne
<1>8. /\ IsFiniteSet(pairs') /\ Cardinality(pairs') = Cardinality(pairs) + 1
      /\ Cardinality(pairs) \in Nat
  BY <1>3, <1>7, FS_AddElement, FS_CardinalityType DEF PairInv
<1>9. IsFiniteSet(Objects') /\ Cardinality(Objects') = Cardinality(Objects) + 1 + 1
  <2>1. /\ IsFiniteSet(Objects \cup {First(n)})
        /\ Cardinality(Objects \cup {First(n)}) = Cardinality(Objects) + 1
    BY <1>7, FS_AddElement DEF PairInv
  <2> QED
    BY <1>6, <1>7, <2>1, FS_AddElement
<1>10. Cardinality(Objects') = 2 * Cardinality(pairs')
  BY <1>8, <1>9 DEF PairInv
<1>11. \A q \in pairs' : Sound(q)
  BY <1>3 DEF PairInv
<1>12. \A q1, q2 \in pairs' : q1 # q2 => Apart(q1, q2)
  BY <1>3, <1>4, <1>5 DEF PairInv
<1> QED
  BY <1>8, <1>9, <1>10, <1>11, <1>12 DEF PairInv

LEMMA FreeSafe ==
  ASSUME PairInv, NEW n \in pairs, Free(n)
  PROVE  PairInv'
<1>1. pairs' = pairs \ {n} /\ Sound(n)
  BY DEF Free, PairInv
<1>2. ASSUME NEW q \in pairs'
      PROVE  First(n) \notin {First(q), Second(q)} /\ Second(n) \notin {First(q), Second(q)}
  <2>1. q \in pairs /\ Sound(q) /\ Apart(n, q)
    BY <1>1 DEF PairInv
  <2> QED
    BY <1>1, <2>1, ObjectsOfTwo
<1>3. \A o : o \in Objects' <=> \E q \in pairs' : o \in {First(q), Second(q)}
  BY DEF Objects, First, Second
<1>4. Objects' = (Objects \ {First(n)}) \ {Second(n)}
  BY <1>1, <1>2, <1>3, ObjectsArePairs
<1>5. First(n) \in Objects /\ Second(n) \in Objects \ {First(n)}
  BY <1>1, ObjectsArePairs, ObjectsOfOne
<1>6. /\ IsFiniteSet(pairs') /\ Cardinality(pairs') = Cardinality(pairs) - 1
      /\ Cardinality(pairs) \in Nat
  BY <1>1, FS_RemoveElement, FS_CardinalityType DEF PairInv
<1>7. IsFiniteSet(Objects') /\ Cardinality(Objects') = Cardinality(Objects) - 1 - 1
  <2>1. /\ IsFiniteSet(Objects \ {First(n)})
        /\ Cardinality(Objects \ {First(n)}) = Cardinality(Objects) - 1
    BY <1>5, FS_RemoveElement DEF PairInv
  <2> QED
    BY <1>4, <1>5, <2>1, FS_RemoveElement
<1>8. Cardinality(Objects') = 2 * Cardinality(pairs')
  BY <1>6, <1>7 DEF PairInv
<1> QED
  BY <1>1, <1>6, <1>7, <1>8 DEF PairInv

LEMMA InvariantOfPairs ==
  ASSUME Sensible
  PROVE  Spec => []PairInv
<1>1. Init => PairInv
  <2> SUFFICES ASSUME Init
               PROVE  PairInv
    OBVIOUS
  <2>1. pairs = {} /\ Objects = {}
    BY DEF Init, Objects
  <2> QED
    BY <2>1, FS_EmptySet DEF PairInv
<1>2. PairInv /\ Next => PairInv'
  BY AllocateSafe, FreeSafe DEF Next
<1>3. PairInv /\ UNCHANGED pairs => PairInv'
  BY DEF PairInv, Objects
<1> QED
  BY <1>1, <1>2, <1>3, PTL DEF Spec

\* Every instance made by make_shared has the alignment of its type, for every
\* alignment but zero, also one that is more than malloc guarantees.
THEOREM InstancesAligned ==
  ASSUME Sensible
  PROVE  Spec => []Aligned
<1>1. PairInv => Aligned
  BY DEF PairInv, Sound, Aligned
<1> QED
  BY <1>1, InvariantOfPairs, PTL

\* Control block and instance are inside the allocation, one after the other.
THEOREM InstancesFit ==
  ASSUME Sensible
  PROVE  Spec => []FitsInAllocation
<1>1. PairInv => FitsInAllocation
  BY DEF PairInv, Sound, FitsInAllocation
<1> QED
  BY <1>1, InvariantOfPairs, PTL

\* No two live objects share a byte, for any number of allocations.
THEOREM ObjectsDisjoint ==
  ASSUME Sensible
  PROVE  Spec => []NoOverlap
<1>1. ASSUME PairInv
      PROVE  NoOverlap
  <2>1. ASSUME NEW o1 \in Objects, NEW o2 \in Objects, o1 # o2
        PROVE  Disjoint(o1.start, o1.length, o2.start, o2.length)
    <3>1. PICK q1 \in pairs, q2 \in pairs :
            o1 \in {First(q1), Second(q1)} /\ o2 \in {First(q2), Second(q2)}
      BY ObjectsArePairs
    <3>2. Sound(q1) /\ Sound(q2)
      BY <1>1 DEF PairInv
    <3>3. CASE q1 = q2
      <4>1. Disjoint(q1.ptr1, q1.size1, q1.ptr2, q1.size2)
        BY <3>2, ObjectsOfOne
      <4> QED
        BY <2>1, <3>1, <3>3, <4>1 DEF First, Second, Disjoint
    <3>4. CASE q1 # q2
      BY <1>1, <3>1, <3>2, <3>4, ObjectsOfTwo DEF PairInv
    <3> QED
      BY <3>3, <3>4
  <2> QED
    BY <1>1, <2>1 DEF PairInv, NoOverlap
<1> QED
  BY <1>1, InvariantOfPairs, PTL

\* No address before the one that is chosen would have done: the padding, which
\* is computed with masks and subtractions that wrap around, is the least there
\* is, for every width of an address and every alignment but zero.
THEOREM InstancesPlacedFirst ==
  ASSUME Sensible
  PROVE  Spec => []PlacedFirst
<1>1. ASSUME PairInv
      PROVE  PlacedFirst
  <2> SUFFICES ASSUME NEW q \in pairs, NEW p \in q.ptr1 + q.size1 .. q.ptr2 - 1,
                      p % q.alignment = 0
               PROVE  FALSE
    BY DEF PlacedFirst
  <2>1. Sound(q)
    BY <1>1 DEF PairInv
  <2>2. p \in Nat /\ p < q.ptr2 /\ q.ptr2 < p + q.alignment
    BY <2>1 DEF Sound
  <2>3. p + q.alignment <= q.ptr2
    BY <2>1, <2>2, MultiplesApart DEF Sound
  <2> QED
    BY <2>1, <2>2, <2>3 DEF Sound
<1> QED
  BY <1>1, InvariantOfPairs, PTL
=============================================================================
