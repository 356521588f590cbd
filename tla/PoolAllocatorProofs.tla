------------------------- MODULE PoolAllocatorProofs -------------------------
(***************************************************************************)
(* Proofs about module PoolAllocator, for every region, alignment and set  *)
(* of sizes: the free list is canonical and partitions the region with the *)
(* live allocations, and the allocator implements PoolSpec.                *)
(*                                                                         *)
(* A list stands for the bytes x with Free(list, x); each step of the code *)
(* on lists is described by what it does to these bytes.  Ordered(l, S)    *)
(* says that the blocks of l come in order and that only those at an index *)
(* in S may touch the next: inserting a block at i gives {i - 1, i} and    *)
(* each call of Coalesce removes one of the two.                           *)
(*                                                                         *)
(* The last section is about Mutex, the lock the allocator is used under.  *)
(***************************************************************************)
EXTENDS PoolAllocator, Mutex, SequenceTheorems, WellFoundedInduction, TLAPS

(* No request is so close to 2^64 that rounding it up wraps around.        *)
SizesRound == \A s \in Sizes : s + Align <= Word

Run == [off : Nat, size : Nat \ {0}]
End(b) == b.off + b.size

Free(l, x) == \E i \in DOMAIN l : l[i].off <= x /\ x < End(l[i])

Ordered(l, S) ==
  \A i, j \in DOMAIN l : i < j =>
    \/ End(l[i]) < l[j].off
    \/ j = i + 1 /\ i \in S /\ End(l[i]) = l[j].off

Owns(b, x) == b.off <= x /\ x < b.off + Rounded(b.size)

PoolInv ==
  /\ freeList \in Seq(Run) /\ Ordered(freeList, {})
  /\ live \subseteq [off : Nat, size : Sizes \ {0}]
  /\ last.ret \in {"ok", "EINVAL", "ENOMEM"}
  /\ \A x \in Nat : x < RegionSize <=> Free(freeList, x) \/ \E b \in live : Owns(b, x)
  /\ \A b \in live : \A x \in Nat : Owns(b, x) => ~Free(freeList, x)
  /\ \A b, c \in live : \A x \in Nat : Owns(b, x) /\ Owns(c, x) => b = c

-----------------------------------------------------------------------------
LEMMA LeastExists ==
  ASSUME NEW T, T \subseteq Nat, T # {}
  PROVE  Min(T) \in T /\ \A y \in T : Min(T) <= y
<1>1. PICK x \in T : \A y \in T : ~(<<y, x>> \in OpToRel(<, Nat))
  <2>1. \E x \in T : \A y \in T : ~(<<y, x>> \in OpToRel(<, Nat))
    BY NatLessThanWellFounded, WFMin
  <2> QED BY <2>1
<1>2. ASSUME NEW y \in T PROVE x <= y
  <2> SUFFICES ASSUME ~(x <= y) PROVE FALSE
    OBVIOUS
  <2>1. y < x /\ x \in Nat /\ y \in Nat
    OBVIOUS
  <2>2. <<y, x>> \in OpToRel(<, Nat)
    BY <2>1 DEF OpToRel
  <2> QED BY <1>1, <2>2
<1> QED BY <1>2 DEF Min

LEMMA Rounding ==
  ASSUME SizesRound, NEW s \in Sizes
  PROVE  /\ s \in Nat /\ Rounded(s) \in Nat /\ Rounded(s) >= s
         /\ Rounded(s) = ((s + Align - 1) \div Align) * Align
<1>1. s \in Nat /\ s + Align <= Word /\ Align \in Nat \ {0}
  BY PoolAssumption DEF PoolAssumption, SizesRound
<1> DEFINE x == (s + Align) - 1
<1>2. Word \in Nat
  BY PoolAssumption DEF PoolAssumption
<1>3. x \in Nat /\ x % Word = x
  BY <1>1, <1>2
<1>4. Rounded(s) = x - (x % Align)
  BY <1>1, <1>3 DEF Rounded
<1>5. /\ x - (x % Align) \in Nat /\ x - (x % Align) >= s
      /\ x - (x % Align) = (x \div Align) * Align
  BY <1>1
<1> QED BY <1>1, <1>4, <1>5

LEMMA Removed ==
  ASSUME NEW S, NEW l \in Seq(S), NEW i \in 1..Len(l)
  PROVE  /\ RemoveAt(l, i) \in Seq(S) /\ Len(RemoveAt(l, i)) = Len(l) - 1
         /\ \A j \in 1..(Len(l) - 1) :
              RemoveAt(l, i)[j] = IF j < i THEN l[j] ELSE l[j + 1]
<1> DEFINE a == SubSeq(l, 1, i - 1)
           b == SubSeq(l, i + 1, Len(l))
<1>1. /\ a \in Seq(S) /\ Len(a) = i - 1
      /\ \A j \in 1..(i - 1) : a[j] = l[j]
  BY SubSeqProperties
<1>2. /\ b \in Seq(S) /\ Len(b) = Len(l) - i
      /\ \A j \in 1..(Len(l) - i) : b[j] = l[j + i]
  BY SubSeqProperties
<1>3. RemoveAt(l, i) = a \o b
  BY DEF RemoveAt
<1> HIDE DEF a, b
<1>4. /\ a \o b \in Seq(S) /\ Len(a \o b) = Len(l) - 1
      /\ \A j \in 1..(Len(l) - 1) : (a \o b)[j] = IF j < i THEN a[j] ELSE b[j - (i - 1)]
  <2>1. /\ a \o b \in Seq(S) /\ Len(a \o b) = Len(a) + Len(b)
        /\ \A j \in 1..(Len(a) + Len(b)) :
             (a \o b)[j] = IF j <= Len(a) THEN a[j] ELSE b[j - Len(a)]
    BY <1>1, <1>2, ConcatProperties
  <2>2. Len(l) \in Nat
    OBVIOUS
  <2> QED BY <1>1, <1>2, <2>1, <2>2
<1> QED BY <1>1, <1>2, <1>3, <1>4

LEMMA Inserted ==
  ASSUME NEW S, NEW l \in Seq(S), NEW i \in 1..(Len(l) + 1), NEW e \in S
  PROVE  /\ InsertAt(l, i, e) \in Seq(S) /\ Len(InsertAt(l, i, e)) = Len(l) + 1
         /\ InsertAt(l, i, e)[i] = e
         /\ \A j \in 1..(i - 1) : InsertAt(l, i, e)[j] = l[j]
         /\ \A j \in (i + 1)..(Len(l) + 1) : InsertAt(l, i, e)[j] = l[j - 1]
<1> DEFINE a == SubSeq(l, 1, i - 1)
           b == SubSeq(l, i, Len(l))
           c == a \o <<e>>
<1>1. /\ a \in Seq(S) /\ Len(a) = i - 1
      /\ \A j \in 1..(i - 1) : a[j] = l[j]
  BY SubSeqProperties
<1>2. /\ b \in Seq(S) /\ Len(b) = (Len(l) - i) + 1
      /\ \A j \in 1..((Len(l) - i) + 1) : b[j] = l[(j + i) - 1]
  BY SubSeqProperties
<1>3. InsertAt(l, i, e) = c \o b
  BY DEF InsertAt
<1> HIDE DEF a, b
<1>4. c \in Seq(S) /\ Len(c) = i /\ c[i] = e /\ \A j \in 1..(i - 1) : c[j] = a[j]
  BY <1>1
<1> HIDE DEF c
<1>5. /\ c \o b \in Seq(S) /\ Len(c \o b) = Len(l) + 1
      /\ \A j \in 1..(Len(l) + 1) : (c \o b)[j] = IF j <= i THEN c[j] ELSE b[j - i]
  BY <1>2, <1>4, ConcatProperties
<1> QED BY <1>1, <1>2, <1>3, <1>4, <1>5

LEMMA Blocks ==
  ASSUME NEW l \in Seq(Run)
  PROVE  /\ Len(l) \in Nat /\ DOMAIN l = 1..Len(l)
         /\ \A i \in 1..Len(l) :
              /\ l[i] \in Run /\ l[i].off \in Nat /\ l[i].size \in Nat /\ l[i].size > 0
              /\ End(l[i]) \in Nat /\ l[i].off < End(l[i])
<1>1. Len(l) \in Nat /\ DOMAIN l = 1..Len(l) /\ \A i \in 1..Len(l) : l[i] \in Run
  OBVIOUS
<1> QED BY <1>1 DEF Run, End

(* Two blocks of an ordered list have no byte in common.                   *)
LEMMA Apart ==
  ASSUME NEW l \in Seq(Run), NEW S, Ordered(l, S),
         NEW i \in 1..Len(l), NEW j \in 1..Len(l), i < j
  PROVE  /\ End(l[i]) <= l[j].off
         /\ ~(j = i + 1 /\ i \in S) => End(l[i]) < l[j].off
<1>1. End(l[i]) \in Nat /\ l[j].off \in Nat /\ i \in DOMAIN l /\ j \in DOMAIN l
  BY Blocks
<1>2. \/ End(l[i]) < l[j].off
      \/ j = i + 1 /\ i \in S /\ End(l[i]) = l[j].off
  BY <1>1 DEF Ordered
<1> QED BY <1>1, <1>2

(* Joining block i with the next keeps the bytes, and if no block after i  *)
(* touches its neighbour the pair at i is settled.                         *)
LEMMA Coalesced ==
  ASSUME NEW l \in Seq(Run), NEW i \in Nat, NEW S, S \subseteq 0..i, Ordered(l, S)
  PROVE  /\ Coalesce(l, i) \in Seq(Run)
         /\ Ordered(Coalesce(l, i), S \ {i})
         /\ \A x \in Nat : Free(Coalesce(l, i), x) <=> Free(l, x)
<1>0. Len(l) \in Nat /\ DOMAIN l = 1..Len(l)
  BY Blocks
<1>1. CASE ~(i \in 1..(Len(l) - 1) /\ l[i].off + l[i].size = l[i + 1].off)
  <2>1. Coalesce(l, i) = l
    BY <1>1 DEF Coalesce
  <2>2. Ordered(l, S \ {i})
    <3> SUFFICES ASSUME NEW j \in 1..Len(l), NEW k \in 1..Len(l), j < k
                 PROVE  \/ End(l[j]) < l[k].off
                        \/ k = j + 1 /\ j \in S \ {i} /\ End(l[j]) = l[k].off
      BY <1>0 DEF Ordered
    <3>1. \/ End(l[j]) < l[k].off
          \/ k = j + 1 /\ j \in S /\ End(l[j]) = l[k].off
      BY <1>0 DEF Ordered
    <3> QED BY <1>0, <1>1, <3>1 DEF End
  <2> QED BY <2>1, <2>2
<1>2. CASE i \in 1..(Len(l) - 1) /\ l[i].off + l[i].size = l[i + 1].off
  <2> DEFINE joined == Block(l[i].off, l[i].size + l[i + 1].size)
             m == [l EXCEPT ![i].size = @ + l[i + 1].size]
             r == RemoveAt(m, i + 1)
  <2>1. Coalesce(l, i) = r
    BY <1>2 DEF Coalesce
  <2>2. i \in 1..Len(l) /\ i + 1 \in 1..Len(l) /\ l[i] \in Run /\ l[i + 1] \in Run
    BY <1>0, <1>2, Blocks
  <2>3. joined \in Run /\ End(joined) = End(l[i + 1]) /\ joined.off = l[i].off
    <3>1. /\ l[i].off \in Nat /\ l[i].size \in Nat /\ l[i].size > 0
          /\ l[i + 1].size \in Nat /\ l[i + 1].size > 0
      BY <2>2 DEF Run
    <3>2. /\ joined.off = l[i].off /\ joined.size = l[i].size + l[i + 1].size
          /\ l[i].size + l[i + 1].size \in Nat \ {0}
      BY <3>1 DEF Block
    <3>3. joined \in Run
      BY <3>1, <3>2 DEF Run, Block
    <3>4. End(joined) = End(l[i + 1])
      BY <1>2, <3>1, <3>2 DEF End
    <3> QED BY <3>2, <3>3, <3>4
  <2>4. m = [l EXCEPT ![i] = joined]
    <3>1. [l[i] EXCEPT !.size = l[i].size + l[i + 1].size] = joined
      <4>1. \A b \in Run : \A n : [b EXCEPT !.size = n] = Block(b.off, n)
        BY DEF Run, Block
      <4> QED BY <2>2, <4>1
    <3>2. m = [l EXCEPT ![i] = [l[i] EXCEPT !.size = l[i].size + l[i + 1].size]]
      OBVIOUS
    <3> QED BY <3>1, <3>2
  <2>5. m \in Seq(Run) /\ Len(m) = Len(l) /\ m[i] = joined
        /\ \A j \in 1..Len(l) : j # i => m[j] = l[j]
    <3> HIDE DEF m, joined
    <3> QED BY <2>2, <2>3, <2>4, ExceptSeq
  <2> HIDE DEF m, joined
  <2>6. /\ r \in Seq(Run) /\ Len(r) = Len(l) - 1
        /\ \A j \in 1..(Len(l) - 1) : r[j] = IF j < i + 1 THEN m[j] ELSE m[j + 1]
    <3>1. m \in Seq(Run) /\ i + 1 \in 1..Len(m)
      BY <2>2, <2>5
    <3>2. /\ RemoveAt(m, i + 1) \in Seq(Run) /\ Len(RemoveAt(m, i + 1)) = Len(m) - 1
          /\ \A j \in 1..(Len(m) - 1) :
               RemoveAt(m, i + 1)[j] = IF j < i + 1 THEN m[j] ELSE m[j + 1]
      BY <3>1, Removed
    <3> QED BY <2>5, <3>2
  <2> HIDE DEF r
  <2>7. /\ DOMAIN r = 1..(Len(l) - 1) /\ r[i] = joined
        /\ \A j \in 1..(Len(l) - 1) : /\ j < i => r[j] = l[j]
                                      /\ j > i => r[j] = l[j + 1]
    <3>1. i \in 1..(Len(l) - 1) /\ DOMAIN r = 1..(Len(l) - 1)
      BY <1>2, <2>6
    <3>2. r[i] = joined
      BY <1>0, <2>5, <2>6, <3>1
    <3>3. ASSUME NEW j \in 1..(Len(l) - 1)
          PROVE  /\ j < i => r[j] = l[j]
                 /\ j > i => r[j] = l[j + 1]
      <4>1. r[j] = IF j < i + 1 THEN m[j] ELSE m[j + 1]
        BY <2>6
      <4>2. j \in 1..Len(l) /\ j + 1 \in 1..Len(l)
        BY <1>0
      <4> QED BY <1>0, <2>5, <3>1, <4>1, <4>2
    <3> QED BY <3>1, <3>2, <3>3
  <2>8. Ordered(r, S \ {i})
    <3> SUFFICES ASSUME NEW j \in 1..(Len(l) - 1), NEW k \in 1..(Len(l) - 1), j < k
                 PROVE  \/ End(r[j]) < r[k].off
                        \/ k = j + 1 /\ j \in S \ {i} /\ End(r[j]) = r[k].off
      BY <2>7 DEF Ordered
    <3>1. CASE k < i
      <4>1. r[j] = l[j] /\ r[k] = l[k] /\ j # i /\ j \in DOMAIN l /\ k \in DOMAIN l
        BY <1>0, <1>2, <2>7, <3>1
      <4> QED BY <4>1 DEF Ordered
    <3>2. CASE k = i
      <4>1. r[j] = l[j] /\ r[k].off = l[k].off /\ j # i /\ j \in DOMAIN l /\ k \in DOMAIN l
        BY <1>0, <1>2, <2>3, <2>7, <3>2
      <4> QED BY <4>1 DEF Ordered
    <3>3. CASE k > i
      <4> DEFINE e == IF j < i THEN j ELSE j + 1
      <4>1. /\ r[k] = l[k + 1] /\ k + 1 \in 1..Len(l)
            /\ End(r[j]) = End(l[e]) /\ e \in 1..Len(l) /\ e < k + 1
            /\ ~(k + 1 = e + 1 /\ e \in S)
        BY <1>0, <1>2, <2>3, <2>7, <3>3
      <4> QED BY <4>1, Apart
    <3> QED BY <1>2, <3>1, <3>2, <3>3
  <2>9. ASSUME NEW x \in Nat PROVE Free(r, x) <=> Free(l, x)
    <3>1. ASSUME NEW j \in 1..(Len(l) - 1), r[j].off <= x, x < End(r[j]) PROVE Free(l, x)
      <4>1. CASE j < i
        BY <1>0, <2>7, <3>1, <4>1 DEF Free
      <4>2. CASE j > i
        <5>1. j + 1 \in DOMAIN l /\ r[j] = l[j + 1]
          BY <1>0, <2>7, <4>2
        <5> QED BY <3>1, <5>1 DEF Free
      <4>3. CASE j = i
        <5>1. l[i].off <= x /\ x < End(l[i + 1]) /\ End(l[i]) = l[i + 1].off
              /\ l[i + 1].off \in Nat
          BY <1>2, <2>2, <2>3, <2>7, <3>1, <4>3, Blocks DEF End
        <5>2. \/ l[i].off <= x /\ x < End(l[i])
              \/ l[i + 1].off <= x /\ x < End(l[i + 1])
          BY <5>1
        <5> QED BY <1>0, <2>2, <5>2 DEF Free
      <4> QED BY <1>2, <4>1, <4>2, <4>3
    <3>2. ASSUME NEW j \in 1..Len(l), l[j].off <= x, x < End(l[j]) PROVE Free(r, x)
      <4> DEFINE d == IF j <= i THEN j ELSE j - 1
      <4>1. d \in 1..(Len(l) - 1)
        BY <1>0, <1>2
      <4>2. r[d].off <= x /\ x < End(r[d])
        <5>1. CASE j < i
          BY <2>7, <3>2, <4>1, <5>1
        <5>2. CASE j > i + 1
          BY <1>2, <2>7, <3>2, <4>1, <5>2
        <5>3. CASE j = i \/ j = i + 1
          <6>1. d = i
            BY <1>2, <5>3
          <6>2. /\ l[i].off <= l[i + 1].off /\ End(l[i]) <= End(l[i + 1])
                /\ l[i].off \in Nat /\ l[i + 1].off \in Nat /\ End(l[i]) \in Nat
                /\ End(l[i + 1]) \in Nat
            BY <1>2, <2>2, Blocks DEF End
          <6> QED BY <2>3, <2>7, <3>2, <5>3, <6>1, <6>2
        <5> QED BY <1>2, <5>1, <5>2, <5>3
      <4> QED BY <2>7, <4>1, <4>2 DEF Free
    <3> QED BY <1>0, <2>7, <3>1, <3>2 DEF Free
  <2> QED BY <2>1, <2>6, <2>8, <2>9
<1> QED BY <1>1, <1>2

(* Cutting n bytes off the front of block i takes exactly these bytes.     *)
LEMMA CutTakes ==
  ASSUME freeList \in Seq(Run), Ordered(freeList, {}),
         NEW i \in 1..Len(freeList), NEW n \in Nat \ {0}, n <= freeList[i].size
  PROVE  /\ Cut(i, n) \in Seq(Run) /\ Ordered(Cut(i, n), {})
         /\ \A x \in Nat : Free(Cut(i, n), x) <=>
              Free(freeList, x) /\ ~(freeList[i].off <= x /\ x < freeList[i].off + n)
<1> DEFINE l == freeList
           o == freeList[i].off
<1>0. /\ Len(l) \in Nat /\ DOMAIN l = 1..Len(l) /\ l[i] \in Run
      /\ o \in Nat /\ l[i].size \in Nat /\ End(l[i]) = o + l[i].size
  BY Blocks DEF End
<1>1. CASE freeList[i].size = n
  <2> DEFINE r == RemoveAt(l, i)
  <2>1. Cut(i, n) = r
    BY <1>1 DEF Cut
  <2>2. /\ r \in Seq(Run) /\ Len(r) = Len(l) - 1
        /\ \A j \in 1..(Len(l) - 1) : r[j] = IF j < i THEN l[j] ELSE l[j + 1]
    BY Removed
  <2> HIDE DEF r
  <2>3. DOMAIN r = 1..(Len(l) - 1)
    BY <2>2
  <2>4. Ordered(r, {})
    <3> SUFFICES ASSUME NEW j \in 1..(Len(l) - 1), NEW k \in 1..(Len(l) - 1), j < k
                 PROVE  End(r[j]) < r[k].off
      BY <2>3 DEF Ordered
    <3> DEFINE d(m) == IF m < i THEN m ELSE m + 1
    <3>1. r[j] = l[d(j)] /\ r[k] = l[d(k)]
      BY <2>2
    <3>2. d(j) \in 1..Len(l) /\ d(k) \in 1..Len(l) /\ d(j) < d(k)
      BY <1>0
    <3> HIDE DEF d
    <3> QED BY <3>1, <3>2, Apart
  <2>5. ASSUME NEW x \in Nat
        PROVE  Free(r, x) <=> Free(l, x) /\ ~(o <= x /\ x < o + n)
    <3>1. ASSUME NEW j \in 1..(Len(l) - 1), r[j].off <= x, x < End(r[j])
          PROVE  Free(l, x) /\ ~(o <= x /\ x < o + n)
      <4> DEFINE d == IF j < i THEN j ELSE j + 1
      <4>1. r[j] = l[d] /\ d \in 1..Len(l) /\ d # i
        BY <1>0, <2>2
      <4> HIDE DEF d
      <4>2. (d < i \/ i < d) /\ l[d].off \in Nat /\ End(l[d]) \in Nat
        BY <4>1, Blocks
      <4>3. \/ d < i /\ End(l[d]) <= o
            \/ i < d /\ End(l[i]) <= l[d].off
        BY <4>1, <4>2, Apart
      <4>4. ~(o <= x /\ x < o + n)
        BY <1>0, <1>1, <3>1, <4>1, <4>2, <4>3
      <4> QED BY <1>0, <3>1, <4>1, <4>4 DEF Free
    <3>2. ASSUME NEW j \in 1..Len(l), l[j].off <= x, x < End(l[j]), ~(o <= x /\ x < o + n)
          PROVE  Free(r, x)
      <4>1. j # i
        BY <1>0, <1>1, <3>2
      <4> DEFINE d == IF j < i THEN j ELSE j - 1
      <4>2. d \in 1..(Len(l) - 1) /\ r[d] = l[j]
        BY <1>0, <2>2, <4>1
      <4> QED BY <2>3, <3>2, <4>2 DEF Free
    <3> QED BY <1>0, <2>3, <3>1, <3>2 DEF Free
  <2> QED BY <2>1, <2>2, <2>4, <2>5
<1>2. CASE freeList[i].size # n
  <2> DEFINE rest == Block(o + n, l[i].size - n)
             r == [l EXCEPT ![i] = rest]
  <2>1. Cut(i, n) = r
    BY <1>2 DEF Cut
  <2>2. rest \in Run /\ rest.off = o + n /\ End(rest) = End(l[i])
    BY <1>0, <1>2 DEF Run, Block, End
  <2> HIDE DEF rest
  <2>3. /\ r \in Seq(Run) /\ DOMAIN r = 1..Len(l) /\ r[i] = rest
        /\ \A j \in 1..Len(l) : j # i => r[j] = l[j]
    BY <1>0, <2>2
  <2> HIDE DEF r
  <2>4. Ordered(r, {})
    <3> SUFFICES ASSUME NEW j \in 1..Len(l), NEW k \in 1..Len(l), j < k
                 PROVE  End(r[j]) < r[k].off
      BY <2>3 DEF Ordered
    <3>1. End(l[j]) < l[k].off /\ l[k].off \in Nat /\ End(l[j]) \in Nat
      BY Apart, Blocks
    <3>2. End(r[j]) = End(l[j]) /\ (r[k].off = l[k].off \/ r[k].off = l[k].off + n)
      BY <2>2, <2>3
    <3> QED BY <3>1, <3>2
  <2>5. ASSUME NEW x \in Nat
        PROVE  Free(r, x) <=> Free(l, x) /\ ~(o <= x /\ x < o + n)
    <3>1. ASSUME NEW j \in 1..Len(l), r[j].off <= x, x < End(r[j])
          PROVE  Free(l, x) /\ ~(o <= x /\ x < o + n)
      <4>1. CASE j = i
        <5>1. o + n <= x /\ x < End(l[i])
          BY <2>2, <2>3, <3>1, <4>1
        <5> QED BY <1>0, <5>1 DEF Free
      <4>2. CASE j # i
        <5>1. r[j] = l[j] /\ l[j].off \in Nat /\ End(l[j]) \in Nat
          BY <2>3, <4>2, Blocks
        <5>2. \/ End(l[j]) <= o
              \/ End(l[i]) <= l[j].off
          BY <4>2, Apart
        <5> QED BY <1>0, <3>1, <5>1, <5>2, SMTT(20) DEF Free
      <4> QED BY <4>1, <4>2
    <3>2. ASSUME NEW j \in 1..Len(l), l[j].off <= x, x < End(l[j]), ~(o <= x /\ x < o + n)
          PROVE  Free(r, x)
      <4>1. r[j].off <= x /\ x < End(r[j])
        BY <1>0, <2>2, <2>3, <3>2
      <4> QED BY <2>3, <4>1 DEF Free
    <3> QED BY <1>0, <2>3, <3>1, <3>2 DEF Free
  <2> QED BY <2>1, <2>3, <2>4, <2>5
<1> QED BY <1>1, <1>2

(* Where a block belongs that shares no byte with the list.                *)
LEMMA InsertionPlace ==
  ASSUME freeList \in Seq(Run), Ordered(freeList, {}), NEW o \in Nat, NEW n \in Nat \ {0},
         \A x \in Nat : o <= x /\ x < o + n => ~Free(freeList, x)
  PROVE  /\ InsertionPoint(o) \in 1..(Len(freeList) + 1)
         /\ \A j \in 1..Len(freeList) :
              /\ j < InsertionPoint(o) => End(freeList[j]) <= o
              /\ j >= InsertionPoint(o) => o + n <= freeList[j].off
<1> DEFINE l == freeList
           T == {j \in DOMAIN l : l[j].off >= o} \cup {Len(l) + 1}
           i == InsertionPoint(o)
<1>0. Len(l) \in Nat /\ DOMAIN l = 1..Len(l)
  BY Blocks
<1>1. i \in T /\ \A y \in T : i <= y
  <2>1. T \subseteq Nat /\ T # {}
    BY <1>0
  <2>2. i = Min(T)
    BY DEF InsertionPoint
  <2> HIDE DEF T, i
  <2> QED BY <2>1, <2>2, LeastExists
<1>2. i \in 1..(Len(l) + 1)
  BY <1>0, <1>1
<1> HIDE DEF i
<1>3. ASSUME NEW j \in 1..Len(l), j < i PROVE End(l[j]) <= o
  <2>1. l[j].off \in Nat /\ End(l[j]) \in Nat
    BY Blocks
  <2>2. l[j].off < o
    BY <1>0, <1>1, <1>2, <1>3, <2>1
  <2>3. ~Free(l, o)
    OBVIOUS
  <2> QED BY <1>0, <2>1, <2>2, <2>3 DEF Free
<1>4. ASSUME NEW j \in 1..Len(l), j >= i PROVE o + n <= l[j].off
  <2>1. l[j].off \in Nat /\ l[j].off < End(l[j]) /\ l[j] \in Run
    BY Blocks
  <2>2. i \in 1..Len(l) /\ l[i].off >= o /\ l[i].off \in Nat
    BY <1>0, <1>1, <1>2, <1>4, Blocks
  <2>3. l[i].off <= l[j].off
    <3>1. CASE i = j
      BY <2>1, <3>1
    <3>2. CASE i < j
      <4>1. End(l[i]) < l[j].off /\ l[i].off < End(l[i]) /\ End(l[i]) \in Nat
        BY <2>2, <3>2, Apart, Blocks
      <4> QED BY <2>1, <2>2, <4>1
    <3> QED BY <1>4, <2>2, <3>1, <3>2
  <2>4. Free(l, l[j].off)
    BY <1>0, <2>1 DEF Free
  <2> QED BY <2>1, <2>2, <2>3, <2>4
<1> QED BY <1>2, <1>3, <1>4 DEF i

(* Giving back n bytes at offset o adds exactly these bytes and leaves no  *)
(* two blocks that touch.                                                  *)
LEMMA GivenBack ==
  ASSUME freeList \in Seq(Run), Ordered(freeList, {}), NEW o \in Nat, NEW n \in Nat \ {0},
         \A x \in Nat : o <= x /\ x < o + n => ~Free(freeList, x)
  PROVE  LET i == InsertionPoint(o)
             r == Coalesce(Coalesce(InsertAt(freeList, i, Block(o, n)), i), i - 1)
         IN  /\ r \in Seq(Run) /\ Ordered(r, {})
             /\ \A x \in Nat : Free(r, x) <=> Free(freeList, x) \/ (o <= x /\ x < o + n)
<1> DEFINE l == freeList
           b == Block(o, n)
           i == InsertionPoint(o)
           m == InsertAt(l, i, b)
           once == Coalesce(m, i)
           twice == Coalesce(once, i - 1)
<1>0. Len(l) \in Nat /\ DOMAIN l = 1..Len(l)
  BY Blocks
<1>1. /\ i \in 1..(Len(l) + 1)
      /\ \A j \in 1..Len(l) : /\ j < i => End(l[j]) <= o
                              /\ j >= i => o + n <= l[j].off
  BY InsertionPlace
<1>2. b \in Run /\ b.off = o /\ End(b) = o + n
  BY DEF Run, Block, End
<1> HIDE DEF i, b
<1>3. /\ m \in Seq(Run) /\ DOMAIN m = 1..(Len(l) + 1) /\ m[i] = b
      /\ \A j \in 1..(i - 1) : m[j] = l[j]
      /\ \A j \in (i + 1)..(Len(l) + 1) : m[j] = l[j - 1]
  <2>1. /\ m \in Seq(Run) /\ Len(m) = Len(l) + 1 /\ m[i] = b
        /\ \A j \in 1..(i - 1) : m[j] = l[j]
        /\ \A j \in (i + 1)..(Len(l) + 1) : m[j] = l[j - 1]
    BY <1>1, <1>2, Inserted
  <2> QED BY <2>1
<1> HIDE DEF m
<1>4. Ordered(m, {i - 1, i})
  <2> SUFFICES ASSUME NEW j \in 1..(Len(l) + 1), NEW k \in 1..(Len(l) + 1), j < k
               PROVE  \/ End(m[j]) < m[k].off
                      \/ k = j + 1 /\ j \in {i - 1, i} /\ End(m[j]) = m[k].off
    BY <1>3 DEF Ordered
  <2>1. CASE j # i /\ k # i
    <3> DEFINE d(p) == IF p < i THEN p ELSE p - 1
    <3>1. m[j] = l[d(j)] /\ m[k] = l[d(k)]
      BY <1>0, <1>1, <1>3, <2>1
    <3>2. d(j) \in 1..Len(l) /\ d(k) \in 1..Len(l) /\ d(j) < d(k)
      BY <1>0, <1>1, <2>1
    <3> HIDE DEF d
    <3> QED BY <3>1, <3>2, Apart
  <2>2. CASE j = i
    <3>1. m[k] = l[k - 1] /\ k - 1 \in 1..Len(l) /\ k - 1 >= i
      BY <1>0, <1>1, <1>3, <2>2
    <3>2. o + n <= l[k - 1].off /\ l[k - 1].off \in Nat
      BY <1>1, <3>1, Blocks
    <3>3. CASE k = i + 1
      <4>1. End(m[j]) = o + n /\ m[k].off = l[k - 1].off /\ j \in {i - 1, i}
        BY <1>2, <1>3, <2>2, <3>1
      <4> QED BY <2>2, <3>2, <3>3, <4>1
    <3>4. CASE k # i + 1
      <4>1. i \in 1..Len(l) /\ i < k - 1
        BY <1>0, <1>1, <2>2, <3>1, <3>4
      <4>2. End(l[i]) < l[k - 1].off /\ o + n <= l[i].off /\ l[i].off < End(l[i])
            /\ l[i].off \in Nat /\ End(l[i]) \in Nat
        BY <1>1, <3>1, <4>1, Apart, Blocks
      <4> QED BY <1>2, <1>3, <2>2, <3>1, <3>2, <4>2
    <3> QED BY <3>3, <3>4
  <2>3. CASE k = i
    <3>1. m[j] = l[j] /\ j \in 1..Len(l) /\ End(l[j]) <= o /\ End(l[j]) \in Nat
      <4>1. j \in 1..(i - 1) /\ j \in 1..Len(l) /\ j < i
        BY <1>0, <1>1, <2>3
      <4> QED BY <1>1, <1>3, <4>1, Blocks
    <3>2. CASE j = i - 1
      BY <1>2, <1>3, <2>3, <3>1, <3>2
    <3>3. CASE j # i - 1
      <4>1. i - 1 \in 1..Len(l) /\ j < i - 1
        BY <1>0, <1>1, <2>3, <3>3
      <4>2. End(l[j]) < l[i - 1].off /\ End(l[i - 1]) <= o /\ l[i - 1].off < End(l[i - 1])
            /\ l[i - 1].off \in Nat /\ End(l[i - 1]) \in Nat
        BY <1>1, <3>1, <4>1, Apart, Blocks
      <4> QED BY <1>2, <1>3, <2>3, <3>1, <4>2
    <3> QED BY <3>2, <3>3
  <2> QED BY <2>1, <2>2, <2>3
<1>5. ASSUME NEW x \in Nat
      PROVE  Free(m, x) <=> Free(l, x) \/ (o <= x /\ x < o + n)
  <2>1. ASSUME NEW j \in 1..(Len(l) + 1), m[j].off <= x, x < End(m[j])
        PROVE  Free(l, x) \/ (o <= x /\ x < o + n)
    <3>1. CASE j = i
      BY <1>2, <1>3, <2>1, <3>1
    <3>2. CASE j # i
      <4> DEFINE d == IF j < i THEN j ELSE j - 1
      <4>1. d \in 1..Len(l) /\ m[j] = l[d]
        BY <1>0, <1>1, <1>3, <3>2
      <4> QED BY <1>0, <2>1, <4>1 DEF Free
    <3> QED BY <3>1, <3>2
  <2>2. ASSUME NEW j \in 1..Len(l), l[j].off <= x, x < End(l[j]) PROVE Free(m, x)
    <3> DEFINE d == IF j < i THEN j ELSE j + 1
    <3>1. d \in 1..(Len(l) + 1) /\ m[d] = l[j]
      BY <1>0, <1>1, <1>3
    <3> QED BY <1>3, <2>2, <3>1 DEF Free
  <2>3. o <= x /\ x < o + n => Free(m, x)
    BY <1>1, <1>2, <1>3 DEF Free
  <2> QED BY <1>0, <1>3, <2>1, <2>2, <2>3 DEF Free
<1>6. /\ once \in Seq(Run) /\ Ordered(once, {i - 1, i} \ {i})
      /\ \A x \in Nat : Free(once, x) <=> Free(m, x)
  <2>1. i \in Nat /\ {i - 1, i} \subseteq 0..i
    BY <1>1
  <2> QED BY <1>3, <1>4, <2>1, Coalesced
<1> HIDE DEF once
<1>7. /\ twice \in Seq(Run) /\ Ordered(twice, {i - 1} \ {i - 1})
      /\ \A x \in Nat : Free(twice, x) <=> Free(once, x)
  <2>1. i - 1 \in Nat /\ {i - 1} \subseteq 0..(i - 1) /\ {i - 1, i} \ {i} = {i - 1}
    BY <1>1
  <2>2. Ordered(once, {i - 1})
    BY <1>6, <2>1
  <2> QED BY <1>6, <2>1, <2>2, Coalesced
<1>8. {i - 1} \ {i - 1} = {}
  OBVIOUS
<1>9. Ordered(twice, {})
  BY <1>7, <1>8
<1> HIDE DEF twice
<1>10. \A x \in Nat : Free(twice, x) <=> Free(l, x) \/ (o <= x /\ x < o + n)
  BY <1>5, <1>6, <1>7
<1> QED BY <1>7, <1>9, <1>10 DEF twice, once, m, b, i

LEMMA Owned ==
  ASSUME SizesRound, PoolInv, NEW b \in live
  PROVE  b.off \in Nat /\ b.size \in Sizes /\ b.size # 0 /\ Rounded(b.size) \in Nat \ {0}
<1>1. b.off \in Nat /\ b.size \in Sizes \ {0}
  BY DEF PoolInv
<1> QED BY <1>1, Rounding

LEMMA FirstFit ==
  ASSUME freeList \in Seq(Run), NEW n, LargeEnough(n) # {}
  PROVE  /\ Min(LargeEnough(n)) \in 1..Len(freeList)
         /\ freeList[Min(LargeEnough(n))].size >= n
         /\ \A j \in 1..Len(freeList) :
              freeList[j].size >= n => Min(LargeEnough(n)) <= j
<1>1. LargeEnough(n) \subseteq Nat /\ DOMAIN freeList = 1..Len(freeList)
  BY Blocks DEF LargeEnough
<1>2. Min(LargeEnough(n)) \in LargeEnough(n) /\ \A y \in LargeEnough(n) : Min(LargeEnough(n)) <= y
  BY <1>1, LeastExists
<1> QED BY <1>1, <1>2 DEF LargeEnough

LEMMA PoolInit == Init => PoolInv
<1> SUFFICES ASSUME Init PROVE PoolInv
  OBVIOUS
<1>1. RegionSize \in Nat \ {0}
  BY PoolAssumption DEF PoolAssumption
<1>2. freeList = <<Block(0, RegionSize)>> /\ live = {} /\ last.ret = "ok"
  BY DEF Init
<1>3. Block(0, RegionSize) \in Run /\ Block(0, RegionSize).off = 0
      /\ End(Block(0, RegionSize)) = RegionSize
  BY <1>1 DEF Run, Block, End
<1>4. freeList \in Seq(Run) /\ DOMAIN freeList = {1} /\ freeList[1] = Block(0, RegionSize)
  BY <1>2, <1>3
<1>5. Ordered(freeList, {})
  BY <1>4 DEF Ordered
<1>6. \A x \in Nat : Free(freeList, x) <=> x < RegionSize
  BY <1>3, <1>4 DEF Free
<1> QED BY <1>2, <1>4, <1>5, <1>6 DEF PoolInv

(* The first block that is large enough loses what the new owner gets.     *)
LEMMA AllocateStep ==
  ASSUME SizesRound, PoolInv, NEW s \in Sizes, Allocate(s)
  PROVE  /\ PoolInv'
         /\ \E i \in 1..Len(freeList) :
              /\ freeList[i].size >= Rounded(s)
              /\ \A j \in 1..Len(freeList) : freeList[j].size >= Rounded(s) => i <= j
              /\ live' = live \cup {Block(freeList[i].off, s)}
              /\ \A x \in Nat : Free(freeList', x) <=>
                   Free(freeList, x)
                   /\ ~(freeList[i].off <= x /\ x < freeList[i].off + Rounded(s))
<1>0. /\ freeList \in Seq(Run) /\ Ordered(freeList, {})
      /\ live \subseteq [off : Nat, size : Sizes \ {0}]
      /\ \A x \in Nat : x < RegionSize <=> Free(freeList, x) \/ \E b \in live : Owns(b, x)
      /\ \A b \in live : \A x \in Nat : Owns(b, x) => ~Free(freeList, x)
      /\ \A b, c \in live : \A x \in Nat : Owns(b, x) /\ Owns(c, x) => b = c
  BY DEF PoolInv
<1>1. s # 0 /\ LargeEnough(Rounded(s)) # {} /\ Rounded(s) \in Nat \ {0} /\ s \in Nat
  BY Rounding DEF Allocate
<1>2. PICK i \in 1..Len(freeList) :
        /\ i = Min(LargeEnough(Rounded(s)))
        /\ freeList[i].size >= Rounded(s)
        /\ \A j \in 1..Len(freeList) : freeList[j].size >= Rounded(s) => i <= j
  BY <1>0, <1>1, FirstFit
<1> DEFINE o == freeList[i].off
           n == Rounded(s)
           c == Block(o, s)
<1>3. freeList' = Cut(i, n) /\ live' = live \cup {c} /\ last'.ret = "ok"
  BY <1>2 DEF Allocate, Returns
<1>4. /\ freeList' \in Seq(Run) /\ Ordered(freeList', {})
      /\ \A x \in Nat : Free(freeList', x) <=> Free(freeList, x) /\ ~(o <= x /\ x < o + n)
  <2>1. freeList[i].size \in Nat
    BY <1>0, Blocks
  <2> QED BY <1>0, <1>1, <1>2, <1>3, <2>1, CutTakes
<1>5. o \in Nat /\ o + n <= End(freeList[i]) /\ End(freeList[i]) \in Nat
  BY <1>0, <1>1, <1>2, Blocks DEF End
<1>6. \A x \in Nat : o <= x /\ x < o + n => Free(freeList, x)
  BY <1>0, <1>1, <1>2, <1>5, Blocks DEF Free
<1>7. c.off = o /\ c.size = s /\ c \in [off : Nat, size : Sizes \ {0}]
  BY <1>1, <1>5 DEF Block
<1>8. \A x : Owns(c, x) <=> o <= x /\ x < o + n
  BY <1>7 DEF Owns
<1> HIDE DEF c, o, n
<1>9. \A x \in Nat : x < RegionSize <=> Free(freeList', x) \/ \E b \in live' : Owns(b, x)
  BY <1>0, <1>3, <1>4, <1>6, <1>8
<1>10. \A b \in live' : \A x \in Nat : Owns(b, x) => ~Free(freeList', x)
  BY <1>0, <1>3, <1>4, <1>8
<1>11. \A b, d \in live' : \A x \in Nat : Owns(b, x) /\ Owns(d, x) => b = d
  BY <1>0, <1>3, <1>6, <1>8
<1>12. \A b : \A x : Owns(b, x)' <=> Owns(b, x)
  BY DEF Owns, Rounded
<1>13. PoolInv'
  BY <1>0, <1>3, <1>4, <1>7, <1>9, <1>10, <1>11, <1>12 DEF PoolInv
<1> QED BY <1>2, <1>3, <1>4, <1>13 DEF c, o, n

(* What a client gives back was its own, and is free afterwards.           *)
LEMMA DeallocateStep ==
  ASSUME SizesRound, PoolInv, NEW b \in live, Deallocate(b)
  PROVE  /\ PoolInv'
         /\ \A x \in Nat : Free(freeList', x) <=>
              Free(freeList, x) \/ (b.off <= x /\ x < b.off + Rounded(b.size))
<1>0. /\ freeList \in Seq(Run) /\ Ordered(freeList, {})
      /\ live \subseteq [off : Nat, size : Sizes \ {0}]
      /\ \A x \in Nat : x < RegionSize <=> Free(freeList, x) \/ \E c \in live : Owns(c, x)
      /\ \A c \in live : \A x \in Nat : Owns(c, x) => ~Free(freeList, x)
      /\ \A c, d \in live : \A x \in Nat : Owns(c, x) /\ Owns(d, x) => c = d
  BY DEF PoolInv
<1>1. b.off \in Nat /\ Rounded(b.size) \in Nat \ {0}
  BY Owned
<1>2. \A x \in Nat : b.off <= x /\ x < b.off + Rounded(b.size) => ~Free(freeList, x)
  BY <1>0 DEF Owns
<1>3. /\ freeList' = Coalesce(Coalesce(InsertAt(freeList, InsertionPoint(b.off),
                        Block(b.off, Rounded(b.size))), InsertionPoint(b.off)),
                        InsertionPoint(b.off) - 1)
      /\ live' = live \ {b} /\ last'.ret = "ok"
  BY DEF Deallocate, Returns
<1>4. /\ freeList' \in Seq(Run) /\ Ordered(freeList', {})
      /\ \A x \in Nat : Free(freeList', x) <=>
           Free(freeList, x) \/ (b.off <= x /\ x < b.off + Rounded(b.size))
  BY <1>0, <1>1, <1>2, <1>3, GivenBack
<1>5. \A x \in Nat : Free(freeList', x) <=> Free(freeList, x) \/ Owns(b, x)
  BY <1>4 DEF Owns
<1>6. \A x \in Nat : x < RegionSize <=> Free(freeList', x) \/ \E c \in live' : Owns(c, x)
  BY <1>0, <1>3, <1>5
<1>7. \A c \in live' : \A x \in Nat : Owns(c, x) => ~Free(freeList', x)
  BY <1>0, <1>3, <1>5
<1>8. \A c : \A x : Owns(c, x)' <=> Owns(c, x)
  BY DEF Owns, Rounded
<1>9. PoolInv'
  BY <1>0, <1>3, <1>4, <1>6, <1>7, <1>8 DEF PoolInv
<1> QED BY <1>4, <1>9

LEMMA PoolNext == SizesRound /\ PoolInv /\ [Next]_vars => PoolInv'
<1> SUFFICES ASSUME SizesRound, PoolInv, [Next]_vars PROVE PoolInv'
  OBVIOUS
<1>1. ASSUME UNCHANGED <<freeList, live>>, last'.ret \in {"ok", "EINVAL", "ENOMEM"}
      PROVE  PoolInv'
  BY <1>1 DEF PoolInv, Free, Ordered, Owns, End, Rounded
<1>2. ASSUME NEW s \in Sizes, AllocateFails(s) \/ DeallocateKeeps(s) PROVE PoolInv'
  BY <1>1, <1>2 DEF AllocateFails, DeallocateKeeps, Returns
<1>3. UNCHANGED vars => PoolInv'
  BY <1>1 DEF vars, PoolInv
<1> QED BY <1>2, <1>3, AllocateStep, DeallocateStep DEF Next

-----------------------------------------------------------------------------
LEMMA BytesOf ==
  ASSUME NEW l \in Seq(Run)
  PROVE  \A x : x \in UNION {Bytes(l[i], l[i].size) : i \in DOMAIN l} <=> x \in Nat /\ Free(l, x)
<1>1. ASSUME NEW i \in DOMAIN l
      PROVE  \A x : x \in Bytes(l[i], l[i].size) <=> x \in Nat /\ l[i].off <= x /\ x < End(l[i])
  <2>1. l[i].off \in Nat /\ l[i].size \in Nat
    BY Blocks
  <2> QED BY <2>1 DEF Bytes, End
<1> QED BY <1>1 DEF Free

LEMMA FreeByte ==
  ASSUME freeList \in Seq(Run)
  PROVE  \A x : x \in FreeBytes <=> x \in Nat /\ Free(freeList, x)
BY BytesOf DEF FreeBytes

LEMMA LiveByte ==
  ASSUME SizesRound, PoolInv, NEW b \in live
  PROVE  \A x : x \in LiveBytes(b) <=> x \in Nat /\ Owns(b, x)
<1>1. b.off \in Nat /\ Rounded(b.size) \in Nat
  BY Owned
<1> QED BY <1>1 DEF LiveBytes, Bytes, Owns

LEMMA PoolKept == SizesRound /\ PoolInv => Inv
<1> SUFFICES ASSUME SizesRound, PoolInv PROVE Inv
  OBVIOUS
<1>0. /\ freeList \in Seq(Run) /\ Ordered(freeList, {})
      /\ live \subseteq [off : Nat, size : Sizes \ {0}]
      /\ last.ret \in {"ok", "EINVAL", "ENOMEM"}
      /\ \A x \in Nat : x < RegionSize <=> Free(freeList, x) \/ \E b \in live : Owns(b, x)
      /\ \A b \in live : \A x \in Nat : Owns(b, x) => ~Free(freeList, x)
      /\ \A b, c \in live : \A x \in Nat : Owns(b, x) /\ Owns(c, x) => b = c
      /\ RegionSize \in Nat \ {0}
  BY PoolAssumption DEF PoolInv, PoolAssumption
<1>1. TypeOK
  <2>1. ASSUME NEW i \in 1..Len(freeList)
        PROVE  freeList[i] \in [off : 0..(RegionSize - 1), size : 1..RegionSize]
    <3>1. /\ freeList[i] \in Run /\ freeList[i].off \in Nat /\ freeList[i].size \in Nat
          /\ freeList[i].size > 0 /\ End(freeList[i]) = freeList[i].off + freeList[i].size
      BY <1>0, Blocks DEF End
    <3>2. Free(freeList, End(freeList[i]) - 1)
      BY <1>0, <3>1, Blocks, SMTT(20) DEF Free
    <3>3. End(freeList[i]) - 1 < RegionSize
      BY <1>0, <3>1, <3>2
    <3> QED BY <1>0, <3>1, <3>3 DEF Run
  <2>2. freeList \in Seq([off : 0..(RegionSize - 1), size : 1..RegionSize])
    <3>1. freeList \in Seq(Run) /\ Len(freeList) \in Nat /\ DOMAIN freeList = 1..Len(freeList)
      BY <1>0, Blocks
    <3> DEFINE S == [off : 0..(RegionSize - 1), size : 1..RegionSize]
    <3>2. \A i \in 1..Len(freeList) : freeList[i] \in S
      BY <2>1
    <3> HIDE DEF S
    <3>3. freeList = [i \in 1..Len(freeList) |-> freeList[i]]
      BY <3>1
    <3>4. freeList \in [1..Len(freeList) -> S]
      BY <3>2, <3>3
    <3>5. freeList \in Seq(S)
      BY <3>1, <3>4, SeqDef
    <3> QED BY <3>5 DEF S
  <2>3. ASSUME NEW b \in live PROVE b \in [off : 0..(RegionSize - 1), size : Sizes]
    <3>1. b.off \in Nat /\ b \in [off : Nat, size : Sizes \ {0}] /\ Rounded(b.size) \in Nat \ {0}
      BY <1>0, Owned
    <3>2. Owns(b, b.off)
      BY <3>1 DEF Owns
    <3>3. b.off < RegionSize
      BY <1>0, <3>1, <3>2
    <3> QED BY <1>0, <3>1, <3>3
  <2> QED BY <1>0, <2>2, <2>3 DEF TypeOK
<1>2. Canonical
  <2>1. ASSUME NEW i \in 1..(Len(freeList) - 1)
        PROVE  freeList[i].off + freeList[i].size < freeList[i + 1].off
    <3>1. i \in 1..Len(freeList) /\ i + 1 \in 1..Len(freeList) /\ i < i + 1
      BY <1>0, Blocks
    <3>2. End(freeList[i]) < freeList[i + 1].off
      BY <1>0, <3>1, Apart
    <3> QED BY <3>2 DEF End
  <2> QED BY <1>0, <2>1, Blocks DEF Canonical
<1>3. Partition
  <2>1. FreeBytes \cup UNION {LiveBytes(b) : b \in live} = 0..(RegionSize - 1)
    <3>1. \A x : x \in UNION {LiveBytes(b) : b \in live} <=> x \in Nat /\ \E b \in live : Owns(b, x)
      BY LiveByte
    <3>2. \A x : x \in 0..(RegionSize - 1) <=> x \in Nat /\ x < RegionSize
      BY <1>0
    <3> QED BY <1>0, <3>1, <3>2, FreeByte
  <2>2. \A b \in live : LiveBytes(b) \cap FreeBytes = {}
    BY <1>0, FreeByte, LiveByte
  <2>3. \A b, c \in live : b # c => LiveBytes(b) \cap LiveBytes(c) = {}
    BY <1>0, LiveByte
  <2> QED BY <2>1, <2>2, <2>3 DEF Partition
<1> QED BY <1>1, <1>2, <1>3 DEF Inv

(* Whatever is allocated and given back in whatever order, the free list   *)
(* stays sorted and coalesced, and it partitions the region with the live  *)
(* allocations: no byte leaks and none has two owners.                     *)
THEOREM PoolPartitioned == ASSUME SizesRound PROVE Spec => []Inv
<1>1. Init => PoolInv
  BY PoolInit
<1>2. PoolInv /\ [Next]_vars => PoolInv'
  BY PoolNext
<1>3. PoolInv => Inv
  BY PoolKept
<1> QED BY <1>1, <1>2, <1>3, PTL DEF Spec

-----------------------------------------------------------------------------
(* A run of free bytes lies in one block: the byte after a block is not    *)
(* free.                                                                   *)
LEMMA WithinOne ==
  ASSUME freeList \in Seq(Run), Ordered(freeList, {}), NEW o \in Nat, NEW n \in Nat \ {0},
         \A x \in Nat : o <= x /\ x < o + n => Free(freeList, x)
  PROVE  \E j \in 1..Len(freeList) : freeList[j].off <= o /\ o + n <= End(freeList[j])
<1>0. DOMAIN freeList = 1..Len(freeList)
  BY Blocks
<1>1. Free(freeList, o)
  OBVIOUS
<1>2. PICK j \in 1..Len(freeList) : freeList[j].off <= o /\ o < End(freeList[j])
  BY <1>0, <1>1 DEF Free
<1>3. End(freeList[j]) \in Nat /\ freeList[j].off \in Nat
  BY Blocks
<1>4. ~Free(freeList, End(freeList[j]))
  <2> SUFFICES ASSUME NEW k \in 1..Len(freeList), freeList[k].off <= End(freeList[j]),
                      End(freeList[j]) < End(freeList[k])
               PROVE  FALSE
    BY <1>0 DEF Free
  <2>1. /\ freeList[k].off \in Nat /\ End(freeList[k]) \in Nat
        /\ freeList[k].off < End(freeList[k]) /\ freeList[j].off < End(freeList[j])
    BY Blocks
  <2>2. CASE k < j
    BY <1>3, <2>1, <2>2, Apart
  <2>3. CASE j < k
    BY <1>3, <2>1, <2>3, Apart
  <2>4. CASE j = k
    BY <2>1, <2>4
  <2> QED BY <2>2, <2>3, <2>4
<1> QED BY <1>2, <1>3, <1>4

LEMMA Granules ==
  ASSUME SizesRound, NEW s \in Sizes
  PROVE  Pool!WholeGranules(s) = Rounded(s)
BY Rounding DEF Pool!WholeGranules

LEMMA RunsOfBytes ==
  ASSUME NEW o \in Nat, NEW n \in Nat
  PROVE  \A x : x \in Pool!Bytes(o, n) <=> x \in Nat /\ o <= x /\ x < o + n
BY DEF Pool!Bytes

(* A run fits where a block that is large enough has room for it.          *)
LEMMA FitsInBlock ==
  ASSUME PoolInv, NEW n \in Nat \ {0}
  PROVE  /\ Pool!Fits(n) \subseteq Nat
         /\ \A o \in Pool!Fits(n) : \E j \in 1..Len(freeList) :
              freeList[j].off <= o /\ freeList[j].size >= n
         /\ \A j \in 1..Len(freeList) : freeList[j].size >= n => freeList[j].off \in Pool!Fits(n)
<1>0. freeList \in Seq(Run) /\ Ordered(freeList, {})
  BY DEF PoolInv
<1>1. Pool!Fits(n) = {o \in FreeBytes : Pool!Bytes(o, n) \subseteq FreeBytes}
  BY DEF Pool!Fits
<1>2. ASSUME NEW o \in Pool!Fits(n)
      PROVE  o \in Nat /\ \E j \in 1..Len(freeList) : freeList[j].off <= o /\ freeList[j].size >= n
  <2>1. o \in Nat
    BY <1>0, <1>1, FreeByte
  <2>2. \A x \in Nat : o <= x /\ x < o + n => Free(freeList, x)
    BY <1>0, <1>1, <2>1, FreeByte, RunsOfBytes
  <2>3. PICK j \in 1..Len(freeList) : freeList[j].off <= o /\ o + n <= End(freeList[j])
    BY <1>0, <2>1, <2>2, WithinOne
  <2>4. freeList[j].size >= n
    BY <1>0, <2>1, <2>3, Blocks DEF End
  <2> QED BY <2>1, <2>3, <2>4
<1>3. ASSUME NEW j \in 1..Len(freeList), freeList[j].size >= n
      PROVE  freeList[j].off \in Pool!Fits(n)
  <2> DEFINE o == freeList[j].off
  <2>1. o \in Nat /\ o + n <= End(freeList[j]) /\ End(freeList[j]) \in Nat
        /\ DOMAIN freeList = 1..Len(freeList)
    BY <1>0, <1>3, Blocks DEF End
  <2>2. \A x \in Nat : o <= x /\ x < o + n => Free(freeList, x)
    BY <2>1 DEF Free
  <2> HIDE DEF o
  <2>3. \A x \in Nat : o <= x /\ x < o + n => x \in FreeBytes
    BY <1>0, <2>2, FreeByte
  <2>4. \A x : x \in Pool!Bytes(o, n) <=> x \in Nat /\ o <= x /\ x < o + n
    BY <2>1, RunsOfBytes
  <2>5. Pool!Bytes(o, n) \subseteq FreeBytes
    BY <2>3, <2>4
  <2>6. o \in FreeBytes
    BY <2>1, <2>3
  <2> QED BY <1>1, <2>5, <2>6 DEF o
<1> QED BY <1>2, <1>3

LEMMA LowestFit ==
  ASSUME PoolInv, NEW n \in Nat \ {0}, NEW i \in 1..Len(freeList), freeList[i].size >= n,
         \A j \in 1..Len(freeList) : freeList[j].size >= n => i <= j
  PROVE  Pool!Fits(n) # {} /\ Pool!Min(Pool!Fits(n)) = freeList[i].off
<1>0. freeList \in Seq(Run) /\ Ordered(freeList, {})
  BY DEF PoolInv
<1> DEFINE T == Pool!Fits(n)
           o == freeList[i].off
<1>1. o \in T /\ T \subseteq Nat
  BY FitsInBlock
<1>2. ASSUME NEW p \in T PROVE o <= p
  <2>1. PICK j \in 1..Len(freeList) : freeList[j].off <= p /\ freeList[j].size >= n
    BY FitsInBlock
  <2>2. i <= j /\ freeList[j].off \in Nat /\ p \in Nat /\ o \in Nat
    BY <1>0, <1>1, <2>1, Blocks
  <2>3. i < j => o <= freeList[j].off
    <3>1. i < j => End(freeList[i]) <= freeList[j].off
      BY <1>0, Apart
    <3> QED BY <1>0, <2>2, <3>1, Blocks
  <2> QED BY <2>1, <2>2, <2>3
<1> HIDE DEF T, o
<1>3. \A q \in T : (\A p \in T : q <= p) => q = o
  BY <1>1, <1>2
<1>4. Pool!Min(T) = o
  BY <1>1, <1>2, <1>3 DEF Pool!Min
<1> QED BY <1>1, <1>4 DEF T, o

LEMMA RefineInit == Init => Pool!Init
<1> SUFFICES ASSUME Init PROVE Pool!Init
  OBVIOUS
<1>1. PoolInv
  BY PoolInit
<1>2. RegionSize \in Nat /\ live = {}
  BY PoolAssumption DEF PoolAssumption, Init
<1>3. freeList \in Seq(Run) /\ \A x \in Nat : Free(freeList, x) <=> x < RegionSize
  BY <1>1, <1>2 DEF PoolInv
<1>4. \A x : x \in FreeBytes <=> x \in Pool!Bytes(0, RegionSize)
  <2>1. \A x : x \in FreeBytes <=> x \in Nat /\ Free(freeList, x)
    BY <1>3, FreeByte
  <2>2. \A x : x \in Pool!Bytes(0, RegionSize) <=> x \in Nat /\ 0 <= x /\ x < 0 + RegionSize
    BY <1>2, RunsOfBytes
  <2> QED BY <1>2, <1>3, <2>1, <2>2
<1>5. FreeBytes = Pool!Bytes(0, RegionSize)
  BY <1>4
<1> QED BY <1>5 DEF Pool!Init, Init

LEMMA RefineAllocate ==
  ASSUME SizesRound, PoolInv, NEW s \in Sizes, Allocate(s)
  PROVE  Pool!Allocate(s)
<1>0. freeList \in Seq(Run) /\ freeList' \in Seq(Run)
  BY AllocateStep DEF PoolInv
<1>1. s \in Nat /\ s > 0 /\ Rounded(s) \in Nat \ {0} /\ Pool!WholeGranules(s) = Rounded(s)
  BY Rounding, Granules DEF Allocate
<1>2. PICK i \in 1..Len(freeList) :
        /\ freeList[i].size >= Rounded(s)
        /\ \A j \in 1..Len(freeList) : freeList[j].size >= Rounded(s) => i <= j
        /\ live' = live \cup {Block(freeList[i].off, s)}
        /\ \A x \in Nat : Free(freeList', x) <=>
             Free(freeList, x) /\ ~(freeList[i].off <= x /\ x < freeList[i].off + Rounded(s))
  BY AllocateStep
<1> DEFINE o == freeList[i].off
           n == Rounded(s)
<1>3. Pool!Fits(n) # {} /\ Pool!Min(Pool!Fits(n)) = o
  BY <1>1, <1>2, LowestFit
<1>4. o \in Nat
  BY <1>0, Blocks
<1> HIDE DEF o, n
<1>5. FreeBytes' = FreeBytes \ Pool!Bytes(o, n)
  <2>1. \A x : x \in FreeBytes' <=> x \in Nat /\ Free(freeList', x)
    BY <1>0, BytesOf DEF FreeBytes, Bytes
  <2>2. \A x : x \in FreeBytes <=> x \in Nat /\ Free(freeList, x)
    BY <1>0, FreeByte
  <2>3. n \in Nat
    BY <1>1 DEF n
  <2>4. \A x : x \in Pool!Bytes(o, n) <=> x \in Nat /\ o <= x /\ x < o + n
    BY <1>4, <2>3, RunsOfBytes
  <2>5. \A x \in Nat : Free(freeList', x) <=> Free(freeList, x) /\ ~(o <= x /\ x < o + n)
    BY <1>2 DEF o, n
  <2>6. \A x : x \in FreeBytes' <=> x \in FreeBytes \ Pool!Bytes(o, n)
    BY <2>1, <2>2, <2>4, <2>5
  <2> QED BY <2>6
<1>6. live' = live \cup {[off |-> o, size |-> s]}
  BY <1>2 DEF Block, o
<1>7. Pool!Returns("allocate", s, "ok")
  BY DEF Allocate, Returns, Pool!Returns
<1>8. n = Pool!WholeGranules(s)
  BY <1>1 DEF n
<1> QED BY <1>1, <1>3, <1>5, <1>6, <1>7, <1>8 DEF Pool!Allocate

LEMMA RefineRefuse ==
  ASSUME SizesRound, PoolInv, NEW s \in Sizes, AllocateFails(s)
  PROVE  Pool!Refuse(s)
<1>1. FreeBytes' = FreeBytes /\ live' = live
  BY DEF AllocateFails, FreeBytes, Bytes
<1>2. CASE s = 0 /\ Returns("allocate", s, "EINVAL")
  BY <1>1, <1>2 DEF Returns, Pool!Refuse, Pool!Returns
<1>3. CASE s # 0 /\ LargeEnough(Rounded(s)) = {} /\ Returns("allocate", s, "ENOMEM")
  <2>1. s > 0 /\ Rounded(s) \in Nat \ {0} /\ Pool!WholeGranules(s) = Rounded(s)
    BY <1>3, Rounding, Granules
  <2>2. \A j \in 1..Len(freeList) : ~(freeList[j].size >= Rounded(s))
    <3>1. DOMAIN freeList = 1..Len(freeList)
      BY Blocks DEF PoolInv
    <3> QED BY <1>3, <3>1 DEF LargeEnough
  <2>3. Pool!Fits(Rounded(s)) = {}
    BY <2>1, <2>2, FitsInBlock
  <2>4. Pool!Returns("allocate", s, "ENOMEM")
    BY <1>3 DEF Returns, Pool!Returns
  <2> QED BY <1>1, <2>1, <2>3, <2>4 DEF Pool!Refuse
<1> QED BY <1>2, <1>3 DEF AllocateFails

LEMMA RefineDeallocate ==
  ASSUME SizesRound, PoolInv, NEW b \in live, Deallocate(b)
  PROVE  Pool!Deallocate(b)
<1>0. freeList \in Seq(Run) /\ freeList' \in Seq(Run)
  BY DeallocateStep DEF PoolInv
<1>1. b.off \in Nat /\ Rounded(b.size) \in Nat /\ Pool!WholeGranules(b.size) = Rounded(b.size)
  BY Owned, Granules
<1>2. FreeBytes' = FreeBytes \cup Pool!Bytes(b.off, Rounded(b.size))
  <2>1. \A x : x \in FreeBytes' <=> x \in Nat /\ Free(freeList', x)
    BY <1>0, BytesOf DEF FreeBytes, Bytes
  <2>2. \A x : x \in FreeBytes <=> x \in Nat /\ Free(freeList, x)
    BY <1>0, FreeByte
  <2>3. \A x : x \in Pool!Bytes(b.off, Rounded(b.size)) <=>
          x \in Nat /\ b.off <= x /\ x < b.off + Rounded(b.size)
    BY <1>1, RunsOfBytes
  <2>4. \A x \in Nat : Free(freeList', x) <=>
          Free(freeList, x) \/ (b.off <= x /\ x < b.off + Rounded(b.size))
    BY DeallocateStep
  <2>5. \A x : x \in FreeBytes' <=> x \in FreeBytes \cup Pool!Bytes(b.off, Rounded(b.size))
    BY <2>1, <2>2, <2>3, <2>4
  <2> QED BY <2>5
<1>3. live' = live \ {b} /\ Pool!Returns("deallocate", b.size, "ok")
  BY DEF Deallocate, Returns, Pool!Returns
<1> QED BY <1>1, <1>2, <1>3 DEF Pool!Deallocate

LEMMA RefineKeep == ASSUME NEW s \in Sizes, DeallocateKeeps(s) PROVE Pool!KeepAll
<1>1. FreeBytes' = FreeBytes /\ live' = live
  BY DEF DeallocateKeeps, FreeBytes, Bytes
<1>2. \E ret \in {"ok", "EINVAL", "ENOMEM"} : Returns("deallocate", s, ret)
  BY DEF DeallocateKeeps
<1> QED BY <1>1, <1>2 DEF Pool!KeepAll, Pool!Returns, Returns

LEMMA RefineNext == SizesRound /\ PoolInv /\ [Next]_vars => [Pool!Next]_(Pool!vars)
<1> SUFFICES ASSUME SizesRound, PoolInv, [Next]_vars PROVE [Pool!Next]_(Pool!vars)
  OBVIOUS
<1>1. UNCHANGED vars => UNCHANGED Pool!vars
  BY DEF vars, Pool!vars, FreeBytes, Bytes
<1>2. Next => Pool!Next
  BY RefineAllocate, RefineRefuse, RefineDeallocate, RefineKeep DEF Next, Pool!Next
<1> QED BY <1>1, <1>2

(* The free list is a set of free bytes to its clients: an allocation gets *)
(* the lowest run of bytes that is long enough, it is refused only when no *)
(* such run exists, and what is given back can be allocated again.         *)
THEOREM PoolImplemented == ASSUME SizesRound PROVE Spec => ImplementsPool
<1>1. Init => PoolInv
  BY PoolInit
<1>2. PoolInv /\ [Next]_vars => PoolInv'
  BY PoolNext
<1>3. Init => Pool!Init
  BY RefineInit
<1>4. PoolInv /\ [Next]_vars => [Pool!Next]_(Pool!vars)
  BY RefineNext
<1> QED BY <1>1, <1>2, <1>3, <1>4, PTL DEF Spec, ImplementsPool, Pool!Spec

-----------------------------------------------------------------------------
(***************************************************************************)
(* The lock over the allocator, in module Mutex: mutual exclusion and the  *)
(* absence of lost wakeups for any set of threads and any spin limit.      *)
(***************************************************************************)

(* The lock word and the place of each thread in lock() and unlock() keep  *)
(* their types (mutex.h:10-50, mutex.cpp).                                 *)
THEOREM LockTyped == LockSpec => []LockTypeOK
<1> USE SpinLimitAssumption DEF LockTypeOK, LockWords, UNLOCKED, LOCKED, CONTENDED,
                                Places
<1>1. LockInit => LockTypeOK
  BY DEF LockInit
<1>2. LockTypeOK /\ [LockNext]_lockVars => LockTypeOK'
  <2> SUFFICES ASSUME LockTypeOK, [LockNext]_lockVars
               PROVE  LockTypeOK'
    OBVIOUS
  <2>1. ASSUME NEW t \in Threads, Lock(t)
        PROVE  LockTypeOK'
    BY <2>1 DEF Lock, Goto
  <2>2. ASSUME NEW t \in Threads, SpinCas(t)
        PROVE  LockTypeOK'
    BY <2>2 DEF SpinCas, Goto
  <2>3. ASSUME NEW t \in Threads, SpinLoad(t)
        PROVE  LockTypeOK'
    BY <2>3 DEF SpinLoad
  <2>4. ASSUME NEW t \in Threads, SpinStop(t)
        PROVE  LockTypeOK'
    BY <2>4 DEF SpinStop, Goto
  <2>5. ASSUME NEW t \in Threads, Exchange(t)
        PROVE  LockTypeOK'
    BY <2>5 DEF Exchange, Goto
  <2>6. ASSUME NEW t \in Threads, FutexWait(t)
        PROVE  LockTypeOK'
    BY <2>6 DEF FutexWait, Goto
  <2>7. ASSUME NEW t \in Threads, FutexInterrupted(t)
        PROVE  LockTypeOK'
    BY <2>7 DEF FutexInterrupted, Goto
  <2>8. ASSUME NEW t \in Threads, Unlock(t)
        PROVE  LockTypeOK'
    BY <2>8 DEF Unlock, Goto
  <2>9. ASSUME NEW t \in Threads, FutexWake(t)
        PROVE  LockTypeOK'
    BY <2>9 DEF FutexWake, Goto, Sleepers
  <2>10. CASE UNCHANGED lockVars
    BY <2>10 DEF lockVars
  <2> QED
    BY <2>1, <2>2, <2>3, <2>4, <2>5, <2>6, <2>7, <2>8, <2>9, <2>10
    DEF LockNext, Step
<1> QED
  BY <1>1, <1>2, PTL DEF LockSpec

-----------------------------------------------------------------------------
(* Mutual exclusion is not inductive by itself: a second thread enters     *)
(* through Lock, SpinCas or Exchange exactly when the word is UNLOCKED, so *)
(* the invariant also says that UNLOCKED means nobody holds the lock.      *)
LockInv == MutualExclusion /\ WordMatchesHolder

(* Every step of the lock preserves LockInv.                               *)
LEMMA LockInvInductive ==
  ASSUME LockTypeOK, LockTypeOK', LockInv, [LockNext]_lockVars
  PROVE  LockInv'
<1> USE DEF LockInv, MutualExclusion, WordMatchesHolder, Holds, LockTypeOK,
            LockWords, UNLOCKED, LOCKED, CONTENDED
<1>1. ASSUME NEW t \in Threads, Lock(t)
      PROVE  LockInv'
  BY <1>1 DEF Lock, Goto
<1>2. ASSUME NEW t \in Threads, SpinCas(t)
      PROVE  LockInv'
  BY <1>2 DEF SpinCas, Goto
<1>3. ASSUME NEW t \in Threads, SpinLoad(t)
      PROVE  LockInv'
  BY <1>3 DEF SpinLoad
<1>4. ASSUME NEW t \in Threads, SpinStop(t)
      PROVE  LockInv'
  BY <1>4 DEF SpinStop, Goto
<1>5. ASSUME NEW t \in Threads, Exchange(t)
      PROVE  LockInv'
  BY <1>5 DEF Exchange, Goto
<1>6. ASSUME NEW t \in Threads, FutexWait(t)
      PROVE  LockInv'
  BY <1>6 DEF FutexWait, Goto
<1>7. ASSUME NEW t \in Threads, FutexInterrupted(t)
      PROVE  LockInv'
  BY <1>7 DEF FutexInterrupted, Goto
<1>8. ASSUME NEW t \in Threads, Unlock(t)
      PROVE  LockInv'
  BY <1>8 DEF Unlock, Goto
<1>9. ASSUME NEW t \in Threads, FutexWake(t)
      PROVE  LockInv'
  BY <1>9 DEF FutexWake, Goto, Sleepers
<1>10. CASE UNCHANGED lockVars
  BY <1>10 DEF lockVars
<1> QED
  BY <1>1, <1>2, <1>3, <1>4, <1>5, <1>6, <1>7, <1>8, <1>9, <1>10
  DEF LockNext, Step

(* LockInv holds in every state of every run of the lock.                  *)
LEMMA LockInvariant == LockSpec => []LockInv
<1>1. LockInit => LockInv
  BY DEF LockInit, LockInv, MutualExclusion, WordMatchesHolder, Holds
<1>2. LockTypeOK /\ LockTypeOK' /\ LockInv /\ [LockNext]_lockVars => LockInv'
  BY LockInvInductive
<1> QED
  BY <1>1, <1>2, LockTyped, PTL DEF LockSpec

(* No two threads are ever between lock() and unlock() at the same time.   *)
THEOREM MutexExcludes == LockSpec => []LockSafe
<1>1. LockTypeOK /\ LockInv => LockSafe
  BY DEF LockInv, LockSafe
<1> QED
  BY <1>1, LockTyped, LockInvariant, PTL

-----------------------------------------------------------------------------
(* A sleeping thread always has somebody who will wake it: the holder, who *)
(* sees CONTENDED in unlock(), or a thread on its way to FUTEX_WAKE or to  *)
(* marking the word CONTENDED.                                             *)
THEOREM MutexKeepsWakeups == LockSpec => []NoLostWakeup
<1> USE DEF NoLostWakeup, Sleepers, LockTypeOK
<1>1. LockInit => NoLostWakeup
  BY DEF LockInit
<1>2. LockTypeOK /\ NoLostWakeup /\ [LockNext]_lockVars => NoLostWakeup'
  <2> SUFFICES ASSUME LockTypeOK, NoLostWakeup, [LockNext]_lockVars
               PROVE  NoLostWakeup'
    OBVIOUS
  <2> USE DEF UNLOCKED, LOCKED, CONTENDED, LockWords
  <2>1. ASSUME NEW t \in Threads, Lock(t)
        PROVE  NoLostWakeup'
    BY <2>1 DEF Lock, Goto
  <2>2. ASSUME NEW t \in Threads, SpinCas(t)
        PROVE  NoLostWakeup'
    BY <2>2 DEF SpinCas, Goto
  <2>3. ASSUME NEW t \in Threads, SpinLoad(t)
        PROVE  NoLostWakeup'
    BY <2>3 DEF SpinLoad
  <2>4. ASSUME NEW t \in Threads, SpinStop(t)
        PROVE  NoLostWakeup'
    BY <2>4 DEF SpinStop, Goto
  <2>5. ASSUME NEW t \in Threads, Exchange(t)
        PROVE  NoLostWakeup'
    BY <2>5 DEF Exchange, Goto
  <2>6. ASSUME NEW t \in Threads, FutexWait(t)
        PROVE  NoLostWakeup'
    BY <2>6 DEF FutexWait, Goto
  <2>7. ASSUME NEW t \in Threads, FutexInterrupted(t)
        PROVE  NoLostWakeup'
    BY <2>7 DEF FutexInterrupted, Goto
  <2>8. ASSUME NEW t \in Threads, Unlock(t)
        PROVE  NoLostWakeup'
    BY <2>8 DEF Unlock, Goto
  <2>9. ASSUME NEW t \in Threads, FutexWake(t)
        PROVE  NoLostWakeup'
    BY <2>9 DEF FutexWake, Goto
  <2>10. CASE UNCHANGED lockVars
    BY <2>10 DEF lockVars
  <2> QED
    BY <2>1, <2>2, <2>3, <2>4, <2>5, <2>6, <2>7, <2>8, <2>9, <2>10
    DEF LockNext, Step
<1> QED
  BY <1>1, <1>2, LockTyped, PTL DEF LockSpec

-----------------------------------------------------------------------------
(* The futex lock is an abstract lock as far as safety goes: every step is *)
(* a Request, an Acquire, a Release or a step the callers cannot see.      *)
THEOREM MutexImplementsLock ==
  LockSpec => Abstract!Init /\ [][Abstract!Next]_(Abstract!vars)
<1>1. LockInit => Abstract!Init
  BY DEF LockInit, Abstract!Init, Holds
<1>2. LockTypeOK /\ LockInv /\ [LockNext]_lockVars => [Abstract!Next]_(Abstract!vars)
  <2> SUFFICES ASSUME LockTypeOK, LockInv, [LockNext]_lockVars
               PROVE  [Abstract!Next]_(Abstract!vars)
    OBVIOUS
  <2> USE DEF LockTypeOK, LockInv, MutualExclusion, WordMatchesHolder, Holds,
              Abstract!vars, UNLOCKED, LOCKED, CONTENDED, LockWords, Goto
  <2>1. ASSUME NEW t \in Threads, Lock(t)
        PROVE  [Abstract!Next]_(Abstract!vars)
    <3>1. CASE state = UNLOCKED
      <4> Abstract!Acquire(t)
        BY <2>1, <3>1 DEF Lock, Abstract!Acquire
      <4> QED  BY DEF Abstract!Next
    <3>2. CASE state # UNLOCKED
      <4> Abstract!Request(t)
        BY <2>1, <3>2 DEF Lock, Abstract!Request
      <4> QED  BY DEF Abstract!Next
    <3> QED  BY <3>1, <3>2
  <2>2. ASSUME NEW t \in Threads, SpinCas(t)
        PROVE  [Abstract!Next]_(Abstract!vars)
    <3>1. CASE state = UNLOCKED
      <4> Abstract!Acquire(t)
        BY <2>2, <3>1 DEF SpinCas, Abstract!Acquire
      <4> QED  BY DEF Abstract!Next
    <3>2. CASE state # UNLOCKED
      BY <2>2, <3>2 DEF SpinCas
    <3> QED  BY <3>1, <3>2
  <2>3. ASSUME NEW t \in Threads, SpinLoad(t)
        PROVE  [Abstract!Next]_(Abstract!vars)
    BY <2>3 DEF SpinLoad
  <2>4. ASSUME NEW t \in Threads, SpinStop(t)
        PROVE  [Abstract!Next]_(Abstract!vars)
    BY <2>4 DEF SpinStop
  <2>5. ASSUME NEW t \in Threads, Exchange(t)
        PROVE  [Abstract!Next]_(Abstract!vars)
    <3>1. CASE state = UNLOCKED
      <4> Abstract!Acquire(t)
        BY <2>5, <3>1 DEF Exchange, Abstract!Acquire
      <4> QED  BY DEF Abstract!Next
    <3>2. CASE state # UNLOCKED
      BY <2>5, <3>2 DEF Exchange
    <3> QED  BY <3>1, <3>2
  <2>6. ASSUME NEW t \in Threads, FutexWait(t)
        PROVE  [Abstract!Next]_(Abstract!vars)
    BY <2>6 DEF FutexWait
  <2>7. ASSUME NEW t \in Threads, FutexInterrupted(t)
        PROVE  [Abstract!Next]_(Abstract!vars)
    BY <2>7 DEF FutexInterrupted
  <2>8. ASSUME NEW t \in Threads, Unlock(t)
        PROVE  [Abstract!Next]_(Abstract!vars)
    <3> Abstract!Release(t)
      BY <2>8 DEF Unlock, Abstract!Release
    <3> QED  BY DEF Abstract!Next
  <2>9. ASSUME NEW t \in Threads, FutexWake(t)
        PROVE  [Abstract!Next]_(Abstract!vars)
    BY <2>9 DEF FutexWake, Sleepers
  <2>10. CASE UNCHANGED lockVars
    BY <2>10 DEF lockVars
  <2> QED
    BY <2>1, <2>2, <2>3, <2>4, <2>5, <2>6, <2>7, <2>8, <2>9, <2>10
    DEF LockNext, Step
<1> QED
  BY <1>1, <1>2, LockInvariant, LockTyped, PTL DEF LockSpec
=============================================================================
