--------------------------- MODULE DeliveryProofs ---------------------------
(***************************************************************************)
(* Proofs about Delivery, for any vendor's files, hosts, requests and      *)
(* address width, and about MigrationV2, for any charts, limits and        *)
(* numbers of errors and reconciliations.                                  *)
(*                                                                         *)
(* Delivery, in this order: powers of two and blocks of addresses; folds   *)
(* over the files of a release; the inductive invariant DeliveryInv, which *)
(* says for each step of a command what was checked before it, and what    *)
(* the cluster, a backup, the values of the charts, the application and    *)
(* lint were made of; that every step keeps each part of it; and what      *)
(* follows from it.                                                        *)
(*                                                                         *)
(* MigrationV2, at the end: as long as the operator of v1 may reconcile,   *)
(* k0s has all of its charts; whatever the pod takes away, it takes away   *)
(* after the operator is gone, so that nothing brings it back, and no      *)
(* resource that is deleted, by the pod or by k0s, has a finalizer.        *)
(***************************************************************************)
EXTENDS Delivery, MigrationV2, FiniteSetTheorems, SequenceTheorems, WellFoundedInduction, TLAPS

-----------------------------------------------------------------------------
(* Numbers: least elements stand for induction, and the subsets of a set   *)
(* of n elements for the powers of two.                                    *)

LEMMA LeastNumber ==
    ASSUME NEW T \in SUBSET Nat, T # {}
    PROVE  \E x \in T : \A y \in T : x <= y
<1> DEFINE R == {p \in Nat \X Nat : p[1] < p[2]}
<1>1. IsWellFoundedOn(R, Nat) BY NatLessThanWellFounded DEF OpToRel
<1> HIDE DEF R
<1>2. \E x \in T : \A y \in T : ~(<<y, x>> \in R)
  BY <1>1, WFMin
<1>3. PICK x \in T : \A y \in T : ~(<<y, x>> \in R) BY <1>2
<1>4. ASSUME NEW y \in T PROVE x <= y
  <2>1. <<y, x>> \notin R BY <1>3
  <2> QED BY <2>1 DEF R
<1> QED BY <1>4

LEMMA PowerZero == 2^0 = 1
<1>1. IsFiniteSet({}) /\ Cardinality({}) = 0 BY FS_EmptySet
<1>2. Cardinality(SUBSET {}) = 2^Cardinality({}) BY <1>1, FS_SUBSET
<1>3. SUBSET {} = {{}} OBVIOUS
<1>4. Cardinality({{}}) = 1 BY FS_Singleton
<1> QED BY <1>1, <1>2, <1>3, <1>4

LEMMA PowerStep ==
    ASSUME NEW n \in Nat
    PROVE  2^(n + 1) = 2 * 2^n /\ 2^n \in Nat /\ 2^n > 0
<1> DEFINE S == 1..n
           SS == 1..(n + 1)
           A == SUBSET S
           B == {x \cup {n + 1} : x \in A}
           p == 2^n
<1>1. IsFiniteSet(S) /\ Cardinality(S) = n BY FS_Interval
<1>2. IsFiniteSet(SS) /\ Cardinality(SS) = n + 1 BY FS_Interval
<1>3. SS = S \cup {n + 1} /\ n + 1 \notin S OBVIOUS
<1>4. IsFiniteSet(A) /\ Cardinality(A) = 2^n BY <1>1, FS_SUBSET
<1>5. Cardinality(SUBSET SS) = 2^(n + 1) BY <1>2, FS_SUBSET
<1> HIDE DEF S, SS
<1>6. SUBSET SS = A \cup B
  <2>1. ASSUME NEW X \in SUBSET SS PROVE X \in A \cup B
    <3>1. CASE n + 1 \notin X BY <1>3, <3>1
    <3>2. CASE n + 1 \in X
      <4>1. X \ {n + 1} \in A BY <1>3
      <4>2. X = (X \ {n + 1}) \cup {n + 1} BY <3>2
      <4> QED BY <4>1, <4>2
    <3> QED BY <3>1, <3>2
  <2>2. ASSUME NEW X \in A \cup B PROVE X \in SUBSET SS BY <1>3
  <2> QED BY <2>1, <2>2
<1>7. A \cap B = {} BY <1>3
<1>8. ExistsBijection(A, B)
  <2> DEFINE f == [x \in A |-> x \cup {n + 1}]
  <2>1. f \in [A -> B] OBVIOUS
  <2>2. ASSUME NEW x \in A, NEW y \in A, f[x] = f[y] PROVE x = y
    <3>1. x = (x \cup {n + 1}) \ {n + 1} BY <1>3
    <3>2. y = (y \cup {n + 1}) \ {n + 1} BY <1>3
    <3> QED BY <3>1, <3>2, <2>2
  <2>3. \A b \in B : \E a \in A : f[a] = b OBVIOUS
  <2> HIDE DEF f, A, B
  <2>4. f \in Injection(A, B) BY <2>1, <2>2 DEF Injection, IsInjective
  <2>5. f \in Surjection(A, B) BY <2>1, <2>3 DEF Surjection
  <2> QED BY <2>4, <2>5 DEF ExistsBijection, Bijection
<1>9. p \in Nat /\ p # 0
  <2>1. S \in A OBVIOUS
  <2> HIDE DEF A
  <2> QED BY <2>1, <1>4, FS_CardinalityType, FS_EmptySet
<1> HIDE DEF A, B
<1>10. IsFiniteSet(B) /\ Cardinality(B) = 2^n BY <1>4, <1>8, FS_Bijection
<1>11. Cardinality(A \cap B) = 0 BY <1>7, FS_EmptySet
<1>12. Cardinality(A \cup B) = Cardinality(A) + Cardinality(B) - Cardinality(A \cap B)
  BY <1>4, <1>10, FS_Union
<1>13. 2^(n + 1) = p + p - 0 BY <1>4, <1>5, <1>6, <1>10, <1>11, <1>12
<1> HIDE DEF p
<1>14. 2^(n + 1) = 2 * p /\ p > 0 BY <1>9, <1>13
<1> QED BY <1>9, <1>14 DEF p

(* A power of two divides the later ones.                                  *)
LEMMA PowerDivides ==
    ASSUME NEW m \in Nat, NEW n \in Nat, m <= n
    PROVE  \E k \in Nat : k > 0 /\ 2^n = k * 2^m
<1> DEFINE Divides(j) == \E k \in Nat : k > 0 /\ 2^j = k * 2^m
           T == {j \in Nat : m <= j /\ ~Divides(j)}
<1>1. SUFFICES ASSUME T # {} PROVE FALSE BY DEF T
<1>2. PICK j \in T : \A i \in T : j <= i BY <1>1, LeastNumber
<1>3. Divides(m)
  <2>1. 2^m \in Nat BY PowerStep
  <2>2. 2^m = 1 * 2^m BY <2>1
  <2> QED BY <2>2
<1>4. j # m BY <1>2, <1>3
<1>5. j - 1 \in Nat /\ m <= j - 1 /\ j - 1 \notin T BY <1>2, <1>4
<1>6. Divides(j - 1) BY <1>5
<1>7. PICK k \in Nat : k > 0 /\ 2^(j - 1) = k * 2^m BY <1>6
<1>8. 2^((j - 1) + 1) = 2 * 2^(j - 1) BY <1>5, PowerStep
<1>9. (j - 1) + 1 = j BY <1>5
<1>10. 2^m \in Nat BY PowerStep
<1>11. 2^j = (2 * k) * 2^m
  <2> DEFINE p == 2^m
             q == 2^(j - 1)
             r == 2^j
  <2>1. p \in Nat /\ q = k * p /\ r = 2 * q BY <1>7, <1>8, <1>9, <1>10
  <2> HIDE DEF p, q, r
  <2>2. r = (2 * k) * p BY <2>1
  <2> QED BY <2>2 DEF p, r
<1>12. Divides(j)
  <2> DEFINE kk == 2 * k
  <2>1. kk \in Nat /\ kk > 0 BY <1>7
  <2>2. 2^j = kk * 2^m BY <1>11
  <2> HIDE DEF kk
  <2> QED BY <2>1, <2>2
<1> QED BY <1>2, <1>12

-----------------------------------------------------------------------------
(* Blocks of addresses                                                     *)

(* A block starts at a multiple of its size, is not empty and holds its    *)
(* base.                                                                   *)
LEMMA SizeType ==
    ASSUME NEW n \in 0..W
    PROVE  Size(n) \in Nat /\ Size(n) > 0 /\ (n < W => Size(n) = 2 * Size(n + 1))
<1>1. W - n \in Nat BY WAssumption
<1>2. Size(n) \in Nat /\ Size(n) > 0 BY <1>1, PowerStep DEF Size
<1>3. ASSUME n < W PROVE Size(n) = 2 * Size(n + 1)
  <2>1. W - (n + 1) \in Nat BY <1>3, WAssumption
  <2>2. 2^((W - (n + 1)) + 1) = 2 * 2^(W - (n + 1)) BY <2>1, PowerStep
  <2>3. (W - (n + 1)) + 1 = W - n BY WAssumption
  <2> QED BY <2>2, <2>3 DEF Size
<1> QED BY <1>2, <1>3

LEMMA SizeDivides ==
    ASSUME NEW m \in 0..W, NEW n \in 0..W, m <= n
    PROVE  \E k \in Nat : k > 0 /\ Size(m) = k * Size(n)
<1>1. W - m \in Nat /\ W - n \in Nat /\ W - n <= W - m BY WAssumption
<1> QED BY <1>1, PowerDivides DEF Size

LEMMA AddressType == Address = 0..(Size(0) - 1) /\ Address \subseteq Nat
<1>1. W - 0 = W BY WAssumption
<1>2. 2^W \in Nat BY PowerStep, WAssumption
<1> QED BY <1>1, <1>2 DEF Address, Size

LEMMA FirstType ==
    ASSUME NEW b, b.base \in Nat, b.len \in 0..W
    PROVE  /\ First(b) \in Nat
           /\ \E q \in Nat : First(b) = q * Size(b.len)
           /\ First(b) <= b.base /\ b.base < First(b) + Size(b.len)
<1> DEFINE s == Size(b.len)
           x == b.base
<1>1. s \in Nat /\ s > 0 /\ x \in Nat BY SizeType
<1>2. First(b) = x - (x % s) BY DEF First
<1> HIDE DEF s, x
<1>3. x = ((x \div s) * s) + (x % s) /\ x \div s \in Nat /\ x % s \in 0..(s - 1) BY <1>1
<1>4. (x \div s) * s \in Nat BY <1>3, <1>1
<1>5. First(b) = (x \div s) * s BY <1>2, <1>3, <1>4
<1>6. First(b) \in Nat /\ First(b) <= x /\ x < First(b) + s BY <1>1, <1>2, <1>3, <1>4, <1>5
<1> QED BY <1>3, <1>5, <1>6 DEF s, x

(* The base of a block that starts at a multiple of its size is its first  *)
(* address.                                                                *)
LEMMA FirstOfMultiple ==
    ASSUME NEW b, NEW q \in Nat, b.len \in 0..W, b.base = q * Size(b.len)
    PROVE  First(b) = b.base
<1> DEFINE s == Size(b.len)
           x == b.base
<1>1. s \in Nat /\ s > 0 /\ x = q * s BY SizeType
<1>2. First(b) = x - (x % s) BY DEF First
<1> HIDE DEF s, x
<1>3. x % s = 0 /\ x \in Nat BY <1>1
<1>4. First(b) = x BY <1>2, <1>3
<1> QED BY <1>4 DEF x

LEMMA MaskedCovers ==
    ASSUME NEW b, b.base \in Nat, b.len \in 0..W
    PROVE  Covers(Masked(b), b.base)
<1>1. Masked(b).base = First(b) /\ Masked(b).len = b.len BY DEF Masked, Block
<1>2. PICK q \in Nat : First(b) = q * Size(b.len) BY FirstType
<1>3. First(Masked(b)) = First(b) BY <1>1, <1>2, FirstOfMultiple
<1> QED BY <1>1, <1>3, FirstType DEF Covers

(* The halves of a block: where they start, that they are apart, and that  *)
(* the block around them is the one they come of.                          *)
LEMMA Halves ==
    ASSUME NEW g, g.base \in Address, g.len \in 0..(W - 1)
    PROVE  LET p == SplitNetworkCIDR(g).pods
               v == SplitNetworkCIDR(g).services
               h == Size(g.len + 1)
           IN  /\ p.len = g.len + 1 /\ v.len = g.len + 1 /\ p.kind = "block" /\ v.kind = "block"
               /\ First(p) = First(g) /\ First(v) = First(g) + h
               /\ p.base \in Address /\ v.base \in Address
               /\ h \in Nat /\ h > 0 /\ Size(g.len) = 2 * h
               /\ ~Overlap(p, v)
               /\ NetworksAreAdjacentAndSameSize(p, v) = Block(First(g), g.len)
<1> DEFINE p == SplitNetworkCIDR(g).pods
           v == SplitNetworkCIDR(g).services
           h == Size(g.len + 1)
           f == First(g)
<1>1. g.len \in 0..W /\ g.len + 1 \in 0..W /\ g.len < W BY WAssumption
<1>2. h \in Nat /\ h > 0 /\ Size(g.len) = 2 * h BY <1>1, SizeType
<1>3. p = Block(f, g.len + 1) /\ v = Block(f + h, g.len + 1) BY DEF SplitNetworkCIDR
<1>4. p.base = f /\ p.len = g.len + 1 /\ p.kind = "block" BY <1>3 DEF Block
<1>5. v.base = f + h /\ v.len = g.len + 1 /\ v.kind = "block" BY <1>3 DEF Block
<1>6. g.base \in Nat BY AddressType
<1>7. PICK q \in Nat : f = q * Size(g.len) BY <1>1, <1>6, FirstType
<1>8. f \in Nat /\ f <= g.base BY <1>1, <1>6, FirstType
<1> HIDE DEF f, h, p, v
<1>9. f = (2 * q) * h /\ f + h = (2 * q + 1) * h BY <1>2, <1>7
<1>10. 2 * q \in Nat /\ 2 * q + 1 \in Nat OBVIOUS
<1>11. First(p) = f
  <2>1. p.len \in 0..W /\ p.base = (2 * q) * Size(p.len) BY <1>1, <1>4, <1>9 DEF h
  <2> QED BY <2>1, <1>4, <1>10, FirstOfMultiple
<1>12. First(v) = f + h
  <2>1. v.len \in 0..W /\ v.base = (2 * q + 1) * Size(v.len) BY <1>1, <1>5, <1>9 DEF h
  <2> QED BY <2>1, <1>5, <1>10, FirstOfMultiple
<1>13. Size(0) \in Nat /\ Size(0) > 0
  <2>1. 0 \in 0..W BY WAssumption
  <2> QED BY <2>1, SizeType
<1>14. f + 2 * h <= Size(0)
  <2>1. PICK k \in Nat : Size(0) = k * Size(g.len)
    <3>1. 0 \in 0..W /\ 0 <= g.len BY WAssumption
    <3> QED BY <3>1, <1>1, SizeDivides
  <2>2. f < Size(0) BY <1>8, <1>6, <1>13, AddressType
  <2>3. q * (2 * h) < k * (2 * h) BY <2>1, <2>2, <1>2, <1>7
  <2>4. q < k BY <2>3, <1>2
  <2>5. (q + 1) * (2 * h) <= k * (2 * h) BY <2>4, <1>2
  <2>6. (q + 1) * (2 * h) = q * (2 * h) + 2 * h BY <1>2
  <2> QED BY <2>1, <2>5, <2>6, <1>2, <1>7
<1>15. f \in Address /\ f + h \in Address BY <1>2, <1>8, <1>14, <1>13, AddressType
<1>16. ~Overlap(p, v) BY <1>2, <1>4, <1>5, <1>8, <1>11, <1>12 DEF Overlap, Covers, h
<1>17. NetworksAreAdjacentAndSameSize(p, v) = Block(f, g.len)
  <2>1. 2^W = Size(0)
    <3>1. W - 0 = W BY WAssumption
    <3> QED BY <3>1 DEF Size
  <2>2. (f + h) % Size(0) = f + h BY <1>2, <1>8, <1>14, <1>13
  <2>3. Size(p.len) = h BY <1>4 DEF h
  <2>4. p.len - 1 = g.len BY <1>4, <1>1
  <2> QED BY <2>1, <2>2, <2>3, <2>4, <1>4, <1>5, <1>11, <1>12 DEF NetworksAreAdjacentAndSameSize
<1> QED BY <1>2, <1>4, <1>5, <1>11, <1>12, <1>15, <1>16, <1>17 DEF f, h, p, v

(* What a half of a block holds or meets, the block holds or meets.        *)
LEMMA HalfCovers ==
    ASSUME NEW g, g.base \in Address, g.len \in 0..(W - 1), NEW a \in Int,
           NEW n \in {SplitNetworkCIDR(g).pods, SplitNetworkCIDR(g).services}, Covers(n, a)
    PROVE  Covers(g, a)
<1>1. g.len \in 0..W /\ g.base \in Nat BY WAssumption, AddressType
<1>2. First(g) \in Nat BY <1>1, FirstType
<1>3. \/ First(n) = First(g) /\ n.len = g.len + 1
      \/ First(n) = First(g) + Size(g.len + 1) /\ n.len = g.len + 1
  BY Halves
<1>4. Size(g.len + 1) \in Nat /\ Size(g.len) = 2 * Size(g.len + 1) BY Halves
<1> QED BY <1>2, <1>3, <1>4 DEF Covers

LEMMA HalfOverlaps ==
    ASSUME NEW g, g.base \in Address, g.len \in 0..(W - 1), NEW r \in Blocks,
           NEW n \in {SplitNetworkCIDR(g).pods, SplitNetworkCIDR(g).services}, Overlap(n, r)
    PROVE  Overlap(g, r)
<1> DEFINE h == Size(g.len + 1)
           s == Size(r.len)
           f == First(g)
           e == First(r)
<1>1. g.len \in 0..W /\ g.len + 1 \in 0..W /\ g.base \in Nat BY WAssumption, AddressType
<1>2. r.len \in 0..W /\ r.base \in Nat BY AddressType DEF Blocks
<1>3. f \in Nat /\ e \in Nat BY <1>1, <1>2, FirstType
<1>4. h \in Nat /\ h > 0 /\ Size(g.len) = 2 * h BY Halves
<1>5. s \in Nat /\ s > 0 BY <1>2, SizeType
<1>6. CASE Covers(n, e) BY <1>3, <1>6, HalfCovers DEF Overlap
<1>7. CASE Covers(r, First(n)) /\ First(n) = f BY <1>7 DEF Overlap
<1>8. CASE Covers(r, First(n)) /\ First(n) = f + h
  <2>1. e <= f + h /\ f + h < e + s BY <1>8 DEF Covers
  <2>2. PICK q \in Nat : f = q * (2 * h) BY <1>1, <1>4, FirstType
  <2>3. PICK qr \in Nat : e = qr * s BY <1>2, FirstType
  <2>4. CASE r.len >= g.len + 1
    <3>1. PICK k \in Nat : h = k * s BY <1>1, <1>2, <2>4, SizeDivides
    <3> DEFINE m == (2 * q + 1) * k
    <3>2. m \in Nat OBVIOUS
    <3>3. f + h = m * s
      <4>1. f + h = (2 * q + 1) * h BY <1>4, <2>2
      <4>2. (2 * q + 1) * (k * s) = ((2 * q + 1) * k) * s BY <1>5
      <4> HIDE DEF h
      <4> QED BY <3>1, <4>1, <4>2
    <3> HIDE DEF m, f, h, e, s
    <3>4. qr * s <= m * s /\ m * s < qr * s + s BY <2>1, <2>3, <3>3
    <3>5. qr <= m /\ m <= qr BY <1>5, <3>2, <3>4
    <3>6. e = f + h BY <2>3, <3>2, <3>3, <3>5
    <3>7. f <= e /\ e < f + 2 * h BY <1>3, <1>4, <3>6
    <3> QED BY <1>4, <3>7 DEF Overlap, Covers, e, f
  <2>5. CASE r.len <= g.len
    <3>1. PICK k \in Nat : k > 0 /\ s = k * (2 * h) BY <1>1, <1>2, <1>4, <2>5, SizeDivides
    <3> DEFINE m == qr * k
    <3>2. m \in Nat OBVIOUS
    <3>3. e = m * (2 * h)
      <4>1. qr * (k * (2 * h)) = (qr * k) * (2 * h) BY <1>4
      <4> HIDE DEF s, e, h
      <4> QED BY <2>3, <3>1, <4>1
    <3> HIDE DEF m, f, h, e, s
    <3>4. m * (2 * h) <= q * (2 * h) + h BY <2>1, <2>2, <3>3
    <3>5. m * (2 * h) < q * (2 * h) + 2 * h BY <1>4, <3>2, <3>4
    <3>6. m <= q BY <1>4, <3>2, <3>5
    <3>7. m * (2 * h) <= q * (2 * h) BY <1>4, <3>2, <3>6
    <3>8. e <= f BY <2>2, <3>3, <3>7
    <3>9. f < e + s BY <1>3, <1>4, <1>5, <2>1
    <3> QED BY <3>8, <3>9 DEF Overlap, Covers, e, f, s
  <2> QED BY <1>1, <1>2, <2>4, <2>5
<1>9. First(n) = f \/ First(n) = f + h BY Halves
<1> QED BY <1>6, <1>7, <1>8, <1>9 DEF Overlap

(* The address for the registry is in its network.                         *)
LEMMA RegistryAddress ==
    ASSUME NEW b \in Entries, LowerBandIP(b, RegistryIndex) # None
    PROVE  Covers(b, LowerBandIP(b, RegistryIndex))
<1> DEFINE band == IF Size(b.len) \div 16 < Band THEN Band ELSE Size(b.len) \div 16
           s == Size(b.len)
           end == First(b) + (IF band < s THEN band ELSE s)
           x == First(b) + RegistryIndex + 1
<1>1. b.base \in Nat /\ b.len \in 0..W BY AddressType DEF Entries
<1>2. s \in Nat /\ s > 0 /\ First(b) \in Nat /\ RegistryIndex \in Nat
  BY <1>1, SizeType, FirstType, RegistryIndexAssumption
<1>3. band \in Int BY <1>2, BandAssumption
<1>4. RegistryIndex + 1 # s
  <2>1. W - b.len \in 0..W BY <1>1, WAssumption
  <2> QED BY <2>1, RegistryIndexAssumption DEF Size
<1>5. LowerBandIP(b, RegistryIndex) = IF b.kind = "block" /\ x <= end THEN x ELSE None
  BY DEF LowerBandIP
<1>6. x <= end /\ LowerBandIP(b, RegistryIndex) = x BY <1>5
<1> HIDE DEF band, s
<1>7. end <= First(b) + s BY <1>2, <1>3
<1>8. First(b) <= x /\ x < First(b) + s BY <1>2, <1>3, <1>4, <1>6, <1>7
<1> QED BY <1>6, <1>8 DEF Covers, s

(* A network that was validated is a block that starts at its base.        *)
LEMMA ValidBlock ==
    ASSUME NEW g \in Entries, ValidateCIDR(g)
    PROVE  /\ g.base \in Address /\ g.len \in 0..(W - 1) /\ First(g) = g.base
           /\ g = Block(First(g), g.len)
<1>1. g.base \in Address /\ g.len \in 0..W /\ g.len <= NotLessThan /\ g.base = First(g) /\ g.kind = "block"
  BY DEF Entries, ValidateCIDR, Canonical
<1>2. g = [kind |-> g.kind, base |-> g.base, len |-> g.len] BY DEF Entries
<1> QED BY <1>1, <1>2, WAssumption, NotLessThanAssumption DEF Block

-----------------------------------------------------------------------------
(* Folds over sequences                                                    *)

LEMMA MaxOf ==
    ASSUME NEW n \in Nat, NEW s \in SUBSET (1..n), s # {}
    PROVE  Max(s) \in s /\ \A y \in s : y <= Max(s)
<1> DEFINE T == {n - x : x \in s}
<1>1. T \in SUBSET Nat /\ T # {}
  <2>1. ASSUME NEW x \in s PROVE n - x \in Nat OBVIOUS
  <2> QED BY <2>1
<1>2. PICK t \in T : \A y \in T : t <= y BY <1>1, LeastNumber
<1>3. PICK x \in s : t = n - x BY <1>2
<1>4. ASSUME NEW y \in s PROVE x >= y
  <2>1. t <= n - y BY <1>2
  <2> QED BY <2>1, <1>3
<1>5. Max(s) \in s /\ \A y \in s : Max(s) >= y BY <1>3, <1>4 DEF Max
<1> QED BY <1>5

(* The texts of a file are processed one after the other.                  *)
OneByOne(base, seq, n) ==
    \E g : /\ g[0] = base
           /\ \A i \in 1..n : g[i] = ProcessYAMLDocument(g[i - 1], seq[i])
           /\ ProcessTexts(base, seq) = g[n]
LEMMA FoldOfDocuments ==
    ASSUME NEW base, NEW seq, NEW n \in Nat, DOMAIN seq = 1..n
    PROVE  OneByOne(base, seq, n)
<1> DEFINE Body(h, s) == IF s = {} THEN base ELSE ProcessYAMLDocument(h[s \ {Max(s)}], seq[Max(s)])
           Exists(k) == \E h : h = [s \in SUBSET (1..k) |-> Body(h, s)]
           F == CHOOSE h : h = [s \in SUBSET (1..n) |-> Body(h, s)]
           T == {k \in Nat : ~Exists(k)}
<1>1. Exists(0)
  <2> DEFINE h == [s \in SUBSET (1..0) |-> base]
  <2>1. SUBSET (1..0) = {{}} OBVIOUS
  <2>2. h = [s \in SUBSET (1..0) |-> Body(h, s)] BY <2>1
  <2> QED BY <2>2
<1>2. ASSUME NEW k \in Nat, Exists(k) PROVE Exists(k + 1)
  <2>1. PICK h : h = [s \in SUBSET (1..k) |-> Body(h, s)] BY <1>2
  <2> DEFINE hh == [s \in SUBSET (1..(k + 1)) |-> Body(h, s)]
  <2>2. ASSUME NEW s \in SUBSET (1..k) PROVE hh[s] = h[s]
    <3>1. s \in SUBSET (1..(k + 1)) OBVIOUS
    <3> QED BY <2>1, <3>1
  <2>3. ASSUME NEW s \in SUBSET (1..(k + 1)) PROVE hh[s] = Body(hh, s)
    <3>1. CASE s = {} BY <3>1
    <3>2. CASE s # {}
      <4>1. k + 1 \in Nat OBVIOUS
      <4>2. Max(s) \in s /\ \A y \in s : y <= Max(s) BY <3>2, <4>1, MaxOf
      <4>3. ASSUME NEW y \in s \ {Max(s)} PROVE y \in 1..k
        <5>1. y \in 1..(k + 1) /\ Max(s) \in 1..(k + 1) /\ y <= Max(s) /\ y # Max(s) BY <4>2
        <5> QED BY <5>1
      <4>4. s \ {Max(s)} \in SUBSET (1..k) BY <4>3
      <4> QED BY <2>2, <3>2, <4>4
    <3> QED BY <3>1, <3>2
  <2>4. hh = [s \in SUBSET (1..(k + 1)) |-> hh[s]] OBVIOUS
  <2> HIDE DEF hh
  <2>5. hh = [s \in SUBSET (1..(k + 1)) |-> Body(hh, s)] BY <2>3, <2>4
  <2> QED BY <2>5
<1>3. Exists(n)
  <2> HIDE DEF Exists
  <2>1. SUFFICES ASSUME T # {} PROVE FALSE OBVIOUS
  <2>2. PICK k \in T : \A i \in T : k <= i BY <2>1, LeastNumber
  <2>3. k # 0 BY <1>1, <2>2
  <2>4. k - 1 \in Nat /\ k - 1 \notin T BY <2>2, <2>3
  <2>5. Exists((k - 1) + 1) BY <1>2, <2>4
  <2>6. (k - 1) + 1 = k BY <2>2
  <2> QED BY <2>2, <2>5, <2>6
<1>4. F = [s \in SUBSET (1..n) |-> Body(F, s)]
  <2> HIDE DEF Body
  <2> QED BY <1>3
<1>5. ProcessTexts(base, seq) = F[1..n]
  BY DEF ProcessTexts, FoldLeft, MapThenFoldSet
<1> DEFINE g == [i \in 0..n |-> F[1..i]]
<1> HIDE DEF F
<1>6. g[0] = base
  <2>1. 1..0 = {} /\ {} \in SUBSET (1..n) OBVIOUS
  <2> QED BY <1>4, <2>1
<1>7. ASSUME NEW i \in 1..n PROVE g[i] = ProcessYAMLDocument(g[i - 1], seq[i])
  <2>1. 1..i \in SUBSET (1..n) /\ 1..i # {} /\ i \in Nat OBVIOUS
  <2>2. Max(1..i) \in 1..i /\ \A y \in 1..i : y <= Max(1..i) BY <2>1, MaxOf
  <2>3. Max(1..i) = i BY <2>2
  <2>4. (1..i) \ {i} = 1..(i - 1) OBVIOUS
  <2>5. F[1..i] = ProcessYAMLDocument(F[1..(i - 1)], seq[i])
    BY <1>4, <2>1, <2>3, <2>4
  <2> QED BY <2>5
<1>8. ProcessTexts(base, seq) = g[n] BY <1>5
<1> HIDE DEF g
<1> QED BY <1>6, <1>7, <1>8 DEF OneByOne

LEMMA FoldOfFiles ==
    ASSUME NEW seq, NEW n \in Nat, DOMAIN seq = 1..n
    PROVE  \E g : /\ g[0] = EmptyRelease
                  /\ \A i \in 1..n : g[i] = Process(g[i - 1], seq[i])
                  /\ ParseRelease(seq) = g[n]
<1> DEFINE Body(h, s) == IF s = {} THEN EmptyRelease ELSE Process(h[s \ {Max(s)}], seq[Max(s)])
           Exists(k) == \E h : h = [s \in SUBSET (1..k) |-> Body(h, s)]
           F == CHOOSE h : h = [s \in SUBSET (1..n) |-> Body(h, s)]
           T == {k \in Nat : ~Exists(k)}
<1>1. Exists(0)
  <2> DEFINE h == [s \in SUBSET (1..0) |-> EmptyRelease]
  <2>1. SUBSET (1..0) = {{}} OBVIOUS
  <2>2. h = [s \in SUBSET (1..0) |-> Body(h, s)] BY <2>1
  <2> QED BY <2>2
<1>2. ASSUME NEW k \in Nat, Exists(k) PROVE Exists(k + 1)
  <2>1. PICK h : h = [s \in SUBSET (1..k) |-> Body(h, s)] BY <1>2
  <2> DEFINE hh == [s \in SUBSET (1..(k + 1)) |-> Body(h, s)]
  <2>2. ASSUME NEW s \in SUBSET (1..k) PROVE hh[s] = h[s]
    <3>1. s \in SUBSET (1..(k + 1)) OBVIOUS
    <3> QED BY <2>1, <3>1
  <2>3. ASSUME NEW s \in SUBSET (1..(k + 1)) PROVE hh[s] = Body(hh, s)
    <3>1. CASE s = {} BY <3>1
    <3>2. CASE s # {}
      <4>1. k + 1 \in Nat OBVIOUS
      <4>2. Max(s) \in s /\ \A y \in s : y <= Max(s) BY <3>2, <4>1, MaxOf
      <4>3. ASSUME NEW y \in s \ {Max(s)} PROVE y \in 1..k
        <5>1. y \in 1..(k + 1) /\ Max(s) \in 1..(k + 1) /\ y <= Max(s) /\ y # Max(s) BY <4>2
        <5> QED BY <5>1
      <4>4. s \ {Max(s)} \in SUBSET (1..k) BY <4>3
      <4> QED BY <2>2, <3>2, <4>4
    <3> QED BY <3>1, <3>2
  <2>4. hh = [s \in SUBSET (1..(k + 1)) |-> hh[s]] OBVIOUS
  <2> HIDE DEF hh
  <2>5. hh = [s \in SUBSET (1..(k + 1)) |-> Body(hh, s)] BY <2>3, <2>4
  <2> QED BY <2>5
<1>3. Exists(n)
  <2> HIDE DEF Exists
  <2>1. SUFFICES ASSUME T # {} PROVE FALSE OBVIOUS
  <2>2. PICK k \in T : \A i \in T : k <= i BY <2>1, LeastNumber
  <2>3. k # 0 BY <1>1, <2>2
  <2>4. k - 1 \in Nat /\ k - 1 \notin T BY <2>2, <2>3
  <2>5. Exists((k - 1) + 1) BY <1>2, <2>4
  <2>6. (k - 1) + 1 = k BY <2>2
  <2> QED BY <2>2, <2>5, <2>6
<1>4. F = [s \in SUBSET (1..n) |-> Body(F, s)]
  <2> HIDE DEF Body
  <2> QED BY <1>3
<1>5. ParseRelease(seq) = F[1..n]
  BY DEF ParseRelease, FoldLeft, MapThenFoldSet
<1> DEFINE g == [i \in 0..n |-> F[1..i]]
<1> HIDE DEF F
<1>6. g[0] = EmptyRelease
  <2>1. 1..0 = {} /\ {} \in SUBSET (1..n) OBVIOUS
  <2> QED BY <1>4, <2>1
<1>7. ASSUME NEW i \in 1..n PROVE g[i] = Process(g[i - 1], seq[i])
  <2>1. 1..i \in SUBSET (1..n) /\ 1..i # {} /\ i \in Nat OBVIOUS
  <2>2. Max(1..i) \in 1..i /\ \A y \in 1..i : y <= Max(1..i) BY <2>1, MaxOf
  <2>3. Max(1..i) = i BY <2>2
  <2>4. (1..i) \ {i} = 1..(i - 1) OBVIOUS
  <2>5. F[1..i] = Process(F[1..(i - 1)], seq[i])
    BY <1>4, <2>1, <2>3, <2>4
  <2> QED BY <2>5
<1>8. ParseRelease(seq) = g[n] BY <1>5
<1> HIDE DEF g
<1> QED BY <1>6, <1>7, <1>8

-----------------------------------------------------------------------------
(* The release in the binary                                               *)

LEMMA SequenceType ==
    ASSUME NEW s, IsSequence(s)
    PROVE  /\ Len(s) \in Nat /\ DOMAIN s = 1..Len(s)
           /\ s # <<>> => 1 \in DOMAIN s
<1>1. Len(s) \in Nat /\ s = [i \in 1..Len(s) |-> s[i]] BY DEF IsSequence
<1>2. DOMAIN s = 1..Len(s) BY <1>1
<1>3. ASSUME s # <<>> PROVE 1 \in DOMAIN s
  <2> DEFINE S == {s[i] : i \in 1..Len(s)}
  <2>1. s \in [1..Len(s) -> S] BY <1>1
  <2>2. s \in Seq(S) BY <1>1, <2>1
  <2> HIDE DEF S
  <2>3. Len(s) # 0 BY <2>2, <1>3
  <2> QED BY <1>1, <1>2, <2>3
<1> QED BY <1>1, <1>2, <1>3

AreFiles(files) ==
    /\ IsSequence(files) /\ \A i \in DOMAIN files : IsSequence(files[i].docs)
    /\ \A d \in AllDocuments(files) : IsDocument(d)

Texts(files) ==
    {files[i].docs : i \in DOMAIN files} \cup {<<d>> : d \in AllDocuments(files)}
ReleaseSet(files) ==
    LET D == AllDocuments(files) \cup {None}
    IN  [application : D, appConfig : D, preflights : Seq(D), ecConfig : D, channel : D,
         backup : D, restore : D, charts : Seq(Texts(files)), archives : Nat, broken : BOOLEAN]

LEMMA TextType ==
    ASSUME NEW files, AreFiles(files), NEW text \in Texts(files), text # <<>>
    PROVE  text[1] \in AllDocuments(files)
<1>1. CASE \E i \in DOMAIN files : text = files[i].docs
  <2>1. PICK i \in DOMAIN files : text = files[i].docs BY <1>1
  <2>2. 1 \in DOMAIN files[i].docs BY <2>1, SequenceType DEF AreFiles
  <2> QED BY <2>1, <2>2 DEF AllDocuments
<1>2. CASE \E d \in AllDocuments(files) : text = <<d>> BY <1>2
<1> QED BY <1>1, <1>2 DEF Texts

LEMMA YAMLDocumentType ==
    ASSUME NEW files, AreFiles(files), NEW r \in ReleaseSet(files), NEW text \in Texts(files)
    PROVE  ProcessYAMLDocument(r, text) \in ReleaseSet(files)
<1>1. CASE text = <<>> BY <1>1 DEF ProcessYAMLDocument
<1>2. CASE text # <<>>
  <2> DEFINE D == AllDocuments(files) \cup {None}
             X == Texts(files)
             d == text[1]
  <2>1. d \in D BY <1>2, TextType
  <2>2. r \in [application : D, appConfig : D, preflights : Seq(D), ecConfig : D, channel : D,
               backup : D, restore : D, charts : Seq(X), archives : Nat, broken : BOOLEAN]
    BY DEF ReleaseSet
  <2>3. text \in X OBVIOUS
  <2> DEFINE P == ProcessYAMLDocument(r, text)
             Has(group) == {text[i].kind : i \in DOMAIN text} \cap group # {}
  <2>30. P = IF Has({"application"}) THEN [r EXCEPT !.application = d]
            ELSE IF Has(Kots) THEN [r EXCEPT !.appConfig = d]
            ELSE IF Has({"kurl-preflight"}) THEN r
            ELSE IF Has({"host-preflight"})
                 THEN IF d.kind = "host-preflight"
                      THEN [r EXCEPT !.preflights = Append(@, d)]
                      ELSE [r EXCEPT !.broken = TRUE]
            ELSE IF Has({"ec-config"}) THEN [r EXCEPT !.ecConfig = d]
            ELSE IF Has({"backup"}) THEN [r EXCEPT !.backup = d]
            ELSE IF Has({"restore"}) THEN [r EXCEPT !.restore = d]
            ELSE IF Has({"helm-chart"}) THEN [r EXCEPT !.charts = Append(@, text)]
            ELSE r
    BY <1>2 DEF ProcessYAMLDocument
  <2> HIDE DEF Has, P
  <2>4. \/ P = r
        \/ P = [r EXCEPT !.application = d]
        \/ P = [r EXCEPT !.appConfig = d]
        \/ P = [r EXCEPT !.preflights = Append(@, d)]
        \/ P = [r EXCEPT !.broken = TRUE]
        \/ P = [r EXCEPT !.ecConfig = d]
        \/ P = [r EXCEPT !.backup = d]
        \/ P = [r EXCEPT !.restore = d]
        \/ P = [r EXCEPT !.charts = Append(@, text)]
    BY <2>30
  <2> HIDE DEF D, X, d
  <2>40. Append(r.preflights, d) \in Seq(D) /\ Append(r.charts, text) \in Seq(X)
    <3>1. r.preflights \in Seq(D) /\ r.charts \in Seq(X) BY <2>2
    <3> QED BY <2>1, <2>3, <3>1
  <2> DEFINE R == [application : D, appConfig : D, preflights : Seq(D), ecConfig : D, channel : D,
                   backup : D, restore : D, charts : Seq(X), archives : Nat, broken : BOOLEAN]
  <2>5. ASSUME P = r PROVE P \in R BY <2>2, <2>5
  <2>6. ASSUME P = [r EXCEPT !.application = d] PROVE P \in R BY <2>1, <2>2, <2>6
  <2>7. ASSUME P = [r EXCEPT !.appConfig = d] PROVE P \in R BY <2>1, <2>2, <2>7
  <2>8. ASSUME P = [r EXCEPT !.preflights = Append(@, d)] PROVE P \in R BY <2>2, <2>40, <2>8
  <2>9. ASSUME P = [r EXCEPT !.broken = TRUE] PROVE P \in R BY <2>2, <2>9
  <2>10. ASSUME P = [r EXCEPT !.ecConfig = d] PROVE P \in R BY <2>1, <2>2, <2>10
  <2>11. ASSUME P = [r EXCEPT !.backup = d] PROVE P \in R BY <2>1, <2>2, <2>11
  <2>12. ASSUME P = [r EXCEPT !.restore = d] PROVE P \in R BY <2>1, <2>2, <2>12
  <2>13. ASSUME P = [r EXCEPT !.charts = Append(@, text)] PROVE P \in R BY <2>2, <2>40, <2>13
  <2>14. P \in R
    BY <2>4, <2>5, <2>6, <2>7, <2>8, <2>9, <2>10, <2>11, <2>12, <2>13
  <2> QED BY <2>14 DEF ReleaseSet, D, X, P
<1> QED BY <1>1, <1>2

LEMMA DocumentType ==
    ASSUME NEW files, AreFiles(files), NEW r \in ReleaseSet(files), NEW i \in DOMAIN files
    PROVE  ProcessDocument(r, files[i]) \in ReleaseSet(files)
<1> DEFINE f == files[i]
           marked == {j \in DOMAIN f.docs : f.docs[j].kind = "channel-release"}
           D == AllDocuments(files) \cup {None}
<1>1. marked # {} => f.docs[1] \in D
  <2>1. SUFFICES ASSUME marked # {} PROVE f.docs[1] \in D OBVIOUS
  <2>2. Len(f.docs) \in Nat /\ DOMAIN f.docs = 1..Len(f.docs) BY SequenceType DEF AreFiles
  <2>3. PICK j \in DOMAIN f.docs : TRUE BY <2>1
  <2>4. 1 \in DOMAIN f.docs BY <2>2, <2>3
  <2> QED BY <2>4 DEF AllDocuments
<1>2. \/ marked # {} /\ ProcessDocument(r, f) = [r EXCEPT !.channel = f.docs[1]]
      \/ ProcessDocument(r, f) = [r EXCEPT !.archives = @ + 1]
      \/ ProcessDocument(r, f) = r
  BY DEF ProcessDocument
<1> HIDE DEF f, marked
<1> QED BY <1>1, <1>2 DEF ReleaseSet, f

LEMMA FileType ==
    ASSUME NEW files, AreFiles(files), NEW r \in ReleaseSet(files), NEW i \in DOMAIN files
    PROVE  Process(r, files[i]) \in ReleaseSet(files)
<1> DEFINE f == files[i]
           base == ProcessDocument(r, f)
           seq == Documents(f)
<1>1. CASE r.broken BY <1>1 DEF Process
<1>2. CASE ~r.broken
  <2>1. base \in ReleaseSet(files) BY DocumentType
  <2>2. Len(f.docs) \in Nat /\ DOMAIN f.docs = 1..Len(f.docs) BY SequenceType DEF AreFiles
  <2>3. \E n \in Nat : DOMAIN seq = 1..n
    <3>1. CASE f.name = "yaml" /\ f.splits BY <3>1, <2>2 DEF Documents
    <3>2. CASE ~(f.name = "yaml" /\ f.splits)
      <4>1. DOMAIN seq = 1..1 BY <3>2 DEF Documents
      <4> QED BY <4>1
    <3> QED BY <3>1, <3>2
  <2>4. PICK n \in Nat : DOMAIN seq = 1..n BY <2>3
  <2>5. ASSUME NEW k \in 1..n PROVE seq[k] \in Texts(files)
    <3>1. CASE f.name = "yaml" /\ f.splits
      <4>1. k \in DOMAIN f.docs /\ seq[k] = <<f.docs[k]>> BY <3>1, <2>4 DEF Documents
      <4> QED BY <4>1 DEF Texts, AllDocuments
    <3>2. CASE ~(f.name = "yaml" /\ f.splits)
      <4>1. seq = <<f.docs>> BY <3>2 DEF Documents
      <4>2. k = 1
        <5>1. DOMAIN seq = 1..1 BY <4>1
        <5> QED BY <5>1, <2>4
      <4> QED BY <4>1, <4>2 DEF Texts
    <3> QED BY <3>1, <3>2
  <2> HIDE DEF base, seq
  <2>60. OneByOne(base, seq, n) BY <2>4, FoldOfDocuments
  <2>6. PICK g : /\ g[0] = base
                 /\ \A k \in 1..n : g[k] = ProcessYAMLDocument(g[k - 1], seq[k])
                 /\ ProcessTexts(base, seq) = g[n]
    BY <2>60 DEF OneByOne
  <2> DEFINE T == {k \in 0..n : g[k] \notin ReleaseSet(files)}
  <2>7. T = {}
    <3>1. SUFFICES ASSUME T # {} PROVE FALSE OBVIOUS
    <3>2. T \in SUBSET Nat OBVIOUS
    <3>3. PICK k \in T : \A l \in T : k <= l BY <3>1, <3>2, LeastNumber
    <3>4. k # 0 BY <2>1, <2>6
    <3>5. k \in 1..n /\ k - 1 \in 0..n /\ k - 1 \notin T BY <3>3, <3>4
    <3>6. g[k - 1] \in ReleaseSet(files) BY <3>5
    <3>7. g[k] \in ReleaseSet(files) BY <2>5, <2>6, <3>5, <3>6, YAMLDocumentType
    <3> QED BY <3>3, <3>7
  <2>8. g[n] \in ReleaseSet(files) BY <2>7
  <2>9. Process(r, f) = ProcessTexts(base, seq)
    BY <1>2 DEF Process, base, seq
  <2> QED BY <2>6, <2>8, <2>9
<1> QED BY <1>1, <1>2

LEMMA ReleaseType ==
    ASSUME NEW files, AreFiles(files)
    PROVE  ParseRelease(files) \in ReleaseSet(files)
<1> DEFINE n == Len(files)
<1>1. n \in Nat /\ DOMAIN files = 1..n BY SequenceType DEF AreFiles
<1> HIDE DEF n
<1>2. PICK g : /\ g[0] = EmptyRelease
               /\ \A i \in 1..n : g[i] = Process(g[i - 1], files[i])
               /\ ParseRelease(files) = g[n]
  BY <1>1, FoldOfFiles
<1>3. EmptyRelease \in ReleaseSet(files) BY DEF EmptyRelease, ReleaseSet
<1> DEFINE T == {i \in 0..n : g[i] \notin ReleaseSet(files)}
<1>4. T = {}
  <2>1. SUFFICES ASSUME T # {} PROVE FALSE OBVIOUS
  <2>2. T \in SUBSET Nat OBVIOUS
  <2>3. PICK k \in T : \A l \in T : k <= l BY <2>1, <2>2, LeastNumber
  <2>4. k # 0 BY <1>2, <1>3
  <2>5. k \in 1..n /\ k - 1 \in 0..n /\ k - 1 \notin T BY <2>3, <2>4, <1>1
  <2>6. g[k - 1] \in ReleaseSet(files) BY <2>5
  <2>7. g[k] \in ReleaseSet(files) BY <1>1, <1>2, <2>5, <2>6, FileType
  <2> QED BY <2>3, <2>7
<1>5. g[n] \in ReleaseSet(files) BY <1>1, <1>4
<1> QED BY <1>2, <1>5

-----------------------------------------------------------------------------
(* The inductive invariant                                                 *)

(* What the scenarios are, and what the binary makes of the vendor's files. *)
IsFlags(r) ==
    /\ {r.cidr, r.pods, r.services} \subseteq Entries \cup {None}
    /\ IsOverride(r.overrides)
    /\ r.proxy \in ProxyFlags
    /\ {"cmd", "cidr", "pods", "services", "proxy", "overrides", "dir"} \subseteq DOMAIN r
HostOK(h) ==
    /\ h.interfaces \in Seq(Interfaces) /\ h.routes \subseteq Blocks
    /\ {h.env.lower, h.env.upper} \subseteq ProxyFlags
    /\ {"interfaces", "env", "routes", "nft", "k0s", "state"} \subseteq DOMAIN h
    /\ h.state \in {"new", "confirm"}
GivenOK ==
    /\ IsVendor(vendor)
    /\ IsFlags(request) /\ request.cmd \in {"install", "restore"}
    /\ IsRequest(plan.request, "install")
    /\ request.cmd = "install" => request = plan.request
    /\ HostOK(host)
ReleaseOK ==
    /\ ~shipped => release = EmptyRelease /\ run = NoRun
    /\ shipped => \/ release = ParseRelease(vendor.files)
                  \/ request.cmd = "restore" /\ release = Later(ParseRelease(vendor.files))

(* How far the run is.                                                     *)
Unchecked == {"none", "flags", "networks"}
BeforeProxy == Unchecked \cup {"proxy"}
BeforeConfig == BeforeProxy \cup {"files", "runtime-config"}
Licensed == {"bundle", "update", "config", "proxy-warning", "password", "reporter", "preflights", "cluster"}
Matched == Licensed \ {"bundle"}
Reported == {"preflights", "cluster"}
ClearHost == IF request.cmd = "install" THEN Licensed \cup {"channel-release", "license"}
         ELSE {"store", "preflights", "cluster"}
LastStep == IF request.cmd = "install" THEN "cluster" ELSE "backups"

FlagNetworks ==
    CIDRConfig(GlobalCIDR, request.pods, request.services,
               [pods |-> DefaultPods, services |-> DefaultServices])
FlagBlocks == [pods |-> FlagNetworks.pods, services |-> FlagNetworks.services]
PatchedNetworks == ApplyUnsupportedOverrides(FlagBlocks)

ProgressOK ==
    /\ DOMAIN run = DOMAIN NoRun
    /\ run.step \in {"none"} \cup ToSet(StepsOf(request.cmd))
    /\ run.step = "none" => run = NoRun /\ request.cmd = "install"
    /\ run.outcome \in {"none", "accepted", "refused", "aborted", "crashed", "failed"}
    /\ run.outcome = "accepted" => run.step = LastStep
    /\ run.outcome = "failed" => run.step = "cluster" /\ request.cmd = "install"
    /\ run.tries \in 0..(MaxTries - 1)
    /\ run.reason # "cluster"
FlagsFit ==
    /\ request.cidr # None => request.pods = None /\ request.services = None
    /\ ValidateCIDR(GlobalCIDR)
NetworksOK ==
    /\ run.step \notin Unchecked => FlagsFit
    /\ run.reason = "networks" => ~FlagsFit
    /\ run.step \in BeforeConfig \ Unchecked => run.nets = FlagNetworks
    /\ run.step \notin BeforeProxy =>
          /\ ~run.proxy.err
          /\ run.proxy = ProxySpec(WithDefaults(request.proxy, host.env), FlagNetworks, Node(run.interface))
    /\ run.step \notin BeforeConfig =>
          /\ Node(run.interface) # None
          /\ run.nets = [pods |-> PatchedNetworks.pods, services |-> PatchedNetworks.services,
                         global |-> FlagNetworks.global]
PartsOK ==
    request.cmd = "install" =>
        /\ run.step \in Licensed =>
              /\ (Rel = None) = (request.license = None)
              /\ Rel # None => request.license.app = Rel.app /\ ChannelExists(request.license)
        /\ run.step \in Matched /\ Airgap /\ request.bundle.info # None =>
              /\ Rel # None
              /\ request.bundle.info.app = Rel.app /\ request.bundle.info.channel = Rel.channel
        /\ run.step \in Reported => request.license # None
HostK0sOK ==
    /\ run.step \in ClearHost /\ run.outcome \notin {"accepted", "failed"} => host.k0s = None
    /\ run.step = "cluster" /\ run.outcome \in {"accepted", "failed"} => host.k0s = K0sConfig
    /\ run.step = "backups" => Said("resume", "yes") \/ host.k0s = K0sConfig
    /\ run.step = "cluster" => /\ Parsable
                               /\ ~request.skip /\ ~request.ignore => NetworksAvailable

(* What the cluster is made of.                                            *)
Plain == plan.request.overrides = None /\ Config(release).overrides = None
ClusterOK ==
    cluster # None =>
          /\ run # NoRun
          /\ DOMAIN cluster = {"nets", "global", "proxy", "nodes", "dir", "airgap", "app", "version"}
          /\ cluster.nets = [pods |-> cluster.nets.pods, services |-> cluster.nets.services]
          /\ cluster.nodes # {} /\ {cluster.nets.pods, cluster.nets.services} \subseteq Entries
          /\ HasProxy(cluster.proxy) => \A n \in cluster.nodes : NoProxyHasLocalIP(cluster.proxy.list, n.base)
          /\ HasProxy(cluster.proxy) /\ Plain =>
                {cluster.nets.pods, cluster.nets.services} \subseteq ToSet(cluster.proxy.list)
          /\ cluster.global # None => cluster.global \in Entries /\ ValidateCIDR(cluster.global)
          /\ cluster.airgap = installation.airgap
          /\ cluster.airgap =>
                /\ installation.rc.services = cluster.nets.services
                /\ LowerBandIP(cluster.nets.services, RegistryIndex) # None
BackupOK ==
    /\ request.cmd = "restore" => backup # None
    /\ backup # None =>
          /\ cluster # None
          /\ backup = [nets |-> cluster.nets, dir |-> cluster.dir, airgap |-> cluster.airgap,
                       app |-> cluster.app, version |-> cluster.version]

(* The advice of a restore, and the one that follows it.                   *)
Supernet == NetworksAreAdjacentAndSameSize(backup.nets.pods, backup.nets.services)
AdviceOK ==
    /\ run.step = "backups" /\ run.outcome = "accepted" => Mismatch.reason = "none"
    /\ run.advice # None => /\ run.step = "backups" /\ run.outcome = "refused"
                            /\ run.advice = Mismatch.advice
    /\ advised # None =>
          LET a == advised.advice IN
          /\ request.cmd = "restore" /\ a # None
          /\ \/ /\ a = [flag |-> "cidr", value |-> Supernet] /\ Supernet # None
                /\ request.cidr = Supernet /\ request.pods = None /\ request.services = None
             \/ a = [flag |-> "pods-and-services", value |-> backup.nets] /\ Supernet = None
             \/ /\ a = [flag |-> "dir", value |-> [dir |-> backup.dir]] /\ request.dir = backup.dir
                /\ FlagsFit
          /\ advised.reset =>
                /\ run.step # "backups" => host.state = "new"
                /\ run.step = "backups" => host.k0s = K0sConfig

(* The values of charts, as options that differ in what may differ.        *)
UserChartsOf(r) == IF r.overrides = None THEN {} ELSE r.overrides.charts
OptionsWith(ha, user, domains) ==
    [rc |-> installation.rc, airgap |-> installation.airgap, ha |-> ha,
     dr |-> installation.license.dr, multi |-> installation.license.multi,
     config |-> Config(release), user |-> user, domains |-> domains]
FirstOptions == OptionsWith(FALSE, UserChartsOf(plan.request), GetDomains(release))
Current(chart) ==
    \E ha \in BOOLEAN, user \in {{}, UserChartsOf(plan.request)},
       domains \in {GetDomains(release), GetDomains(Recorded(installation))} :
        addons.values[chart] = ValuesOf(OptionsWith(ha, user, domains), chart)
ValuesOK ==
    cluster # None =>
        /\ DOMAIN installation = {"airgap", "ha", "config", "rc", "license"}
        /\ installation.config = release.ecConfig /\ installation.ha \in BOOLEAN
        /\ DOMAIN addons = {"values", "first", "registries", "secret"}
        /\ addons.first = Values(FirstOptions)
        /\ DOMAIN addons.first \subseteq DOMAIN addons.values
        /\ \A chart \in DOMAIN addons.first : Current(chart)
        /\ installation.airgap =>
              LET ip == RegistryClusterIP(installation.rc.services)
              IN  addons.registries = {ip} /\ addons.secret = ip

(* What ran, and what could not be passed over.                            *)
AppOK ==
    /\ app # None => run # NoRun
    /\ Running =>
        /\ DOMAIN app = {"first", "current", "status", "done", "k8s", "uploaded"}
        /\ HasApp
        /\ app.first \in Updates /\ app.current \in Updates /\ app.done \subseteq Updates
        /\ app.status \in {"deployed", "failed"} /\ app.uploaded \in Updates \cup {None}
        /\ app.status = "deployed" => app.current \in app.done

(* What lint has looked at.                                                *)
LintedPlugins(j) == PluginErrors(LintedConfig(vendor.files[Args[j]]).plugins) = {}
LintedDomains(j) ==
    vendor.api => \E found \in SUBSET KnownTo(Portal) :
                     DomainErrors(LintedConfig(vendor.files[Args[j]]), found) = {}
LintOK ==
    /\ DOMAIN lint = DOMAIN NoLint
    /\ lint.step \in {"none", "file", "channels", "releases", "hostnames", "app", "end", "done"}
    /\ lint.outcome \in {"none", "passed", "failed"}
    /\ lint.file \in 0..Len(Args)
    /\ lint.step = "none" => lint.file = 0
    /\ lint.step \notin {"none", "end", "done"} => lint.file # 0
    /\ lint.step \in {"end", "done"} => lint.file = Len(Args)
    /\ lint.errors \in BOOLEAN /\ (lint.outcome = "passed" => lint.step = "done" /\ ~lint.errors)
    /\ lint.channels \subseteq DOMAIN Portal.channels
    /\ lint.found \subseteq KnownTo(Portal)
    /\ ~lint.errors =>
          /\ \A j \in 1..(lint.file - 1) : LintedPlugins(j) /\ LintedDomains(j)
          /\ lint.step \notin {"none", "file"} => LintedPlugins(lint.file)
          /\ lint.step \in {"end", "done"} => LintedDomains(lint.file)

DeliveryInv ==
    /\ GivenOK /\ ReleaseOK
    /\ ProgressOK /\ NetworksOK /\ PartsOK /\ HostK0sOK
    /\ ClusterOK /\ BackupOK /\ AdviceOK
    /\ ValuesOK
    /\ AppOK /\ RequiredHaveRun /\ KubernetesByStep
    /\ LintOK

-----------------------------------------------------------------------------
(* The steps of a run                                                      *)

Follows(cmd, s, t) ==
    IF cmd = "install"
    THEN \/ s = "flags" /\ t = "networks"
         \/ s = "networks" /\ t = "proxy"
         \/ s = "proxy" /\ t = "files"
         \/ s = "files" /\ t = "runtime-config"
         \/ s = "runtime-config" /\ t = "root"
         \/ s = "root" /\ t = "installed"
         \/ s = "installed" /\ t = "channel-release"
         \/ s = "channel-release" /\ t = "license"
         \/ s = "license" /\ t = "bundle"
         \/ s = "bundle" /\ t = "update"
         \/ s = "update" /\ t = "config"
         \/ s = "config" /\ t = "proxy-warning"
         \/ s = "proxy-warning" /\ t = "password"
         \/ s = "password" /\ t = "reporter"
         \/ s = "reporter" /\ t = "preflights"
         \/ s = "preflights" /\ t = "cluster"
    ELSE \/ s = "flags" /\ t = "networks"
         \/ s = "networks" /\ t = "proxy"
         \/ s = "proxy" /\ t = "files"
         \/ s = "files" /\ t = "runtime-config"
         \/ s = "runtime-config" /\ t = "root"
         \/ s = "root" /\ t = "channel-release"
         \/ s = "channel-release" /\ t = "bundle"
         \/ s = "bundle" /\ t = "resume"
         \/ s = "resume" /\ t = "installed"
         \/ s = "installed" /\ t = "store"
         \/ s = "store" /\ t = "preflights"
         \/ s = "preflights" /\ t = "cluster"
         \/ s = "cluster" /\ t = "backups"

LEMMA StepsOfInstall ==
    /\ DOMAIN InstallSteps = 1..17 /\ Len(InstallSteps) = 17
    /\ InstallSteps[1] = "flags" /\ InstallSteps[2] = "networks" /\ InstallSteps[3] = "proxy"
    /\ InstallSteps[4] = "files" /\ InstallSteps[5] = "runtime-config" /\ InstallSteps[6] = "root"
    /\ InstallSteps[7] = "installed" /\ InstallSteps[8] = "channel-release" /\ InstallSteps[9] = "license"
    /\ InstallSteps[10] = "bundle" /\ InstallSteps[11] = "update" /\ InstallSteps[12] = "config"
    /\ InstallSteps[13] = "proxy-warning" /\ InstallSteps[14] = "password" /\ InstallSteps[15] = "reporter"
    /\ InstallSteps[16] = "preflights" /\ InstallSteps[17] = "cluster"
  BY DEF InstallSteps

LEMMA StepsOfRestore ==
    /\ DOMAIN RestoreSteps = 1..14 /\ Len(RestoreSteps) = 14
    /\ RestoreSteps[1] = "flags" /\ RestoreSteps[2] = "networks" /\ RestoreSteps[3] = "proxy"
    /\ RestoreSteps[4] = "files" /\ RestoreSteps[5] = "runtime-config" /\ RestoreSteps[6] = "root"
    /\ RestoreSteps[7] = "channel-release" /\ RestoreSteps[8] = "bundle" /\ RestoreSteps[9] = "resume"
    /\ RestoreSteps[10] = "installed" /\ RestoreSteps[11] = "store" /\ RestoreSteps[12] = "preflights"
    /\ RestoreSteps[13] = "cluster" /\ RestoreSteps[14] = "backups"
  BY DEF RestoreSteps

LEMMA StepsAreDistinct ==
    ASSUME NEW cmd \in {"install", "restore"},
           NEW i \in DOMAIN StepsOf(cmd), NEW j \in DOMAIN StepsOf(cmd), i # j
    PROVE  StepsOf(cmd)[i] # StepsOf(cmd)[j]
<1>1. CASE cmd = "install"
  <2>1. StepsOf(cmd) = InstallSteps BY <1>1 DEF StepsOf
  <2>2. i \in 1..17 /\ j \in 1..17 BY <2>1, StepsOfInstall
  <2> QED BY <2>1, <2>2, StepsOfInstall
<1>2. CASE cmd = "restore"
  <2>1. StepsOf(cmd) = RestoreSteps BY <1>2 DEF StepsOf
  <2>2. i \in 1..14 /\ j \in 1..14 BY <2>1, StepsOfRestore
  <2> QED BY <2>1, <2>2, StepsOfRestore
<1> QED BY <1>1, <1>2

LEMMA StepsInOrder ==
    ASSUME NEW cmd \in {"install", "restore"}, NEW i \in DOMAIN StepsOf(cmd)
    PROVE  /\ i = Len(StepsOf(cmd)) =>
                  StepsOf(cmd)[i] = IF cmd = "install" THEN "cluster" ELSE "backups"
           /\ i # Len(StepsOf(cmd)) => Follows(cmd, StepsOf(cmd)[i], StepsOf(cmd)[i + 1])
<1>1. CASE cmd = "install"
  <2>1. StepsOf(cmd) = InstallSteps BY <1>1 DEF StepsOf
  <2>2. i \in 1..17 BY <2>1, StepsOfInstall
  <2>3. i = 17 => InstallSteps[i] = "cluster" BY StepsOfInstall
  <2>4. i = 1 => Follows(cmd, InstallSteps[i], InstallSteps[i + 1]) BY <1>1, StepsOfInstall DEF Follows
  <2>5. i = 2 => Follows(cmd, InstallSteps[i], InstallSteps[i + 1]) BY <1>1, StepsOfInstall DEF Follows
  <2>6. i = 3 => Follows(cmd, InstallSteps[i], InstallSteps[i + 1]) BY <1>1, StepsOfInstall DEF Follows
  <2>7. i = 4 => Follows(cmd, InstallSteps[i], InstallSteps[i + 1]) BY <1>1, StepsOfInstall DEF Follows
  <2>8. i = 5 => Follows(cmd, InstallSteps[i], InstallSteps[i + 1]) BY <1>1, StepsOfInstall DEF Follows
  <2>9. i = 6 => Follows(cmd, InstallSteps[i], InstallSteps[i + 1]) BY <1>1, StepsOfInstall DEF Follows
  <2>10. i = 7 => Follows(cmd, InstallSteps[i], InstallSteps[i + 1]) BY <1>1, StepsOfInstall DEF Follows
  <2>11. i = 8 => Follows(cmd, InstallSteps[i], InstallSteps[i + 1]) BY <1>1, StepsOfInstall DEF Follows
  <2>12. i = 9 => Follows(cmd, InstallSteps[i], InstallSteps[i + 1]) BY <1>1, StepsOfInstall DEF Follows
  <2>13. i = 10 => Follows(cmd, InstallSteps[i], InstallSteps[i + 1]) BY <1>1, StepsOfInstall DEF Follows
  <2>14. i = 11 => Follows(cmd, InstallSteps[i], InstallSteps[i + 1]) BY <1>1, StepsOfInstall DEF Follows
  <2>15. i = 12 => Follows(cmd, InstallSteps[i], InstallSteps[i + 1]) BY <1>1, StepsOfInstall DEF Follows
  <2>16. i = 13 => Follows(cmd, InstallSteps[i], InstallSteps[i + 1]) BY <1>1, StepsOfInstall DEF Follows
  <2>17. i = 14 => Follows(cmd, InstallSteps[i], InstallSteps[i + 1]) BY <1>1, StepsOfInstall DEF Follows
  <2>18. i = 15 => Follows(cmd, InstallSteps[i], InstallSteps[i + 1]) BY <1>1, StepsOfInstall DEF Follows
  <2>19. i = 16 => Follows(cmd, InstallSteps[i], InstallSteps[i + 1]) BY <1>1, StepsOfInstall DEF Follows
  <2>20. i # 17 => Follows(cmd, InstallSteps[i], InstallSteps[i + 1])
    BY <2>2, <2>4, <2>5, <2>6, <2>7, <2>8, <2>9, <2>10, <2>11, <2>12, <2>13, <2>14, <2>15, <2>16,
       <2>17, <2>18, <2>19
  <2>21. Len(InstallSteps) = 17 BY StepsOfInstall
  <2> QED BY <1>1, <2>1, <2>3, <2>20, <2>21
<1>2. CASE cmd = "restore"
  <2>1. StepsOf(cmd) = RestoreSteps BY <1>2 DEF StepsOf
  <2>2. i \in 1..14 BY <2>1, StepsOfRestore
  <2>3. i = 14 => RestoreSteps[i] = "backups" BY StepsOfRestore
  <2>4. i = 1 => Follows(cmd, RestoreSteps[i], RestoreSteps[i + 1]) BY <1>2, StepsOfRestore DEF Follows
  <2>5. i = 2 => Follows(cmd, RestoreSteps[i], RestoreSteps[i + 1]) BY <1>2, StepsOfRestore DEF Follows
  <2>6. i = 3 => Follows(cmd, RestoreSteps[i], RestoreSteps[i + 1]) BY <1>2, StepsOfRestore DEF Follows
  <2>7. i = 4 => Follows(cmd, RestoreSteps[i], RestoreSteps[i + 1]) BY <1>2, StepsOfRestore DEF Follows
  <2>8. i = 5 => Follows(cmd, RestoreSteps[i], RestoreSteps[i + 1]) BY <1>2, StepsOfRestore DEF Follows
  <2>9. i = 6 => Follows(cmd, RestoreSteps[i], RestoreSteps[i + 1]) BY <1>2, StepsOfRestore DEF Follows
  <2>10. i = 7 => Follows(cmd, RestoreSteps[i], RestoreSteps[i + 1]) BY <1>2, StepsOfRestore DEF Follows
  <2>11. i = 8 => Follows(cmd, RestoreSteps[i], RestoreSteps[i + 1]) BY <1>2, StepsOfRestore DEF Follows
  <2>12. i = 9 => Follows(cmd, RestoreSteps[i], RestoreSteps[i + 1]) BY <1>2, StepsOfRestore DEF Follows
  <2>13. i = 10 => Follows(cmd, RestoreSteps[i], RestoreSteps[i + 1]) BY <1>2, StepsOfRestore DEF Follows
  <2>14. i = 11 => Follows(cmd, RestoreSteps[i], RestoreSteps[i + 1]) BY <1>2, StepsOfRestore DEF Follows
  <2>15. i = 12 => Follows(cmd, RestoreSteps[i], RestoreSteps[i + 1]) BY <1>2, StepsOfRestore DEF Follows
  <2>16. i = 13 => Follows(cmd, RestoreSteps[i], RestoreSteps[i + 1]) BY <1>2, StepsOfRestore DEF Follows
  <2>17. i # 14 => Follows(cmd, RestoreSteps[i], RestoreSteps[i + 1])
    BY <2>2, <2>4, <2>5, <2>6, <2>7, <2>8, <2>9, <2>10, <2>11, <2>12, <2>13, <2>14, <2>15, <2>16
  <2>18. Len(RestoreSteps) = 14 BY StepsOfRestore
  <2> QED BY <1>2, <2>1, <2>3, <2>17, <2>18
<1> QED BY <1>1, <1>2

(* What Go leaves of what it is given.                                     *)
Moved(r, q) ==
    /\ DOMAIN q = DOMAIN NoRun
    /\ q.interface = r.interface /\ q.nets = r.nets /\ q.proxy = r.proxy /\ q.k0s = r.k0s
    /\ q.asked = r.asked /\ q.tries = r.tries /\ q.reason = r.reason /\ q.advice = r.advice
Advanced(cmd, s, o, t, p) ==
    \/ s = (IF cmd = "install" THEN "cluster" ELSE "backups") /\ t = s /\ p = "accepted"
    \/ Follows(cmd, s, t) /\ p = o

LEMMA GoMoves ==
    ASSUME NEW r, DOMAIN r = DOMAIN NoRun, request.cmd \in {"install", "restore"},
           r.step \in ToSet(StepsOf(request.cmd)), Go(r)
    PROVE  Moved(r, run') /\ Advanced(request.cmd, r.step, r.outcome, run'.step, run'.outcome)
<1> DEFINE steps == StepsOf(request.cmd)
           i == CHOOSE j \in DOMAIN steps : steps[j] = r.step
<1>1. \E j \in DOMAIN steps : steps[j] = r.step BY DEF ToSet
<1>2. i \in DOMAIN steps /\ steps[i] = r.step BY <1>1
<1>3. run' = IF i = Len(steps) THEN [r EXCEPT !.outcome = "accepted"]
             ELSE [r EXCEPT !.step = steps[i + 1]]
  BY DEF Go
<1>4. /\ i = Len(steps) => steps[i] = IF request.cmd = "install" THEN "cluster" ELSE "backups"
      /\ i # Len(steps) => Follows(request.cmd, steps[i], steps[i + 1])
  BY <1>2, StepsInOrder
<1> HIDE DEF steps, i
<1>5. DOMAIN r = {"step", "interface", "nets", "proxy", "k0s", "asked", "tries", "password",
                  "outcome", "reason", "advice"}
  BY DEF NoRun
<1>6. CASE i = Len(steps)
  <2>1. run' = [r EXCEPT !.outcome = "accepted"] BY <1>3, <1>6
  <2>2. run'.step = r.step /\ run'.outcome = "accepted" BY <2>1, <1>5
  <2>3. Moved(r, run') BY <2>1, <1>5 DEF Moved
  <2> QED BY <1>2, <1>4, <1>6, <2>2, <2>3 DEF Advanced
<1>7. CASE i # Len(steps)
  <2>1. run' = [r EXCEPT !.step = steps[i + 1]] BY <1>3, <1>7
  <2>2. run'.step = steps[i + 1] /\ run'.outcome = r.outcome BY <2>1, <1>5
  <2>3. Moved(r, run') BY <2>1, <1>5 DEF Moved
  <2> QED BY <1>2, <1>4, <1>7, <2>2, <2>3 DEF Advanced
<1> QED BY <1>6, <1>7

-----------------------------------------------------------------------------
(* What a check does to the run                                            *)

RunFields == {"step", "interface", "nets", "proxy", "k0s", "asked", "tries", "password",
              "outcome", "reason", "advice"}
OnCourse ==
    /\ DOMAIN run = DOMAIN NoRun /\ request.cmd \in {"install", "restore"}
    /\ run.step \in ToSet(StepsOf(request.cmd)) /\ run.outcome = "none"
    /\ run.tries \in 0..(MaxTries - 1) /\ run.reason # "cluster"
Same == run'.interface = run.interface /\ run'.nets = run.nets /\ run'.proxy = run.proxy
Further ==
    /\ DOMAIN run' = DOMAIN NoRun /\ run'.advice = run.advice /\ run.asked \subseteq run'.asked
    /\ run'.tries \in 0..(MaxTries - 1)
Passed(s) == run.step = s /\ Advanced(request.cmd, s, "none", run'.step, run'.outcome)
Ended(reason) ==
    /\ Further /\ Same /\ run'.step = run.step
    /\ run'.outcome \in {"refused", "aborted", "crashed"} /\ run'.reason = reason
Going(s) == Further /\ Same /\ Passed(s) /\ run'.reason = run.reason

LEMMA RunDomain == DOMAIN NoRun = RunFields
  BY DEF NoRun, RunFields

LEMMA GoOn ==
    ASSUME OnCourse, NEW s, run.step = s, Go(run)
    PROVE  Going(s)
<1>1. Moved(run, run') /\ Advanced(request.cmd, run.step, run.outcome, run'.step, run'.outcome)
  BY GoMoves DEF OnCourse
<1> QED BY <1>1 DEF OnCourse, Moved, Going, Further, Same, Passed

LEMMA RefuseEnds ==
    ASSUME OnCourse, NEW o \in {"refused", "aborted", "crashed"}, NEW reason, Stop(run, o, reason)
    PROVE  Ended(reason)
<1>1. run' = [run EXCEPT !.outcome = o, !.reason = reason] BY DEF Stop
<1>2. DOMAIN run = RunFields BY RunDomain DEF OnCourse
<1> QED BY <1>1, <1>2, RunDomain DEF OnCourse, Ended, Further, Same, RunFields

LEMMA AskedFields ==
    ASSUME OnCourse, NEW question, NEW answer
    PROVE  LET r == Asked(question, answer)
           IN  /\ DOMAIN r = DOMAIN NoRun /\ r.asked = run.asked \cup {<<question, answer>>}
               /\ r.step = run.step /\ r.interface = run.interface /\ r.nets = run.nets
               /\ r.proxy = run.proxy /\ r.tries = run.tries /\ r.outcome = run.outcome
               /\ r.reason = run.reason /\ r.advice = run.advice
  BY RunDomain DEF OnCourse, Asked, RunFields

LEMMA AskedGoes ==
    ASSUME OnCourse, NEW s, run.step = s, NEW question, NEW answer, Go(Asked(question, answer))
    PROVE  Going(s)
<1> DEFINE r == Asked(question, answer)
<1>1. /\ DOMAIN r = DOMAIN NoRun /\ r.asked = run.asked \cup {<<question, answer>>}
      /\ r.step = run.step /\ r.interface = run.interface /\ r.nets = run.nets
      /\ r.proxy = run.proxy /\ r.tries = run.tries /\ r.outcome = run.outcome
      /\ r.reason = run.reason /\ r.advice = run.advice
  BY AskedFields
<1> HIDE DEF r
<1>2. Go(r) BY DEF r
<1>3. Moved(r, run') /\ Advanced(request.cmd, r.step, r.outcome, run'.step, run'.outcome)
  BY <1>1, <1>2, GoMoves DEF OnCourse
<1> QED BY <1>1, <1>3 DEF OnCourse, Moved, Going, Further, Same, Passed

LEMMA AskedEnds ==
    ASSUME OnCourse, NEW question, NEW answer, NEW o \in {"refused", "aborted", "crashed"}, NEW reason,
           Stop(Asked(question, answer), o, reason)
    PROVE  Ended(reason)
<1> DEFINE r == Asked(question, answer)
<1>1. /\ DOMAIN r = DOMAIN NoRun /\ r.asked = run.asked \cup {<<question, answer>>}
      /\ r.step = run.step /\ r.interface = run.interface /\ r.nets = run.nets
      /\ r.proxy = run.proxy /\ r.tries = run.tries /\ r.outcome = run.outcome
      /\ r.reason = run.reason /\ r.advice = run.advice
  BY AskedFields
<1>2. run' = [r EXCEPT !.outcome = o, !.reason = reason] BY DEF Stop
<1> HIDE DEF r
<1>3. DOMAIN r = RunFields BY <1>1, RunDomain
<1> QED BY <1>1, <1>2, <1>3, RunDomain DEF OnCourse, Ended, Further, Same, RunFields

LEMMA AskMoves ==
    ASSUME OnCourse, NEW s, run.step = s, NEW question, Ask(question)
    PROVE  Going(s) \/ Ended(question)
  BY AskedGoes, AskedEnds DEF Ask

LEMMA RequireMoves ==
    ASSUME OnCourse, NEW s, run.step = s, NEW ok, Require(ok, run)
    PROVE  (ok /\ Going(s)) \/ Ended(s)
<1>1. CASE ok BY <1>1, GoOn DEF Require
<1>2. CASE ~ok BY <1>2, RefuseEnds DEF Require, Refuse
<1> QED BY <1>1, <1>2

(* Every check is one of these.                                            *)
Settled(s) == Further /\ Passed(s) /\ run'.reason = run.reason
Quietly == {"files", "root", "channel-release", "update", "config", "proxy-warning", "password",
            "resume", "store"}
ItEnds ==
    \E reason :
        /\ Ended(reason)
        /\ reason = "cluster" => run.step = "cluster" /\ host.k0s # None
        /\ reason = "networks" => ~FlagsFit
ItRepeats ==
    Further /\ Same /\ run'.step = run.step /\ run'.outcome = "none" /\ run'.reason = run.reason
NetworksPass ==
    /\ Settled("networks") /\ run'.nets = FlagNetworks /\ FlagsFit
ProxyPasses ==
    LET spec == ProxySpec(WithDefaults(request.proxy, host.env), run.nets, Node(run.interface))
    IN  /\ Settled("proxy") /\ run'.proxy = spec /\ ~spec.err
        /\ run'.interface = run.interface /\ run'.nets = run.nets
RuntimeConfigPasses ==
    /\ Settled("runtime-config") /\ Node(run.interface) # None
    /\ run'.nets = [run.nets EXCEPT !.pods = K0sConfig.nets.pods, !.services = K0sConfig.nets.services]
    /\ run'.interface = run.interface /\ run'.proxy = run.proxy
LicensePasses ==
    /\ Going("license")
    /\ (Rel = None) = (request.license = None)
    /\ Rel # None => request.license.app = Rel.app /\ ChannelExists(request.license)
BundlePasses ==
    /\ Going("bundle")
    /\ Airgap /\ request.bundle.info # None =>
          /\ Rel # None
          /\ request.bundle.info.app = Rel.app /\ request.bundle.info.channel = Rel.channel
ItResumes ==
    /\ Further /\ Same /\ run'.reason = run.reason
    /\ run.step = "resume" /\ run'.step = "backups" /\ run'.outcome = "none"
    /\ <<"resume", "yes">> \in run'.asked /\ host.state # "new"
PreflightsPass ==
    /\ Going("preflights") /\ Parsable
    /\ ~request.skip /\ ~request.ignore => NetworksAvailable
ClusterPasses ==
    /\ Going("cluster") /\ host.k0s = None
    /\ host' = [host EXCEPT !.k0s = K0sConfig]
HostKept ==
    \/ ItEnds \/ ItRepeats \/ \E s \in Quietly : Going(s)
    \/ Settled("flags") \/ NetworksPass \/ ProxyPasses \/ RuntimeConfigPasses
    \/ Going("installed") /\ host.k0s = None
    \/ LicensePasses \/ BundlePasses
    \/ Going("reporter") /\ request.license # None
    \/ ItResumes \/ PreflightsPass

LEMMA CheckSummary ==
    ASSUME OnCourse, CheckNext
    PROVE  /\ UNCHANGED <<release, request>>
           /\ (UNCHANGED host /\ HostKept) \/ ClusterPasses
<1>1. CASE CheckFlags
  <2> DEFINE ok == /\ request.tls \in {"none", "pair", "mismatch"}
                   /\ ~SamePort(request.ports.manager, request.ports.admin)
                   /\ ~SamePort(request.ports.mirror, request.ports.admin)
             x == IF request.interface = None THEN BestInterface(host) ELSE request.interface
             r == [run EXCEPT !.interface = x]
  <2>1. At("flags") /\ Require(ok, r) /\ still BY <1>1 DEF CheckFlags
  <2> HIDE DEF ok, x
  <2>2. CASE ok
    <3>1. Go(r) BY <2>1, <2>2 DEF Require
    <3>2. DOMAIN run = RunFields BY RunDomain DEF OnCourse
    <3>3. /\ DOMAIN r = DOMAIN NoRun /\ r.step = run.step /\ r.outcome = run.outcome /\ r.asked = run.asked
          /\ r.tries = run.tries /\ r.reason = run.reason /\ r.advice = run.advice
      BY <3>2, RunDomain DEF RunFields
    <3> HIDE DEF r
    <3>4. Moved(r, run') /\ Advanced(request.cmd, r.step, r.outcome, run'.step, run'.outcome)
      BY <3>1, <3>3, GoMoves DEF OnCourse
    <3>5. Settled("flags")
      BY <2>1, <3>3, <3>4 DEF At, OnCourse, Moved, Settled, Further, Passed
    <3> QED BY <2>1, <3>5 DEF HostKept, still
  <2>3. CASE ~ok
    <3>1. Ended("flags") BY <2>1, <2>3, RefuseEnds DEF Require, Refuse, At
    <3>2. ItEnds BY <3>1 DEF ItEnds
    <3> QED BY <2>1, <3>2 DEF HostKept, still
  <2> QED BY <2>2, <2>3
<1>2. CASE CheckNetworks
  <2> DEFINE ok == FlagsFit
             r == [run EXCEPT !.nets = FlagNetworks]
  <2>1. At("networks") /\ Require(ok, r) /\ still BY <1>2 DEF CheckNetworks, FlagNetworks, FlagsFit
  <2> HIDE DEF ok
  <2>2. CASE ok
    <3>1. Go(r) BY <2>1, <2>2 DEF Require
    <3>2. DOMAIN run = RunFields BY RunDomain DEF OnCourse
    <3>3. /\ DOMAIN r = DOMAIN NoRun /\ r.step = run.step /\ r.outcome = run.outcome /\ r.asked = run.asked
          /\ r.tries = run.tries /\ r.reason = run.reason /\ r.advice = run.advice
          /\ r.nets = FlagNetworks
      BY <3>2, RunDomain DEF RunFields
    <3> HIDE DEF r
    <3>4. Moved(r, run') /\ Advanced(request.cmd, r.step, r.outcome, run'.step, run'.outcome)
      BY <3>1, <3>3, GoMoves DEF OnCourse
    <3>5. Settled("networks") /\ run'.nets = FlagNetworks
      BY <2>1, <3>3, <3>4 DEF At, OnCourse, Moved, Settled, Further, Passed
    <3>6. NetworksPass BY <2>2, <3>5 DEF NetworksPass, ok
    <3> QED BY <2>1, <3>6 DEF HostKept, still
  <2>3. CASE ~ok
    <3>1. Ended("networks") BY <2>1, <2>3, RefuseEnds DEF Require, Refuse, At
    <3>2. ItEnds BY <2>3, <3>1 DEF ItEnds, ok
    <3> QED BY <2>1, <3>2 DEF HostKept, still
  <2> QED BY <2>2, <2>3
<1>3. CASE CheckProxy
  <2> DEFINE spec == ProxySpec(WithDefaults(request.proxy, host.env), run.nets, Node(run.interface))
             r == [run EXCEPT !.proxy = spec]
  <2>1. At("proxy") /\ Require(~spec.err, r) /\ still BY <1>3 DEF CheckProxy
  <2> HIDE DEF spec
  <2>2. CASE ~spec.err
    <3>1. Go(r) BY <2>1, <2>2 DEF Require
    <3>2. DOMAIN run = RunFields BY RunDomain DEF OnCourse
    <3>3. /\ DOMAIN r = DOMAIN NoRun /\ r.step = run.step /\ r.outcome = run.outcome /\ r.asked = run.asked
          /\ r.tries = run.tries /\ r.reason = run.reason /\ r.advice = run.advice
          /\ r.proxy = spec /\ r.nets = run.nets /\ r.interface = run.interface
      BY <3>2, RunDomain DEF RunFields
    <3> HIDE DEF r
    <3>4. Moved(r, run') /\ Advanced(request.cmd, r.step, r.outcome, run'.step, run'.outcome)
      BY <3>1, <3>3, GoMoves DEF OnCourse
    <3>5. /\ Settled("proxy") /\ run'.proxy = spec
          /\ run'.interface = run.interface /\ run'.nets = run.nets
      BY <2>1, <3>3, <3>4 DEF At, OnCourse, Moved, Settled, Further, Passed
    <3>6. ProxyPasses BY <2>2, <3>5 DEF ProxyPasses, spec
    <3> QED BY <2>1, <3>6 DEF HostKept, still
  <2>3. CASE spec.err
    <3>1. Ended("proxy") BY <2>1, <2>3, RefuseEnds DEF Require, Refuse, At
    <3>2. ItEnds BY <3>1 DEF ItEnds
    <3> QED BY <2>1, <3>2 DEF HostKept, still
  <2> QED BY <2>2, <2>3
<1>4. CASE ReadFiles
  <2>1. PICK ok : At("files") /\ Require(ok, run) /\ still BY <1>4 DEF ReadFiles
  <2>2. Going("files") \/ Ended("files") BY <2>1, RequireMoves DEF At
  <2> QED BY <2>1, <2>2 DEF HostKept, ItEnds, Quietly, still
<1>5. CASE BuildRuntimeConfig
  <2> DEFINE ok == Node(run.interface) # None
             r == [run EXCEPT !.nets.pods = K0sConfig.nets.pods,
                              !.nets.services = K0sConfig.nets.services]
             nets == [run.nets EXCEPT !.pods = K0sConfig.nets.pods,
                                      !.services = K0sConfig.nets.services]
  <2>1. At("runtime-config") /\ Require(ok, r) /\ still BY <1>5 DEF BuildRuntimeConfig
  <2> HIDE DEF ok
  <2>2. CASE ok
    <3>1. Go(r) BY <2>1, <2>2 DEF Require
    <3>2. DOMAIN run = RunFields BY RunDomain DEF OnCourse
    <3>3. /\ DOMAIN r = DOMAIN NoRun /\ r.step = run.step /\ r.outcome = run.outcome /\ r.asked = run.asked
          /\ r.tries = run.tries /\ r.reason = run.reason /\ r.advice = run.advice
          /\ r.nets = nets /\ r.proxy = run.proxy /\ r.interface = run.interface
      BY <3>2, RunDomain DEF RunFields
    <3> HIDE DEF r, nets
    <3>4. Moved(r, run') /\ Advanced(request.cmd, r.step, r.outcome, run'.step, run'.outcome)
      BY <3>1, <3>3, GoMoves DEF OnCourse
    <3>5. /\ Settled("runtime-config") /\ run'.nets = nets
          /\ run'.interface = run.interface /\ run'.proxy = run.proxy
      BY <2>1, <3>3, <3>4 DEF At, OnCourse, Moved, Settled, Further, Passed
    <3>6. RuntimeConfigPasses BY <2>2, <3>5 DEF RuntimeConfigPasses, ok, nets
    <3> QED BY <2>1, <3>6 DEF HostKept, still
  <2>3. CASE ~ok
    <3>1. Ended("runtime-config") BY <2>1, <2>3, RefuseEnds DEF Require, Refuse, At
    <3>2. ItEnds BY <3>1 DEF ItEnds
    <3> QED BY <2>1, <3>2 DEF HostKept, still
  <2> QED BY <2>2, <2>3
<1>6. CASE CheckRoot
  <2>1. Going("root") \/ Ended("root") BY <1>6, RequireMoves DEF CheckRoot, At
  <2> QED BY <1>6, <2>1 DEF CheckRoot, HostKept, ItEnds, Quietly, still
<1>7. CASE VerifyNoInstallation
  <2>1. (host.k0s = None /\ Going("installed")) \/ Ended("installed")
    BY <1>7, RequireMoves DEF VerifyNoInstallation, At
  <2> QED BY <1>7, <2>1 DEF VerifyNoInstallation, HostKept, ItEnds, still
<1>8. CASE VerifyChannelRelease
  <2>1. Going("channel-release") \/ Ended("online")
    BY <1>8, GoOn, AskMoves DEF VerifyChannelRelease, At
  <2> QED BY <1>8, <2>1 DEF VerifyChannelRelease, HostKept, ItEnds, Quietly, still
<1>9. CASE VerifyLicense
  <2> DEFINE ok == /\ (Rel = None) = (request.license = None)
                   /\ Rel # None =>
                        /\ request.license.app = Rel.app
                        /\ ChannelExists(request.license)
                        /\ request.license.expires \in {"never", "later"}
                        /\ request.license.enabled
  <2>1. At("license") /\ Require(ok, run) /\ still BY <1>9 DEF VerifyLicense
  <2>2. ok => /\ (Rel = None) = (request.license = None)
              /\ Rel # None => request.license.app = Rel.app /\ ChannelExists(request.license)
    OBVIOUS
  <2> HIDE DEF ok
  <2>3. (ok /\ Going("license")) \/ Ended("license") BY <2>1, RequireMoves DEF At
  <2>4. LicensePasses \/ ItEnds BY <2>2, <2>3 DEF LicensePasses, ItEnds
  <2> QED BY <2>1, <2>4 DEF HostKept, still
<1>10. CASE CheckAirgapMatches
  <2> DEFINE info == IF Airgap THEN request.bundle.info ELSE None
             ok == info # None => /\ Rel # None
                                  /\ info.app = Rel.app
                                  /\ info.channel = Rel.channel
                                  /\ info.version = Rel.version
  <2>1. At("bundle") /\ Require(ok, run) /\ still BY <1>10 DEF CheckAirgapMatches
  <2>2. ok => (Airgap /\ request.bundle.info # None =>
          /\ Rel # None
          /\ request.bundle.info.app = Rel.app /\ request.bundle.info.channel = Rel.channel)
    OBVIOUS
  <2> HIDE DEF ok
  <2>3. (ok /\ Going("bundle")) \/ Ended("bundle") BY <2>1, RequireMoves DEF At
  <2>4. BundlePasses \/ ItEnds BY <2>2, <2>3 DEF BundlePasses, ItEnds
  <2> QED BY <2>1, <2>4 DEF HostKept, still
<1>11. CASE CheckForUpdate
  <2>1. /\ run.step = "update" /\ still
        /\ \/ Go(run) \/ Go(Asked("update", "yes")) \/ Go(Asked("update", "error"))
           \/ Stop(Asked("update", "no"), "aborted", "update")
    BY <1>11 DEF CheckForUpdate, At
  <2>2. Going("update") \/ Ended("update") BY <2>1, GoOn, AskedGoes, AskedEnds
  <2> QED BY <2>1, <2>2 DEF HostKept, ItEnds, Quietly, still
<1>12. CASE CheckConfig
  <2>1. Going("config") \/ Ended("config") BY <1>12, RequireMoves DEF CheckConfig, At
  <2> QED BY <1>12, <2>1 DEF CheckConfig, HostKept, ItEnds, Quietly, still
<1>13. CASE VerifyProxyConfig
  <2>1. Going("proxy-warning") \/ Ended("http-proxy-only")
    BY <1>13, GoOn, AskMoves DEF VerifyProxyConfig, At
  <2> QED BY <1>13, <2>1 DEF VerifyProxyConfig, HostKept, ItEnds, Quietly, still
<1>14. CASE EnsurePassword
  <2>1. At("password") /\ still BY <1>14 DEF EnsurePassword
  <2>2. DOMAIN run = RunFields BY RunDomain DEF OnCourse
  <2>3. ASSUME NEW r, r \in {run, Asked("password", "typed")}, NEW p, Go([r EXCEPT !.password = p])
        PROVE  Going("password")
    <3> DEFINE q == [r EXCEPT !.password = p]
    <3>1. /\ DOMAIN r = DOMAIN NoRun /\ r.step = run.step /\ r.outcome = run.outcome
          /\ run.asked \subseteq r.asked /\ r.tries = run.tries /\ r.reason = run.reason
          /\ r.advice = run.advice /\ r.proxy = run.proxy /\ r.nets = run.nets
          /\ r.interface = run.interface
      BY <2>3, AskedFields DEF OnCourse
    <3>2. /\ DOMAIN q = DOMAIN NoRun /\ q.step = r.step /\ q.outcome = r.outcome /\ q.asked = r.asked
          /\ q.tries = r.tries /\ q.reason = r.reason /\ q.advice = r.advice
          /\ q.proxy = r.proxy /\ q.nets = r.nets /\ q.interface = r.interface
      BY <3>1, RunDomain DEF RunFields
    <3> HIDE DEF q
    <3>3. Go(q) BY <2>3 DEF q
    <3>4. Moved(q, run') /\ Advanced(request.cmd, q.step, q.outcome, run'.step, run'.outcome)
      BY <3>1, <3>2, <3>3, GoMoves DEF OnCourse
    <3> QED BY <2>1, <3>1, <3>2, <3>4 DEF At, OnCourse, Moved, Going, Further, Same, Passed
  <2>4. CASE request.password # None
    <3>1. Go([run EXCEPT !.password = "long"]) \/ Stop(run, "refused", run.step)
      BY <1>14, <2>4 DEF EnsurePassword, Require, Refuse
    <3>2. Going("password") \/ Ended("password") BY <2>1, <2>3, <3>1, RefuseEnds DEF At
    <3> QED BY <2>1, <3>2 DEF HostKept, ItEnds, Quietly, still
  <2>5. CASE request.password = None /\ request.yes
    <3>1. Going("password") BY <1>14, <2>3, <2>5 DEF EnsurePassword
    <3> QED BY <2>1, <3>1 DEF HostKept, Quietly, still
  <2>6. CASE request.password = None /\ ~request.yes
    <3> DEFINE r == Asked("password", "typed")
    <3>1. \/ Go([r EXCEPT !.password = "long"])
          \/ Stop(Asked("password", "error"), "refused", "password")
          \/ IF run.tries + 1 = MaxTries THEN Refuse("password")
             ELSE run' = [r EXCEPT !.tries = @ + 1]
      BY <1>14, <2>6 DEF EnsurePassword
    <3>2. CASE Go([r EXCEPT !.password = "long"])
      <4>1. Going("password") BY <2>3, <3>2
      <4> QED BY <2>1, <4>1 DEF HostKept, Quietly, still
    <3>3. CASE Stop(Asked("password", "error"), "refused", "password")
      <4>1. Ended("password") BY <3>3, AskedEnds
      <4> QED BY <2>1, <4>1 DEF HostKept, ItEnds, still
    <3>4. CASE run.tries + 1 = MaxTries /\ Refuse("password")
      <4>1. Ended("password") BY <3>4, RefuseEnds DEF Refuse
      <4> QED BY <2>1, <4>1 DEF HostKept, ItEnds, still
    <3>5. CASE run.tries + 1 # MaxTries /\ run' = [r EXCEPT !.tries = @ + 1]
      <4>1. /\ DOMAIN r = DOMAIN NoRun /\ r.step = run.step /\ r.outcome = run.outcome
            /\ run.asked \subseteq r.asked /\ r.tries = run.tries /\ r.reason = run.reason
            /\ r.advice = run.advice /\ r.proxy = run.proxy /\ r.nets = run.nets
            /\ r.interface = run.interface
        BY AskedFields
      <4> HIDE DEF r
      <4>2. /\ DOMAIN run' = DOMAIN NoRun /\ run'.step = r.step /\ run'.outcome = r.outcome
            /\ run'.asked = r.asked /\ run'.tries = r.tries + 1 /\ run'.reason = r.reason
            /\ run'.advice = r.advice /\ run'.proxy = r.proxy /\ run'.nets = r.nets
            /\ run'.interface = r.interface
        BY <3>5, <4>1, RunDomain DEF RunFields
      <4>3. run'.tries \in 0..(MaxTries - 1) BY <3>5, <4>1, <4>2 DEF OnCourse, MaxTries
      <4>4. ItRepeats BY <4>1, <4>2, <4>3 DEF ItRepeats, Further, Same, OnCourse
      <4> QED BY <2>1, <4>4 DEF HostKept, still
    <3> QED BY <3>1, <3>2, <3>3, <3>4, <3>5
  <2> QED BY <2>4, <2>5, <2>6
<1>15. CASE BuildReporter
  <2>1. (Going("reporter") /\ request.license # None) \/ Ended("reporter")
    BY <1>15, GoOn, RefuseEnds DEF BuildReporter, At
  <2> QED BY <1>15, <2>1 DEF BuildReporter, HostKept, ItEnds, still
<1>16. CASE ResumeRestore
  <2>1. run.step = "resume" /\ still BY <1>16 DEF ResumeRestore, At
  <2> DEFINE r == Asked("resume", "yes")
  <2>2. \/ Go(run) \/ Go(Asked("resume", "no"))
        \/ Stop(Asked("resume", "error"), "refused", "resume")
        \/ host.state # "new" /\ run' = [r EXCEPT !.step = "backups", !.k0s = host.k0s]
    BY <1>16 DEF ResumeRestore
  <2>3. CASE Go(run) \/ Go(Asked("resume", "no"))
    <3>1. Going("resume") BY <2>1, <2>3, GoOn, AskedGoes
    <3> QED BY <2>1, <3>1 DEF HostKept, Quietly, still
  <2>4. CASE Stop(Asked("resume", "error"), "refused", "resume")
    <3>1. Ended("resume") BY <2>4, AskedEnds
    <3> QED BY <2>1, <3>1 DEF HostKept, ItEnds, still
  <2>5. CASE host.state # "new" /\ run' = [r EXCEPT !.step = "backups", !.k0s = host.k0s]
    <3>1. /\ DOMAIN r = DOMAIN NoRun /\ r.outcome = run.outcome
          /\ r.asked = run.asked \cup {<<"resume", "yes">>} /\ r.tries = run.tries
          /\ r.reason = run.reason /\ r.advice = run.advice /\ r.proxy = run.proxy
          /\ r.nets = run.nets /\ r.interface = run.interface
      BY AskedFields
    <3> HIDE DEF r
    <3>2. /\ DOMAIN run' = DOMAIN NoRun /\ run'.step = "backups" /\ run'.outcome = r.outcome
          /\ run'.asked = r.asked /\ run'.tries = r.tries /\ run'.reason = r.reason
          /\ run'.advice = r.advice /\ run'.proxy = r.proxy /\ run'.nets = r.nets
          /\ run'.interface = r.interface
      BY <2>5, <3>1, RunDomain DEF RunFields
    <3>3. ItResumes BY <2>1, <2>5, <3>1, <3>2 DEF ItResumes, Further, Same, OnCourse
    <3> QED BY <2>1, <3>3 DEF HostKept, still
  <2> QED BY <2>2, <2>3, <2>4, <2>5
<1>17. CASE CheckStore
  <2>1. Going("store") \/ Ended("store")
    BY <1>17, GoOn, AskedGoes, AskedEnds, RefuseEnds DEF CheckStore, At, Refuse
  <2> QED BY <1>17, <2>1 DEF CheckStore, HostKept, ItEnds, Quietly, still
<1>18. CASE RunPreflights
  <2>1. run.step = "preflights" /\ still BY <1>18 DEF RunPreflights, At
  <2>2. \/ Refuse("preflights")
        \/ Parsable /\ Go(run) /\ (request.skip \/ request.ignore \/ NetworksAvailable)
        \/ Parsable /\ Ask("ignore-preflights") /\ request.ignore
    BY <1>18 DEF RunPreflights
  <2>3. \/ PreflightsPass \/ Ended("preflights") \/ Ended("ignore-preflights")
    BY <2>1, <2>2, GoOn, AskMoves, RefuseEnds DEF Refuse, PreflightsPass
  <2> QED BY <2>1, <2>3 DEF HostKept, ItEnds, still
<1>19. CASE InstallCluster
  <2> DEFINE r == [run EXCEPT !.k0s = K0sConfig]
  <2>1. CASE host.k0s # None
    <3>1. run.step = "cluster" /\ Refuse("cluster") /\ UNCHANGED <<host, release, request>>
      BY <1>19, <2>1 DEF InstallCluster, At
    <3>2. Ended("cluster") BY <3>1, RefuseEnds DEF Refuse
    <3>3. ItEnds BY <2>1, <3>1, <3>2 DEF ItEnds
    <3> QED BY <3>1, <3>3 DEF HostKept
  <2>2. CASE host.k0s = None
    <3>1. /\ run.step = "cluster" /\ Go(r) /\ UNCHANGED <<release, request>>
          /\ host' = [host EXCEPT !.k0s = K0sConfig]
      BY <1>19, <2>2 DEF InstallCluster, At
    <3>2. DOMAIN run = RunFields BY RunDomain DEF OnCourse
    <3>3. /\ DOMAIN r = DOMAIN NoRun /\ r.step = run.step /\ r.outcome = run.outcome /\ r.asked = run.asked
          /\ r.tries = run.tries /\ r.reason = run.reason /\ r.advice = run.advice
          /\ r.nets = run.nets /\ r.proxy = run.proxy /\ r.interface = run.interface
      BY <3>2, RunDomain DEF RunFields
    <3> HIDE DEF r
    <3>4. Moved(r, run') /\ Advanced(request.cmd, r.step, r.outcome, run'.step, run'.outcome)
      BY <3>1, <3>3, GoMoves DEF OnCourse
    <3>5. Going("cluster")
      BY <3>1, <3>3, <3>4 DEF OnCourse, Moved, Going, Further, Same, Passed
    <3>6. ClusterPasses BY <2>2, <3>1, <3>5 DEF ClusterPasses
    <3> QED BY <3>1, <3>6
  <2> QED BY <2>1, <2>2
<1> QED
  BY <1>1, <1>2, <1>3, <1>4, <1>5, <1>6, <1>7, <1>8, <1>9, <1>10, <1>11, <1>12, <1>13, <1>14, <1>15,
     <1>16, <1>17, <1>18, <1>19 DEF CheckNext

-----------------------------------------------------------------------------
(* Types of what is given                                                  *)

LEMMA VendorFiles ==
    ASSUME NEW v, IsVendor(v)
    PROVE  AreFiles(v.files) /\ ParseRelease(v.files) \in ReleaseSet(v.files)
<1>1. AreFiles(v.files) BY DEF IsVendor, AreFiles
<1> QED BY <1>1, ReleaseType

LEMMA EmptyType ==
    ASSUME NEW files
    PROVE  EmptyRelease \in ReleaseSet(files)
  BY DEF EmptyRelease, ReleaseSet

LEMMA LaterFields ==
    ASSUME NEW files, NEW r \in ReleaseSet(files)
    PROVE  /\ Later(r).ecConfig = r.ecConfig /\ Later(r).archives = r.archives
           /\ Later(r).broken = r.broken /\ DOMAIN Later(r) = DOMAIN EmptyRelease
           /\ Later(r).channel = IF r.channel = None THEN None ELSE NextVersion(r.channel)
<1>1. DOMAIN r = DOMAIN EmptyRelease BY DEF ReleaseSet, EmptyRelease
<1>2. DOMAIN EmptyRelease = {"application", "appConfig", "preflights", "ecConfig", "channel", "backup",
                            "restore", "charts", "archives", "broken"}
  BY DEF EmptyRelease
<1>3. CASE r.channel = None BY <1>1, <1>3 DEF Later
<1>4. CASE r.channel # None
  <2> DEFINE c == NextVersion(r.channel)
  <2>1. Later(r) = [r EXCEPT !.channel = c] BY <1>4 DEF Later
  <2> HIDE DEF c
  <2>2. /\ Later(r).ecConfig = r.ecConfig /\ Later(r).archives = r.archives
        /\ Later(r).broken = r.broken /\ DOMAIN Later(r) = DOMAIN EmptyRelease
        /\ Later(r).channel = c
    BY <2>1, <1>1, <1>2
  <2> QED BY <2>2, <1>4 DEF c
<1> QED BY <1>3, <1>4

(* The channel release of the vendor's document, in one version or another. *)
ChannelOf(files) ==
    {None, NoChannel} \cup {d.config : d \in {e \in AllDocuments(files) : e.kind = "channel-release"}}
        \cup {NextVersion(d).config : d \in {e \in AllDocuments(files) : e.kind = "channel-release"}}

LEMMA ReleaseFacts ==
    ASSUME GivenOK, ReleaseOK
    PROVE  /\ release.archives \in Nat /\ release.broken \in BOOLEAN
           /\ release.ecConfig \in AllDocuments(vendor.files) \cup {None}
           /\ IsOverride(Config(release).overrides)
<1> DEFINE files == vendor.files
           R == ParseRelease(files)
           D == AllDocuments(files) \cup {None}
<1>1. R \in ReleaseSet(files) BY VendorFiles DEF GivenOK
<1>2. EmptyRelease \in ReleaseSet(files) BY EmptyType
<1>3. \A r \in ReleaseSet(files) : r.archives \in Nat /\ r.broken \in BOOLEAN /\ r.ecConfig \in D
  BY DEF ReleaseSet
<1>4. release = EmptyRelease \/ release = R \/ release = Later(R) BY DEF ReleaseOK
<1>5. release.archives \in Nat /\ release.broken \in BOOLEAN /\ release.ecConfig \in D
  <2> HIDE DEF R, D
  <2>1. Later(R).ecConfig = R.ecConfig /\ Later(R).archives = R.archives /\ Later(R).broken = R.broken
    BY <1>1, LaterFields
  <2> QED BY <1>1, <1>2, <1>3, <1>4, <2>1
<1>6. IsOverride(Config(release).overrides)
  <2>1. CASE ~HasConfig(release) \/ release.ecConfig.kind # "ec-config"
    <3>1. Config(release) = NoConfig BY <2>1 DEF Config, Decoded
    <3> QED BY <3>1 DEF NoConfig, IsOverride
  <2>2. CASE HasConfig(release) /\ release.ecConfig.kind = "ec-config"
    <3>1. release.ecConfig \in AllDocuments(files) BY <1>5, <2>2 DEF HasConfig
    <3>2. IsDocument(release.ecConfig) BY <3>1 DEF GivenOK, IsVendor
    <3>3. Config(release) = release.ecConfig.config BY <2>2 DEF Config, Decoded
    <3> QED BY <2>2, <3>2, <3>3 DEF IsDocument
  <2> QED BY <2>1, <2>2
<1> QED BY <1>5, <1>6

LEMMA OverrideType ==
    ASSUME NEW o, IsOverride(o), NEW nets, nets.pods \in Entries, nets.services \in Entries
    PROVE  PatchK0sConfig(nets, o).pods \in Entries /\ PatchK0sConfig(nets, o).services \in Entries
  BY DEF IsOverride, PatchK0sConfig, Patch

LEMMA HalfEntries ==
    ASSUME NEW g \in Entries, ValidateCIDR(g)
    PROVE  SplitNetworkCIDR(g).pods \in Entries /\ SplitNetworkCIDR(g).services \in Entries
<1> DEFINE p == SplitNetworkCIDR(g).pods
           v == SplitNetworkCIDR(g).services
<1>1. g.base \in Address /\ g.len \in 0..(W - 1) BY ValidBlock
<1>2. p.base \in Address /\ v.base \in Address BY <1>1, Halves
<1>3. p = Block(p.base, p.len) /\ v = Block(v.base, v.len) /\ p.len = g.len + 1 /\ v.len = g.len + 1
  BY DEF SplitNetworkCIDR, Block
<1> HIDE DEF p, v
<1>4. p.len \in 0..W /\ v.len \in 0..W BY <1>1, <1>3, WAssumption
<1>5. p \in Entries /\ v \in Entries BY <1>2, <1>3, <1>4 DEF Entries, Block
<1> QED BY <1>5 DEF p, v

LEMMA NetworksType ==
    ASSUME GivenOK, ReleaseOK, ValidateCIDR(GlobalCIDR)
    PROVE  /\ FlagNetworks = [pods |-> FlagNetworks.pods, services |-> FlagNetworks.services,
                              global |-> FlagNetworks.global]
           /\ FlagNetworks.pods \in Entries /\ FlagNetworks.services \in Entries
           /\ FlagNetworks.global \in {None, GlobalCIDR} /\ GlobalCIDR \in Entries
           /\ PatchedNetworks.pods \in Entries /\ PatchedNetworks.services \in Entries
           /\ FlagNetworks.global # None => FlagBlocks = SplitNetworkCIDR(GlobalCIDR)
<1>1. {request.cidr, request.pods, request.services} \subseteq Entries \cup {None}
  BY DEF GivenOK, IsFlags
<1>2. Blocks \subseteq Entries BY DEF Blocks, Entries
<1>3. {DefaultCIDR, DefaultPods, DefaultServices} \subseteq Entries BY <1>2, DefaultsAssumption
<1>4. GlobalCIDR \in Entries BY <1>1, <1>3 DEF GlobalCIDR
<1>5. SplitNetworkCIDR(GlobalCIDR).pods \in Entries /\ SplitNetworkCIDR(GlobalCIDR).services \in Entries
  BY <1>4, HalfEntries
<1>6. FlagNetworks =
        IF request.pods = None /\ request.services = None
        THEN [pods |-> SplitNetworkCIDR(GlobalCIDR).pods, services |-> SplitNetworkCIDR(GlobalCIDR).services,
              global |-> GlobalCIDR]
        ELSE [pods |-> IF request.pods = None THEN DefaultPods ELSE request.pods,
              services |-> IF request.services = None THEN DefaultServices ELSE request.services,
              global |-> None]
  BY DEF FlagNetworks, CIDRConfig
<1>7. FlagNetworks.pods \in Entries /\ FlagNetworks.services \in Entries BY <1>1, <1>3, <1>5, <1>6
<1>8. IsOverride(Config(release).overrides) /\ IsOverride(request.overrides)
  BY ReleaseFacts DEF GivenOK, IsFlags
<1>9. PatchedNetworks.pods \in Entries /\ PatchedNetworks.services \in Entries
  <2> DEFINE n == PatchK0sConfig(FlagBlocks, Config(release).overrides)
  <2>1. FlagBlocks.pods \in Entries /\ FlagBlocks.services \in Entries BY <1>7 DEF FlagBlocks
  <2>2. n.pods \in Entries /\ n.services \in Entries BY <1>8, <2>1, OverrideType
  <2> QED BY <1>8, <2>2, OverrideType DEF PatchedNetworks, ApplyUnsupportedOverrides
<1>10. SplitNetworkCIDR(GlobalCIDR) = [pods |-> SplitNetworkCIDR(GlobalCIDR).pods,
                                      services |-> SplitNetworkCIDR(GlobalCIDR).services]
  BY DEF SplitNetworkCIDR
<1>11. FlagNetworks.global # None => FlagBlocks = SplitNetworkCIDR(GlobalCIDR)
  BY <1>6, <1>10 DEF FlagBlocks
<1> QED BY <1>4, <1>6, <1>7, <1>9, <1>11

-----------------------------------------------------------------------------
(* The k0s configuration                                                   *)

LEMMA PatchTwice ==
    ASSUME NEW n
    PROVE  LET once == ApplyUnsupportedOverrides([pods |-> n.pods, services |-> n.services])
           IN  /\ once = [pods |-> once.pods, services |-> once.services]
               /\ ApplyUnsupportedOverrides(once) = once
<1> DEFINE o == Config(release).overrides
           u == request.overrides
           m == [pods |-> n.pods, services |-> n.services]
           x == PatchK0sConfig(m, o)
           once == PatchK0sConfig(x, u)
           y == PatchK0sConfig(once, o)
           twice == PatchK0sConfig(y, u)
<1>1. x = [pods |-> IF o # None /\ o.pods # None THEN o.pods ELSE m.pods,
           services |-> IF o # None /\ o.services # None THEN o.services ELSE m.services]
  BY DEF PatchK0sConfig, Patch
<1> HIDE DEF x
<1>2. once = [pods |-> IF u # None /\ u.pods # None THEN u.pods ELSE x.pods,
              services |-> IF u # None /\ u.services # None THEN u.services ELSE x.services]
  BY <1>1 DEF PatchK0sConfig, Patch
<1> HIDE DEF once
<1>3. y = [pods |-> IF o # None /\ o.pods # None THEN o.pods ELSE once.pods,
           services |-> IF o # None /\ o.services # None THEN o.services ELSE once.services]
  BY <1>2 DEF PatchK0sConfig, Patch
<1> HIDE DEF y
<1>4. twice = [pods |-> IF u # None /\ u.pods # None THEN u.pods ELSE y.pods,
               services |-> IF u # None /\ u.services # None THEN u.services ELSE y.services]
  BY <1>3 DEF PatchK0sConfig, Patch
<1> HIDE DEF twice, o, u
<1>5. twice = once BY <1>1, <1>2, <1>3, <1>4
<1>6. once = [pods |-> once.pods, services |-> once.services] BY <1>2
<1> QED BY <1>5, <1>6 DEF ApplyUnsupportedOverrides, twice, y, once, x, o, u

LEMMA K0sFields ==
    /\ K0sConfig.nets = ApplyUnsupportedOverrides([pods |-> run.nets.pods, services |-> run.nets.services])
    /\ K0sConfig.node = Node(run.interface) /\ K0sConfig.dir = request.dir
    /\ K0sConfig.airgap = (request.bundle # None)
<1> DEFINE nets == ApplyUnsupportedOverrides([pods |-> run.nets.pods, services |-> run.nets.services])
<1>1. K0sConfig = [[images |-> RenderK0sConfig.images, nftables |-> FALSE, nets |-> nets,
                    node |-> Node(run.interface), airgap |-> request.bundle # None,
                    dir |-> request.dir] EXCEPT !.nftables = host.nft]
  BY DEF K0sConfig, ApplyHostK0sConfigOverrides
<1> HIDE DEF nets
<1> QED BY <1>1 DEF nets

LEMMA FlagsArePatched ==
    /\ run.nets = FlagNetworks => K0sConfig.nets = PatchedNetworks
    /\ run.nets = [pods |-> PatchedNetworks.pods, services |-> PatchedNetworks.services,
                   global |-> FlagNetworks.global] => K0sConfig.nets = PatchedNetworks
    /\ PatchedNetworks = [pods |-> PatchedNetworks.pods, services |-> PatchedNetworks.services]
<1> DEFINE m == [pods |-> FlagNetworks.pods, services |-> FlagNetworks.services]
           once == ApplyUnsupportedOverrides(m)
<1>1. once = [pods |-> once.pods, services |-> once.services] /\ ApplyUnsupportedOverrides(once) = once
  BY PatchTwice
<1>2. PatchedNetworks = once BY DEF PatchedNetworks, FlagBlocks
<1> HIDE DEF once
<1>3. ASSUME run.nets = FlagNetworks PROVE K0sConfig.nets = PatchedNetworks
  BY <1>3, <1>2, K0sFields DEF once
<1>4. ASSUME run.nets = [pods |-> once.pods, services |-> once.services, global |-> FlagNetworks.global]
      PROVE  K0sConfig.nets = once
  <2>1. [pods |-> run.nets.pods, services |-> run.nets.services] = once BY <1>1, <1>4
  <2> QED BY <1>1, <2>1, K0sFields
<1> QED BY <1>1, <1>2, <1>3, <1>4

(* What the k0s configuration and the checks before it are made of stays.  *)
HostSame(h, g) == h.interfaces = g.interfaces /\ h.env = g.env /\ h.routes = g.routes /\ h.nft = g.nft

LEMMA NodeStays ==
    ASSUME HostSame(host', host), NEW name
    PROVE  FirstValidIPNet(host', name) = FirstValidIPNet(host, name)
  BY DEF HostSame, FirstValidIPNet

LEMMA K0sStays ==
    ASSUME HostSame(host', host), UNCHANGED <<release, request>>, Same
    PROVE  K0sConfig' = K0sConfig /\ Parsable' = Parsable /\ NetworksAvailable' = NetworksAvailable
<1>1. Node(run.interface)' = Node(run.interface) BY NodeStays DEF Same, Node
<1>2. K0sConfig' = K0sConfig
  BY <1>1 DEF K0sConfig, ApplyHostK0sConfigOverrides, RenderK0sConfig, ApplyUnsupportedOverrides, Same, HostSame
<1>3. Parsable' = Parsable BY DEF Parsable, Same
<1>4. NetworksAvailable' = NetworksAvailable
  BY <1>1 DEF NetworksAvailable, Same, HostSame
<1> QED BY <1>2, <1>3, <1>4

LEMMA ConfigStays ==
    ASSUME UNCHANGED <<release, request>>
    PROVE  /\ FlagNetworks' = FlagNetworks /\ PatchedNetworks' = PatchedNetworks /\ GlobalCIDR' = GlobalCIDR
           /\ Rel' = Rel /\ Airgap' = Airgap /\ FlagsFit' = FlagsFit
  BY DEF FlagNetworks, PatchedNetworks, FlagBlocks, ApplyUnsupportedOverrides, GlobalCIDR, Rel, Airgap, FlagsFit

-----------------------------------------------------------------------------
(* The run keeps what it passed                                            *)

InstallNames ==
    {"flags", "networks", "proxy", "files", "runtime-config", "root", "installed",
     "channel-release", "license", "bundle", "update", "config", "proxy-warning", "password",
     "reporter", "preflights", "cluster"}
RestoreNames ==
    {"flags", "networks", "proxy", "files", "runtime-config", "root", "channel-release",
     "bundle", "resume", "installed", "store", "preflights", "cluster", "backups"}
LEMMA StepNames == ToSet(InstallSteps) = InstallNames /\ ToSet(RestoreSteps) = RestoreNames
<1>1. ASSUME NEW x \in ToSet(InstallSteps) PROVE x \in InstallNames
  <2>1. PICK i \in 1..17 : x = InstallSteps[i] BY StepsOfInstall DEF ToSet
  <2> QED BY <2>1, StepsOfInstall DEF InstallNames
<1>2. ASSUME NEW x \in InstallNames PROVE x \in ToSet(InstallSteps)
  <2>1. \E i \in 1..17 : x = InstallSteps[i] BY StepsOfInstall DEF InstallNames
  <2> QED BY <2>1, StepsOfInstall DEF ToSet
<1>3. ASSUME NEW x \in ToSet(RestoreSteps) PROVE x \in RestoreNames
  <2>1. PICK i \in 1..14 : x = RestoreSteps[i] BY StepsOfRestore DEF ToSet
  <2> QED BY <2>1, StepsOfRestore DEF RestoreNames
<1>4. ASSUME NEW x \in RestoreNames PROVE x \in ToSet(RestoreSteps)
  <2>1. \E i \in 1..14 : x = RestoreSteps[i] BY StepsOfRestore DEF RestoreNames
  <2> QED BY <2>1, StepsOfRestore DEF ToSet
<1>5. ToSet(InstallSteps) = InstallNames BY <1>1, <1>2
<1>6. ToSet(RestoreSteps) = RestoreNames BY <1>3, <1>4
<1> QED BY <1>5, <1>6

Named(cmd, s) == IF cmd = "install" THEN s \in InstallNames ELSE s \in RestoreNames
LEMMA NamedSteps == ASSUME NEW cmd, NEW s PROVE s \in ToSet(StepsOf(cmd)) <=> Named(cmd, s)
  BY StepNames DEF StepsOf, Named

LEMMA CheckIsOnCourse ==
    ASSUME GivenOK, ProgressOK, CheckNext
    PROVE  OnCourse
<1>1. run.outcome = "none" /\ run.step # "none"
  BY DEF CheckNext, CheckFlags, CheckNetworks, CheckProxy, ReadFiles, BuildRuntimeConfig, CheckRoot,
     VerifyNoInstallation, VerifyChannelRelease, VerifyLicense, CheckAirgapMatches, CheckForUpdate,
     CheckConfig, VerifyProxyConfig, EnsurePassword, BuildReporter, ResumeRestore, CheckStore,
     RunPreflights, InstallCluster, At
<1> QED BY <1>1 DEF OnCourse, GivenOK, ProgressOK

LEMMA AdvanceNamed ==
    ASSUME NEW s, NEW t, NEW p, request.cmd \in {"install", "restore"}, Named(request.cmd, s),
           Advanced(request.cmd, s, "none", t, p)
    PROVE  /\ Named(request.cmd, t) /\ t # "none"
           /\ p \in {"none", "accepted"} /\ (p = "accepted" => t = LastStep)
  BY DEF Named, Advanced, Follows, InstallNames, RestoreNames, LastStep

LEMMA CheckKinds ==
    ASSUME OnCourse, CheckNext
    PROVE  /\ UNCHANGED <<release, request>>
           /\ ItEnds \/ ItRepeats \/ ItResumes \/ Settled(run.step)
  BY CheckSummary DEF HostKept, Settled, Going, NetworksPass, ProxyPasses, RuntimeConfigPasses,
     LicensePasses, BundlePasses, PreflightsPass, ClusterPasses, Passed

LEMMA CheckKeepsHost ==
    ASSUME GivenOK, OnCourse, CheckNext
    PROVE  /\ HostSame(host', host) /\ host'.state = host.state /\ HostOK(host')
           /\ host'.k0s = host.k0s \/ ClusterPasses
<1>1. UNCHANGED host \/ ClusterPasses BY CheckSummary
<1>2. CASE UNCHANGED host BY <1>2 DEF HostSame, GivenOK
<1>3. CASE ClusterPasses
  <2>1. host' = [host EXCEPT !.k0s = K0sConfig] BY <1>3 DEF ClusterPasses
  <2>2. {"interfaces", "env", "routes", "nft", "k0s", "state"} \subseteq DOMAIN host BY DEF GivenOK, HostOK
  <2>3. HostSame(host', host) /\ host'.state = host.state /\ DOMAIN host' = DOMAIN host
    BY <2>1, <2>2 DEF HostSame
  <2> QED BY <1>3, <2>3 DEF GivenOK, HostOK, HostSame
<1> QED BY <1>1, <1>2, <1>3

LEMMA CheckProgress ==
    ASSUME GivenOK, ProgressOK, HostK0sOK, CheckNext
    PROVE  ProgressOK'
<1>1. OnCourse BY CheckIsOnCourse
<1>2. UNCHANGED <<release, request>> /\ (ItEnds \/ ItRepeats \/ ItResumes \/ Settled(run.step))
  BY <1>1, CheckKinds
<1>3. request.cmd \in {"install", "restore"} /\ Named(request.cmd, run.step) /\ run.step # "none"
  BY <1>1, NamedSteps DEF OnCourse, Named, InstallNames, RestoreNames
<1> SUFFICES /\ DOMAIN run' = DOMAIN NoRun
             /\ Named(request.cmd, run'.step) /\ run'.step # "none"
             /\ run'.outcome \in {"none", "accepted", "refused", "aborted", "crashed"}
             /\ run'.outcome = "accepted" => run'.step = LastStep
             /\ run'.tries \in 0..(MaxTries - 1)
             /\ run'.reason # "cluster"
  BY <1>2, NamedSteps DEF ProgressOK, LastStep
<1>4. CASE ItEnds
  <2>1. PICK reason : Ended(reason) /\ (reason = "cluster" => run.step = "cluster" /\ host.k0s # None)
    BY <1>4 DEF ItEnds
  <2>2. run.step = "cluster" => host.k0s = None BY <1>1 DEF HostK0sOK, OnCourse, ClearHost, Licensed
  <2>3. reason # "cluster" BY <2>1, <2>2
  <2> QED BY <1>3, <2>1, <2>3 DEF Ended, Further
<1>5. CASE ItRepeats BY <1>1, <1>3, <1>5 DEF ItRepeats, Further, OnCourse
<1>6. CASE ItResumes
  <2>1. request.cmd = "restore" BY <1>3, <1>6 DEF ItResumes, Named, InstallNames
  <2> QED BY <1>1, <1>6, <2>1 DEF ItResumes, Further, OnCourse, Named, RestoreNames
<1>7. CASE Settled(run.step)
  <2>1. /\ Named(request.cmd, run'.step) /\ run'.step # "none"
        /\ run'.outcome \in {"none", "accepted"} /\ (run'.outcome = "accepted" => run'.step = LastStep)
    BY <1>3, <1>7, AdvanceNamed DEF Settled, Passed
  <2> QED BY <1>1, <1>7, <2>1 DEF Settled, Further, OnCourse
<1> QED BY <1>2, <1>4, <1>5, <1>6, <1>7

LEMMA CheckNetworksOK ==
    ASSUME GivenOK, ReleaseOK, ProgressOK, NetworksOK, CheckNext
    PROVE  NetworksOK'
<1>1. OnCourse BY CheckIsOnCourse
<1>2. UNCHANGED <<release, request>> BY <1>1, CheckKinds
<1>3. HostSame(host', host) BY <1>1, CheckKeepsHost
<1>4. /\ FlagNetworks' = FlagNetworks /\ PatchedNetworks' = PatchedNetworks /\ FlagsFit' = FlagsFit
  BY <1>2, ConfigStays
<1>5. Named(request.cmd, run.step) /\ run.outcome = "none" BY <1>1, NamedSteps DEF OnCourse
<1>6. \A name : FirstValidIPNet(host', name) = FirstValidIPNet(host, name) BY <1>3, NodeStays
<1>17. run'.reason = "networks" => ~FlagsFit'
  <2>1. ItEnds \/ ItRepeats \/ ItResumes \/ Settled(run.step) BY <1>1, CheckKinds
  <2> QED BY <1>4, <2>1 DEF NetworksOK, ItEnds, Ended, ItRepeats, ItResumes, Settled
<1>7. ASSUME Same,
             /\ run'.step \notin Unchecked => run.step \notin Unchecked
             /\ run'.step \in BeforeConfig \ Unchecked => run.step \in BeforeConfig \ Unchecked
             /\ run'.step \notin BeforeProxy => run.step \notin BeforeProxy
             /\ run'.step \notin BeforeConfig => run.step \notin BeforeConfig
      PROVE  NetworksOK'
  BY <1>2, <1>3, <1>4, <1>6, <1>7, <1>17 DEF NetworksOK, Same, HostSame, Node
<1>8. ASSUME NEW s, Going(s), s \notin {"flags", "networks", "proxy", "runtime-config"}
      PROVE  NetworksOK'
  <2>1. run.step = s /\ Advanced(request.cmd, s, "none", run'.step, run'.outcome) /\ Same
    BY <1>8 DEF Going, Passed
  <2>2. /\ run'.step \notin Unchecked => run.step \notin Unchecked
        /\ run'.step \in BeforeConfig \ Unchecked => run.step \in BeforeConfig \ Unchecked
        /\ run'.step \notin BeforeProxy => run.step \notin BeforeProxy
        /\ run'.step \notin BeforeConfig => run.step \notin BeforeConfig
    BY <1>5, <1>8, <2>1 DEF Advanced, Follows, Named, InstallNames, RestoreNames, Unchecked, BeforeProxy,
       BeforeConfig
  <2> QED BY <1>7, <2>1, <2>2
<1>9. CASE ItEnds
  <2>1. Same /\ run'.step = run.step BY <1>9 DEF ItEnds, Ended
  <2> QED BY <1>7, <2>1
<1>10. CASE ItRepeats
  <2>1. Same /\ run'.step = run.step BY <1>10 DEF ItRepeats
  <2> QED BY <1>7, <2>1
<1>11. CASE ItResumes
  <2>1. Same /\ run'.step = "backups" /\ run.step = "resume" BY <1>11 DEF ItResumes
  <2> QED BY <1>7, <2>1 DEF Unchecked, BeforeProxy, BeforeConfig
<1>12. CASE Settled("flags")
  <2>1. run'.step = "networks" BY <1>12 DEF Settled, Passed, Advanced, Follows
  <2> QED BY <1>17, <2>1 DEF NetworksOK, Unchecked, BeforeProxy, BeforeConfig
<1>13. CASE NetworksPass
  <2>1. run'.step = "proxy" BY <1>13 DEF NetworksPass, Settled, Passed, Advanced, Follows
  <2>2. /\ run'.nets = FlagNetworks
        /\ FlagsFit
    BY <1>13 DEF NetworksPass
  <2> QED BY <1>2, <1>4, <1>17, <2>1, <2>2 DEF NetworksOK, Unchecked, BeforeProxy, BeforeConfig
<1>14. CASE ProxyPasses
  <2>1. run.step = "proxy" /\ run'.step = "files"
    BY <1>14 DEF ProxyPasses, Settled, Passed, Advanced, Follows
  <2>2. /\ FlagsFit
        /\ run.nets = FlagNetworks
    BY <2>1 DEF NetworksOK, Unchecked, BeforeProxy, BeforeConfig
  <2> DEFINE spec == ProxySpec(WithDefaults(request.proxy, host.env), FlagNetworks, Node(run.interface))
  <2>3. /\ run'.proxy = spec /\ ~spec.err
        /\ run'.interface = run.interface /\ run'.nets = FlagNetworks
    BY <1>14, <2>2 DEF ProxyPasses
  <2>4. spec = ProxySpec(WithDefaults(request.proxy, host.env), FlagNetworks, Node(run.interface))'
    BY <1>2, <1>3, <1>4, <1>6, <2>3 DEF Node, HostSame
  <2> HIDE DEF spec
  <2> QED BY <1>2, <1>4, <1>17, <2>1, <2>2, <2>3, <2>4 DEF NetworksOK, Unchecked, BeforeProxy, BeforeConfig
<1>15. CASE RuntimeConfigPasses
  <2>1. run.step = "runtime-config" /\ run'.step \in {"root"}
    BY <1>15 DEF RuntimeConfigPasses, Settled, Passed, Advanced, Follows
  <2>2. /\ FlagsFit
        /\ run.nets = FlagNetworks
        /\ ~run.proxy.err
        /\ run.proxy = ProxySpec(WithDefaults(request.proxy, host.env), FlagNetworks, Node(run.interface))
    BY <2>1 DEF NetworksOK, Unchecked, BeforeProxy, BeforeConfig
  <2>3. /\ Node(run.interface) # None
        /\ run'.nets = [FlagNetworks EXCEPT !.pods = PatchedNetworks.pods,
                                            !.services = PatchedNetworks.services]
        /\ run'.interface = run.interface /\ run'.proxy = run.proxy
    BY <1>15, <2>2, FlagsArePatched DEF RuntimeConfigPasses
  <2>4. FlagNetworks = [pods |-> FlagNetworks.pods, services |-> FlagNetworks.services,
                        global |-> FlagNetworks.global]
    BY <2>2, NetworksType DEF FlagsFit
  <2>5. run'.nets = [pods |-> PatchedNetworks.pods, services |-> PatchedNetworks.services,
                     global |-> FlagNetworks.global]
    BY <2>3, <2>4
  <2>6. ProxySpec(WithDefaults(request.proxy, host.env), FlagNetworks, Node(run.interface))
          = ProxySpec(WithDefaults(request.proxy, host.env), FlagNetworks, Node(run.interface))'
    BY <1>2, <1>3, <1>4, <1>6, <2>3 DEF Node, HostSame
  <2>7. Node(run.interface)' # None BY <1>6, <2>3 DEF Node
  <2> QED BY <1>2, <1>4, <1>17, <2>1, <2>2, <2>3, <2>5, <2>6, <2>7 DEF NetworksOK, Unchecked, BeforeProxy, BeforeConfig
<1>16. \/ ItEnds \/ ItRepeats \/ ItResumes \/ Settled("flags")
       \/ NetworksPass \/ ProxyPasses \/ RuntimeConfigPasses
       \/ \E s : Going(s) /\ s \notin {"flags", "networks", "proxy", "runtime-config"}
  BY <1>1, CheckSummary DEF HostKept, Quietly, LicensePasses, BundlePasses, PreflightsPass, ClusterPasses
<1> QED BY <1>8, <1>9, <1>10, <1>11, <1>12, <1>13, <1>14, <1>15, <1>16

LEMMA CheckPartsOK ==
    ASSUME GivenOK, ProgressOK, PartsOK, CheckNext
    PROVE  PartsOK'
<1>1. OnCourse BY CheckIsOnCourse
<1>2. UNCHANGED <<release, request>> BY <1>1, CheckKinds
<1>3. Rel' = Rel /\ Airgap' = Airgap /\ ChannelExists(request.license)' = ChannelExists(request.license)
  BY <1>2, ConfigStays DEF ChannelExists
<1>4. SUFFICES ASSUME request.cmd = "install" PROVE PartsOK' BY <1>2 DEF PartsOK
<1>5. run.step \in InstallNames BY <1>1, <1>4, NamedSteps DEF OnCourse, Named
<1>6. ASSUME /\ run'.step \in Licensed => run.step \in Licensed
             /\ run'.step \in Matched => run.step \in Matched
             /\ run'.step \in Reported => run.step \in Reported
      PROVE  PartsOK'
  BY <1>2, <1>3, <1>4, <1>6 DEF PartsOK
<1>7. CASE LicensePasses
  <2>1. run'.step = "bundle" BY <1>4, <1>7 DEF LicensePasses, Going, Passed, Advanced, Follows
  <2> QED BY <1>2, <1>3, <1>7, <2>1 DEF PartsOK, LicensePasses, Licensed, Matched, Reported
<1>8. CASE BundlePasses
  <2>1. run.step = "bundle" /\ run'.step = "update"
    BY <1>4, <1>8 DEF BundlePasses, Going, Passed, Advanced, Follows
  <2> QED BY <1>2, <1>3, <1>4, <1>8, <2>1 DEF PartsOK, BundlePasses, Licensed, Matched, Reported
<1>9. CASE Going("reporter") /\ request.license # None
  <2>1. run.step = "reporter" /\ run'.step = "preflights"
    BY <1>4, <1>9 DEF Going, Passed, Advanced, Follows
  <2> QED BY <1>2, <1>3, <1>4, <1>9, <2>1 DEF PartsOK, Licensed, Matched, Reported
<1>10. ASSUME NEW s, Settled(s), s \notin {"license", "bundle", "reporter"} PROVE PartsOK'
  <2>1. /\ run'.step \in Licensed => run.step \in Licensed
        /\ run'.step \in Matched => run.step \in Matched
        /\ run'.step \in Reported => run.step \in Reported
    BY <1>4, <1>5, <1>10 DEF Settled, Passed, Advanced, Follows, Licensed, Matched, Reported
  <2> QED BY <1>6, <2>1
<1>11. CASE ItEnds \/ ItRepeats
  <2>1. run'.step = run.step BY <1>11 DEF ItEnds, ItRepeats, Ended
  <2> QED BY <1>6, <2>1
<1>12. CASE ItResumes
  <2>1. run'.step = "backups" BY <1>12 DEF ItResumes
  <2> QED BY <1>6, <2>1 DEF Licensed, Matched, Reported
<1>13. \/ LicensePasses \/ BundlePasses
       \/ Going("reporter") /\ request.license # None
       \/ ItEnds \/ ItRepeats \/ ItResumes
       \/ \E s : Settled(s) /\ s \notin {"license", "bundle", "reporter"}
  <2> DEFINE Other(s) == Settled(s) /\ s \notin {"license", "bundle", "reporter"}
  <2>1. ASSUME NEW s, Going(s) PROVE Settled(s) BY <2>1 DEF Going, Settled
  <2>2. NetworksPass => Other("networks") BY DEF NetworksPass
  <2>3. ProxyPasses => Other("proxy") BY DEF ProxyPasses
  <2>4. RuntimeConfigPasses => Other("runtime-config") BY DEF RuntimeConfigPasses
  <2>5. PreflightsPass => Other("preflights") BY <2>1 DEF PreflightsPass
  <2>6. ClusterPasses => Other("cluster") BY <2>1 DEF ClusterPasses
  <2>7. \A s \in Quietly : Going(s) => Other(s) BY <2>1 DEF Quietly
  <2>8. Settled("flags") => Other("flags") OBVIOUS
  <2>9. Going("installed") => Other("installed") BY <2>1
  <2>10. HostKept \/ ClusterPasses BY <1>1, CheckSummary
  <2>11. SUFFICES ASSUME ~LicensePasses, ~BundlePasses, ~(Going("reporter") /\ request.license # None),
                         ~ItEnds, ~ItRepeats, ~ItResumes
                  PROVE  \E s : Other(s)
    OBVIOUS
  <2> HIDE DEF Other
  <2> QED
    BY <2>2, <2>3, <2>4, <2>5, <2>6, <2>7, <2>8, <2>9, <2>10, <2>11 DEF HostKept
<1> QED BY <1>7, <1>8, <1>9, <1>10, <1>11, <1>12, <1>13

LEMMA CheckHostK0sOK ==
    ASSUME GivenOK, ProgressOK, HostK0sOK, CheckNext
    PROVE  HostK0sOK'
<1>1. OnCourse BY CheckIsOnCourse
<1>2. UNCHANGED <<release, request>> BY <1>1, CheckKinds
<1>3. HostSame(host', host) /\ (host'.k0s = host.k0s \/ ClusterPasses) BY <1>1, CheckKeepsHost
<1>4. Named(request.cmd, run.step) /\ run.outcome = "none" /\ request.cmd \in {"install", "restore"}
  BY <1>1, NamedSteps DEF OnCourse
<1>5. ClearHost' = ClearHost BY <1>2 DEF ClearHost
<1>6. Same => K0sConfig' = K0sConfig /\ Parsable' = Parsable /\ NetworksAvailable' = NetworksAvailable
  BY <1>2, <1>3, K0sStays
<1> HIDE DEF ClearHost
<1>7. ASSUME Same, host'.k0s = host.k0s, run.asked \subseteq run'.asked,
             run'.step \in ClearHost /\ run'.outcome # "accepted" => run.step \in ClearHost \/ host.k0s = None,
             run'.outcome # "failed", run'.step = "cluster" => run'.outcome # "accepted",
             run'.step = "backups" => run.step = "backups",
             run'.step = "cluster" =>
                 \/ run.step = "cluster"
                 \/ Parsable /\ (~request.skip /\ ~request.ignore => NetworksAvailable)
      PROVE  HostK0sOK'
  <2>1. K0sConfig' = K0sConfig /\ Parsable' = Parsable /\ NetworksAvailable' = NetworksAvailable
    BY <1>6, <1>7
  <2>2. run'.step \in ClearHost' /\ run'.outcome \notin {"accepted", "failed"} => host'.k0s = None
    BY <1>4, <1>5, <1>7 DEF HostK0sOK
  <2>3. ~(run'.step = "cluster" /\ run'.outcome \in {"accepted", "failed"}) BY <1>7
  <2>4. run'.step = "backups" => Said("resume", "yes")' \/ host'.k0s = K0sConfig'
    BY <1>7, <2>1 DEF HostK0sOK, Said
  <2>5. run'.step = "cluster" => /\ Parsable'
                                 /\ ~request'.skip /\ ~request'.ignore => NetworksAvailable'
    BY <1>2, <1>7, <2>1 DEF HostK0sOK
  <2> QED BY <2>2, <2>3, <2>4, <2>5 DEF HostK0sOK
<1>8. CASE ClusterPasses
  <2>1. Going("cluster") /\ host'.k0s = K0sConfig
    <3>1. "k0s" \in DOMAIN host BY DEF GivenOK, HostOK
    <3> QED BY <1>8, <3>1 DEF ClusterPasses
  <2>2. Same BY <2>1 DEF Going
  <2>3. K0sConfig' = K0sConfig /\ Parsable' = Parsable /\ NetworksAvailable' = NetworksAvailable
    BY <1>6, <2>2
  <2>4. \/ run'.step = "cluster" /\ run'.outcome = "accepted"
        \/ run'.step = "backups"
    BY <1>4, <2>1 DEF Going, Passed, Advanced, Follows
  <2>5. "backups" \notin ClearHost BY DEF ClearHost, Licensed
  <2>6. run.step = "cluster" BY <2>1 DEF Going, Passed
  <2>7. run'.step = "cluster" => /\ Parsable'
                                 /\ ~request'.skip /\ ~request'.ignore => NetworksAvailable'
    BY <1>2, <2>3, <2>6 DEF HostK0sOK
  <2>8. host'.k0s = K0sConfig' BY <2>1, <2>3
  <2> QED BY <1>5, <2>4, <2>5, <2>7, <2>8 DEF HostK0sOK
<1>9. CASE host'.k0s = host.k0s /\ (ItEnds \/ ItRepeats)
  <2>1. /\ run'.step = run.step /\ Same /\ run.asked \subseteq run'.asked
        /\ run'.outcome \notin {"accepted", "failed"}
    BY <1>9 DEF ItEnds, ItRepeats, Ended, Further
  <2> QED BY <1>7, <1>9, <2>1
<1>10. CASE host'.k0s = host.k0s /\ ItResumes
  <2>1. /\ run'.step = "backups" /\ Same /\ <<"resume", "yes">> \in run'.asked
        /\ run'.outcome = "none"
    BY <1>10 DEF ItResumes, Further
  <2>2. "backups" \notin ClearHost BY DEF ClearHost, Licensed
  <2> QED BY <1>5, <2>1, <2>2 DEF HostK0sOK, Said
<1>11. CASE host'.k0s = host.k0s /\ PreflightsPass
  <2>1. /\ run.step = "preflights" /\ run'.step = "cluster" /\ run'.outcome = "none" /\ Same
        /\ run.asked \subseteq run'.asked
    BY <1>4, <1>11 DEF PreflightsPass, Going, Passed, Advanced, Follows, Further
  <2>2. run.step \in ClearHost BY <1>4, <2>1 DEF ClearHost, Licensed
  <2>3. Parsable /\ (~request.skip /\ ~request.ignore => NetworksAvailable) BY <1>11 DEF PreflightsPass
  <2> QED BY <1>7, <1>11, <2>1, <2>2, <2>3
<1>12. ASSUME host'.k0s = host.k0s, NEW s, Settled(s),
              s \notin {"preflights", "cluster", "installed"} \/ (s = "installed" /\ host.k0s = None),
              Same \/ s \in {"flags", "networks", "proxy", "runtime-config"}
       PROVE  HostK0sOK'
  <2>1. /\ run.step = s /\ Advanced(request.cmd, s, "none", run'.step, run'.outcome)
        /\ run.asked \subseteq run'.asked
    BY <1>12 DEF Settled, Passed, Further
  <2>2. /\ run'.outcome \in {"none", "accepted"} /\ run'.step # "cluster"
        /\ run'.outcome = "accepted" => run'.step = "backups" /\ run.step = "backups"
        /\ run'.step = "backups" => run.step = "backups"
    BY <1>4, <1>12, <2>1 DEF Advanced, Follows
  <2>3. run'.step \in ClearHost => run.step \in ClearHost \/ run.step = "installed"
    BY <1>4, <1>12, <2>1 DEF Advanced, Follows, ClearHost, Licensed, Named, InstallNames, RestoreNames
  <2>4. CASE Same BY <1>7, <1>12, <2>1, <2>2, <2>3, <2>4
  <2>5. CASE s \in {"flags", "networks", "proxy", "runtime-config"}
    <3>1. run'.step \in {"networks", "proxy", "files", "root"}
      BY <1>4, <2>1, <2>5 DEF Advanced, Follows
    <3>2. run'.step \notin ClearHost BY <3>1 DEF ClearHost, Licensed
    <3> QED BY <1>5, <2>2, <3>1, <3>2 DEF HostK0sOK
  <2> QED BY <1>12, <2>4, <2>5
<1>13. \/ ClusterPasses
       \/ /\ host'.k0s = host.k0s
          /\ \/ ItEnds \/ ItRepeats \/ ItResumes \/ PreflightsPass
             \/ \E s : /\ Settled(s)
                       /\ \/ s \notin {"preflights", "cluster", "installed"}
                          \/ s = "installed" /\ host.k0s = None
                       /\ Same \/ s \in {"flags", "networks", "proxy", "runtime-config"}
  <2> DEFINE Other(s) == /\ Settled(s)
                         /\ \/ s \notin {"preflights", "cluster", "installed"}
                            \/ s = "installed" /\ host.k0s = None
                         /\ Same \/ s \in {"flags", "networks", "proxy", "runtime-config"}
  <2>1. ASSUME NEW s, Going(s) PROVE Settled(s) /\ Same BY <2>1 DEF Going, Settled
  <2>2. NetworksPass => Other("networks") BY DEF NetworksPass
  <2>3. ProxyPasses => Other("proxy") BY DEF ProxyPasses
  <2>4. RuntimeConfigPasses => Other("runtime-config") BY DEF RuntimeConfigPasses
  <2>5. LicensePasses => Other("license") BY <2>1 DEF LicensePasses
  <2>6. BundlePasses => Other("bundle") BY <2>1 DEF BundlePasses
  <2>7. \A s \in Quietly : Going(s) => Other(s) BY <2>1 DEF Quietly
  <2>8. Settled("flags") => Other("flags") OBVIOUS
  <2>9. Going("installed") /\ host.k0s = None => Other("installed") BY <2>1
  <2>10. Going("reporter") => Other("reporter") BY <2>1
  <2>11. (UNCHANGED host /\ HostKept) \/ ClusterPasses BY <1>1, CheckSummary
  <2>12. ~ClusterPasses => host'.k0s = host.k0s BY <2>11
  <2>13. SUFFICES ASSUME ~ClusterPasses, ~ItEnds, ~ItRepeats, ~ItResumes, ~PreflightsPass
                  PROVE  \E s : Other(s)
    BY <2>12
  <2> HIDE DEF Other
  <2> QED
    BY <2>2, <2>3, <2>4, <2>5, <2>6, <2>7, <2>8, <2>9, <2>10, <2>11, <2>13 DEF HostKept
<1> QED BY <1>8, <1>9, <1>10, <1>11, <1>12, <1>13

-----------------------------------------------------------------------------
(* What the other actions leave of the run                                 *)

RunOK == ProgressOK /\ NetworksOK /\ PartsOK /\ HostK0sOK

LEMMA RunStays ==
    ASSUME RunOK, UNCHANGED checkVars
    PROVE  RunOK'
<1>1. UNCHANGED <<release, request>> /\ HostSame(host', host) /\ Same BY DEF checkVars, HostSame, Same
<1>2. /\ FlagNetworks' = FlagNetworks /\ PatchedNetworks' = PatchedNetworks /\ FlagsFit' = FlagsFit
      /\ Rel' = Rel /\ Airgap' = Airgap
  BY <1>1, ConfigStays
<1>3. \A name : FirstValidIPNet(host', name) = FirstValidIPNet(host, name) BY <1>1, NodeStays
<1>4. K0sConfig' = K0sConfig /\ Parsable' = Parsable /\ NetworksAvailable' = NetworksAvailable
  BY <1>1, K0sStays
<1>5. ProgressOK' BY DEF RunOK, ProgressOK, checkVars, LastStep
<1>6. NetworksOK' BY <1>2, <1>3 DEF RunOK, NetworksOK, checkVars, Node
<1>7. PartsOK' BY <1>2 DEF RunOK, PartsOK, checkVars, ChannelExists
<1>8. HostK0sOK' BY <1>4 DEF RunOK, HostK0sOK, checkVars, ClearHost, Said
<1> QED BY <1>5, <1>6, <1>7, <1>8 DEF RunOK

LEMMA StartFields ==
    ASSUME NEW r, Start(r)
    PROVE  /\ request' = r
           /\ DOMAIN run' = DOMAIN NoRun /\ run'.step = "flags" /\ run'.outcome = "none"
           /\ run'.tries = 0 /\ run'.reason = "none" /\ run'.advice = None
<1>1. request' = r /\ run' = [NoRun EXCEPT !.step = "flags"] BY DEF Start
<1> QED BY <1>1 DEF NoRun

LEMMA RunStarts ==
    ASSUME NEW r, Start(r), r.cmd \in {"install", "restore"}
    PROVE  RunOK'
<1>1. /\ request' = r
      /\ DOMAIN run' = DOMAIN NoRun /\ run'.step = "flags" /\ run'.outcome = "none"
      /\ run'.tries = 0 /\ run'.reason = "none" /\ run'.advice = None
  BY StartFields
<1>2. "flags" \in ToSet(StepsOf(r.cmd)) BY NamedSteps DEF Named, InstallNames, RestoreNames
<1>3. ProgressOK' BY <1>1, <1>2 DEF ProgressOK, MaxTries
<1>4. NetworksOK' BY <1>1 DEF NetworksOK, Unchecked, BeforeProxy, BeforeConfig
<1>5. PartsOK' BY <1>1 DEF PartsOK, Licensed, Matched, Reported
<1>6. HostK0sOK' BY <1>1 DEF HostK0sOK, ClearHost, Licensed
<1> QED BY <1>3, <1>4, <1>5, <1>6 DEF RunOK

LEMMA RunNotStarted ==
    ASSUME run' = NoRun, request'.cmd = "install"
    PROVE  RunOK'
<1>1. /\ run'.step = "none" /\ run'.outcome = "none" /\ run'.tries = 0 /\ run'.reason = "none"
      /\ DOMAIN run' = DOMAIN NoRun
  BY DEF NoRun
<1>2. ProgressOK' BY <1>1 DEF ProgressOK, MaxTries
<1>3. NetworksOK' BY <1>1 DEF NetworksOK, Unchecked, BeforeProxy, BeforeConfig
<1>4. PartsOK' BY <1>1 DEF PartsOK, Licensed, Matched, Reported
<1>5. HostK0sOK' BY <1>1 DEF HostK0sOK, ClearHost, Licensed
<1> QED BY <1>2, <1>3, <1>4, <1>5 DEF RunOK

(* The end of an install without an address for the registry.              *)
LEMMA RunFails ==
    ASSUME RunOK, request.cmd = "install", run.outcome = "accepted", UNCHANGED <<release, host, request>>,
           Stop(run, "failed", "registry")
    PROVE  RunOK'
<1>1. DOMAIN run = DOMAIN NoRun /\ run.step = "cluster"
  BY DEF RunOK, ProgressOK, LastStep
<1>2. run' = [run EXCEPT !.outcome = "failed", !.reason = "registry"] BY DEF Stop
<1>3. /\ DOMAIN run' = DOMAIN NoRun /\ run'.step = "cluster" /\ run'.outcome = "failed"
      /\ run'.reason = "registry" /\ run'.tries = run.tries /\ run'.asked = run.asked /\ Same
  BY <1>1, <1>2, RunDomain DEF RunFields, Same
<1>4. HostSame(host', host) BY DEF HostSame
<1>5. /\ FlagNetworks' = FlagNetworks /\ PatchedNetworks' = PatchedNetworks /\ FlagsFit' = FlagsFit
      /\ Rel' = Rel /\ Airgap' = Airgap
  BY ConfigStays
<1>6. \A name : FirstValidIPNet(host', name) = FirstValidIPNet(host, name) BY <1>4, NodeStays
<1>7. K0sConfig' = K0sConfig /\ Parsable' = Parsable /\ NetworksAvailable' = NetworksAvailable
  BY <1>3, <1>4, K0sStays
<1>8. ProgressOK' BY <1>1, <1>3 DEF RunOK, ProgressOK
<1>9. NetworksOK' BY <1>1, <1>3, <1>5, <1>6 DEF RunOK, NetworksOK, Node, Same
<1>10. PartsOK' BY <1>1, <1>3, <1>5 DEF RunOK, PartsOK, ChannelExists
<1>11. HostK0sOK' BY <1>1, <1>3, <1>7 DEF RunOK, HostK0sOK, ClearHost, Said
<1> QED BY <1>8, <1>9, <1>10, <1>11 DEF RunOK

-----------------------------------------------------------------------------
(* The backups that a restore finds                                        *)

LEMMA MismatchKinds ==
    /\ Mismatch.reason # "cluster" /\ Mismatch.reason # "networks"
    /\ Mismatch.reason = "none" =>
          /\ Rel.app = backup.app /\ Rel.version = backup.version /\ Airgap = backup.airgap
          /\ host.k0s.nets = backup.nets /\ request.dir = backup.dir
    /\ \/ Mismatch.advice = None
       \/ /\ host.k0s.nets # backup.nets
          /\ \/ Supernet # None /\ Mismatch.advice = [flag |-> "cidr", value |-> Supernet]
             \/ /\ Supernet = None
                /\ Mismatch.advice = [flag |-> "pods-and-services", value |-> backup.nets]
       \/ /\ request.dir # backup.dir
          /\ Mismatch.advice = [flag |-> "dir", value |-> [dir |-> backup.dir]]
<1> DEFINE Bare(reason) == [reason |-> reason, advice |-> None]
           nets == IF Supernet # None THEN [flag |-> "cidr", value |-> Supernet]
                   ELSE [flag |-> "pods-and-services", value |-> backup.nets]
           dir == [flag |-> "dir", value |-> [dir |-> backup.dir]]
<1>1. Mismatch = CASE Rel.app # backup.app -> Bare("app")
                   [] Rel.version # backup.version -> Bare("version")
                   [] Airgap # backup.airgap -> Bare("airgap")
                   [] host.k0s.nets # backup.nets -> [reason |-> "backup-networks", advice |-> nets]
                   [] request.dir # backup.dir -> [reason |-> "directory", advice |-> dir]
                   [] OTHER -> Bare("none")
  BY DEF Mismatch, Supernet
<1>2. \/ Mismatch = Bare("app") \/ Mismatch = Bare("version") \/ Mismatch = Bare("airgap")
      \/ host.k0s.nets # backup.nets /\ Mismatch = [reason |-> "backup-networks", advice |-> nets]
      \/ request.dir # backup.dir /\ Mismatch = [reason |-> "directory", advice |-> dir]
      \/ /\ Mismatch = Bare("none")
         /\ Rel.app = backup.app /\ Rel.version = backup.version /\ Airgap = backup.airgap
         /\ host.k0s.nets = backup.nets /\ request.dir = backup.dir
  BY <1>1
<1> HIDE DEF Mismatch
<1>3. \/ nets = [flag |-> "cidr", value |-> Supernet] /\ Supernet # None
      \/ nets = [flag |-> "pods-and-services", value |-> backup.nets] /\ Supernet = None
  OBVIOUS
<1> HIDE DEF nets, dir
<1>4. CASE host.k0s.nets # backup.nets /\ Mismatch = [reason |-> "backup-networks", advice |-> nets]
  <2>1. Mismatch.reason = "backup-networks" /\ Mismatch.advice = nets BY <1>4
  <2> QED BY <1>3, <1>4, <2>1
<1>5. CASE request.dir # backup.dir /\ Mismatch = [reason |-> "directory", advice |-> dir]
  <2>1. Mismatch.reason = "directory" /\ Mismatch.advice = dir BY <1>5
  <2> QED BY <1>5, <2>1 DEF dir
<1>6. CASE Mismatch = Bare("app") \/ Mismatch = Bare("version") \/ Mismatch = Bare("airgap") BY <1>6
<1>7. CASE /\ Mismatch = Bare("none")
           /\ Rel.app = backup.app /\ Rel.version = backup.version /\ Airgap = backup.airgap
           /\ host.k0s.nets = backup.nets /\ request.dir = backup.dir
  BY <1>7
<1> QED BY <1>2, <1>4, <1>5, <1>6, <1>7

LEMMA LookSummary ==
    ASSUME GivenOK, ProgressOK, LookForBackups
    PROVE  /\ UNCHANGED <<release, request>> /\ HostSame(host', host) /\ host'.k0s = host.k0s
           /\ HostOK(host') /\ request.cmd = "restore"
           /\ run.step = "backups" /\ run'.step = "backups" /\ run.outcome = "none"
           /\ DOMAIN run' = DOMAIN NoRun /\ run.asked \subseteq run'.asked /\ Same
           /\ run'.tries \in 0..(MaxTries - 1) 
           /\ run'.reason = run.reason \/ run'.reason \notin {"cluster", "networks"}
           /\ \/ /\ Mismatch.reason = "none" /\ run'.advice = run.advice
                 /\ run'.outcome \in {"accepted", "refused", "aborted", "crashed"}
              \/ run'.outcome = "refused" /\ run'.advice = Mismatch.advice
<1>1. /\ run.step = "backups" /\ run.outcome = "none" /\ UNCHANGED <<release, request>>
      /\ host' = [host EXCEPT !.state = "confirm"]
  BY DEF LookForBackups, At
<1>2. OnCourse BY <1>1 DEF OnCourse, GivenOK, ProgressOK
<1>3. request.cmd = "restore"
  BY <1>1, <1>2, NamedSteps DEF OnCourse, Named, InstallNames
<1>4. HostSame(host', host) /\ host'.k0s = host.k0s /\ host'.state = "confirm" /\ DOMAIN host' = DOMAIN host
  BY <1>1 DEF GivenOK, HostOK, HostSame
<1>5. HostOK(host') BY <1>4 DEF GivenOK, HostOK, HostSame
<1>6. CASE Mismatch.reason = "none"
  <2>1. Going("backups") \/ Ended("restore") BY <1>1, <1>2, <1>6, AskMoves DEF LookForBackups
  <2>2. CASE Going("backups")
    <3>1. run'.step = "backups" /\ run'.outcome = "accepted"
      BY <1>3, <2>2 DEF Going, Passed, Advanced, Follows
    <3> QED BY <1>1, <1>2, <1>3, <1>4, <1>5, <1>6, <2>2, <3>1 DEF Going, Further
  <2>3. CASE Ended("restore")
    BY <1>1, <1>2, <1>3, <1>4, <1>5, <1>6, <2>3 DEF Ended, Further
  <2> QED BY <2>1, <2>2, <2>3
<1>7. CASE Mismatch.reason # "none"
  <2>1. run' = [run EXCEPT !.outcome = "refused", !.reason = Mismatch.reason, !.advice = Mismatch.advice]
    BY <1>7 DEF LookForBackups
  <2>2. DOMAIN run = RunFields BY <1>2, RunDomain DEF OnCourse
  <2> HIDE DEF Mismatch
  <2>3. /\ DOMAIN run' = DOMAIN NoRun /\ run'.step = run.step /\ run'.outcome = "refused"
        /\ run'.reason = Mismatch.reason /\ run'.advice = Mismatch.advice /\ run'.asked = run.asked
        /\ run'.tries = run.tries /\ Same
    BY <2>1, <2>2, RunDomain DEF RunFields, Same
  <2> QED BY <1>1, <1>2, <1>3, <1>4, <1>5, <2>3, MismatchKinds DEF OnCourse
<1> QED BY <1>6, <1>7

-----------------------------------------------------------------------------
(* What is given, and the release                                          *)

LEMMA SupernetType ==
    ASSUME NEW a \in Entries, NEW b
    PROVE  NetworksAreAdjacentAndSameSize(a, b) \in Entries \cup {None}
<1>1. a.base \in Nat /\ a.base \in Address /\ a.len \in 0..W BY AddressType DEF Entries
<1>2. First(a) \in Nat /\ First(a) <= a.base BY <1>1, FirstType
<1>3. First(a) \in Address
  <2>1. 0 \in 0..W BY WAssumption
  <2>2. Size(0) \in Nat BY <2>1, SizeType
  <2> QED BY <1>1, <1>2, <2>2, AddressType
<1>4. 0 \in Address
  <2>1. 0 \in 0..W BY WAssumption
  <2>2. Size(0) \in Nat /\ Size(0) > 0 BY <2>1, SizeType
  <2> QED BY <2>2, AddressType
<1>5. Malformed \in Entries BY <1>4, WAssumption DEF Malformed, Entries
<1>6. ASSUME a.len # 0 PROVE Block(First(a), a.len - 1) \in Entries
  <2>1. a.len - 1 \in 0..W BY <1>1, <1>6, WAssumption
  <2> QED BY <1>3, <2>1 DEF Block, Entries
<1> QED BY <1>5, <1>6 DEF NetworksAreAdjacentAndSameSize

LEMMA RequestFlags ==
    ASSUME NEW r, NEW cmd, IsRequest(r, cmd)
    PROVE  IsFlags(r) /\ r.cmd = cmd
  BY DEF IsRequest, IsFlags

LEMMA NewHost == ASSUME NEW h, IsHost(h) PROVE HostOK(h) /\ h.state = "new"
  BY DEF IsHost, HostOK

(* The advice that a refused restore gives.                                *)
LEMMA AdviceKinds ==
    ASSUME GivenOK, ProgressOK, BackupOK, ClusterOK, AdviceOK, run.advice # None
    PROVE  LET a == run.advice IN
           /\ request.cmd = "restore" /\ backup # None
           /\ \/ /\ host.k0s.nets # backup.nets
                 /\ \/ a = [flag |-> "cidr", value |-> Supernet] /\ Supernet \in Entries
                    \/ /\ a = [flag |-> "pods-and-services", value |-> backup.nets] /\ Supernet = None
                       /\ {backup.nets.pods, backup.nets.services} \subseteq Entries
              \/ request.dir # backup.dir /\ a = [flag |-> "dir", value |-> [dir |-> backup.dir]]
<1>1. run.step = "backups" /\ run.advice = Mismatch.advice BY DEF AdviceOK
<1>2. request.cmd = "restore" BY <1>1, NamedSteps DEF GivenOK, ProgressOK, Named, InstallNames
<1>3. backup # None /\ {backup.nets.pods, backup.nets.services} \subseteq Entries
  BY <1>2 DEF BackupOK, ClusterOK
<1>4. Supernet \in Entries \cup {None} BY <1>3, SupernetType DEF Supernet
<1> QED BY <1>1, <1>2, <1>3, <1>4, MismatchKinds

LEMMA AdvisedFlags ==
    ASSUME GivenOK, ProgressOK, BackupOK, ClusterOK, AdviceOK, run.advice # None
    PROVE  LET r == Advised(request, run.advice) IN
           /\ IsFlags(r) /\ r.cmd = "restore"
           /\ \/ /\ run.advice = [flag |-> "cidr", value |-> Supernet] /\ Supernet \in Entries
                 /\ r.cidr = Supernet /\ r.pods = None /\ r.services = None
              \/ run.advice = [flag |-> "pods-and-services", value |-> backup.nets] /\ Supernet = None
              \/ /\ run.advice = [flag |-> "dir", value |-> [dir |-> backup.dir]]
                 /\ r.dir = backup.dir /\ r.cidr = request.cidr /\ r.pods = request.pods
                 /\ r.services = request.services
<1> DEFINE a == run.advice
           r == Advised(request, a)
<1>1. IsFlags(request) BY DEF GivenOK
<1>2. request.cmd = "restore" BY AdviceKinds
<1>3. CASE a = [flag |-> "cidr", value |-> Supernet] /\ Supernet \in Entries
  <2>1. r = [request EXCEPT !.cidr = Supernet, !.pods = None, !.services = None] BY <1>3 DEF Advised
  <2> HIDE DEF r
  <2>2. /\ r.cidr = Supernet /\ r.pods = None /\ r.services = None /\ r.overrides = request.overrides
        /\ r.proxy = request.proxy /\ DOMAIN r = DOMAIN request /\ r.cmd = request.cmd
    BY <1>1, <2>1 DEF IsFlags
  <2>3. IsFlags(r) BY <1>1, <1>3, <2>2 DEF IsFlags
  <2> QED BY <1>2, <1>3, <2>2, <2>3 DEF r
<1>4. CASE /\ a = [flag |-> "pods-and-services", value |-> backup.nets] /\ Supernet = None
           /\ {backup.nets.pods, backup.nets.services} \subseteq Entries
  <2>1. r = [request EXCEPT !.cidr = None, !.pods = backup.nets.pods, !.services = backup.nets.services]
    BY <1>4 DEF Advised
  <2> HIDE DEF r
  <2>2. /\ r.cidr = None /\ r.pods = backup.nets.pods /\ r.services = backup.nets.services
        /\ r.overrides = request.overrides
        /\ r.proxy = request.proxy /\ DOMAIN r = DOMAIN request /\ r.cmd = request.cmd
    BY <1>1, <2>1 DEF IsFlags
  <2>3. IsFlags(r) BY <1>1, <1>4, <2>2 DEF IsFlags
  <2> QED BY <1>2, <1>4, <2>2, <2>3 DEF r
<1>5. CASE a = [flag |-> "dir", value |-> [dir |-> backup.dir]]
  <2>1. r = [request EXCEPT !.dir = backup.dir] BY <1>5 DEF Advised
  <2> HIDE DEF r
  <2>2. /\ r.cidr = request.cidr /\ r.pods = request.pods /\ r.services = request.services
        /\ r.overrides = request.overrides /\ r.dir = backup.dir
        /\ r.proxy = request.proxy /\ DOMAIN r = DOMAIN request /\ r.cmd = request.cmd
    BY <1>1, <2>1 DEF IsFlags
  <2>3. IsFlags(r) BY <1>1, <2>2 DEF IsFlags
  <2> QED BY <1>2, <1>5, <2>2, <2>3 DEF r
<1> QED BY <1>3, <1>4, <1>5, AdviceKinds

(* Whatever happens, the vendor's files and the plan stay as they are.     *)
LEMMA VendorStays == ASSUME Next PROVE UNCHANGED <<vendor, plan>>
  BY DEF Next, LintNext, StartLint, ValidateFile, ListChannels, ReadChannel, ChannelsRead, ReadHostnames,
     ReadApp, EndLint, Ship, Install, Check, Installed, Join, Operate, TakeBackup, Restore, LookForBackups,
     FollowAdvice, checkVars, deliveryVars

LEMMA GivenStays ==
    ASSUME GivenOK, UNCHANGED <<vendor, plan>>, HostOK(host'), IsFlags(request'),
           request'.cmd \in {"install", "restore"}, request'.cmd = "install" => request' = plan.request
    PROVE  GivenOK'
  BY DEF GivenOK

LEMMA GivenStep ==
    ASSUME DeliveryInv, Next
    PROVE  GivenOK'
<1> USE DEF DeliveryInv
<1>1. UNCHANGED <<vendor, plan>> BY VendorStays
<1>2. CASE UNCHANGED <<host, request>> BY <1>1, <1>2, GivenStays DEF GivenOK
<1>3. CASE Install
  <2>1. request' = plan.request /\ UNCHANGED host BY <1>3 DEF Install, Start
  <2>2. IsFlags(request') /\ request'.cmd = "install" BY <2>1, RequestFlags DEF GivenOK
  <2> QED BY <1>1, <2>1, <2>2, GivenStays DEF GivenOK
<1>4. CASE Check
  <2>1. CheckNext BY <1>4 DEF Check
  <2>2. OnCourse BY <2>1, CheckIsOnCourse
  <2>3. HostOK(host') /\ UNCHANGED request BY <2>1, <2>2, CheckKinds, CheckKeepsHost
  <2> QED BY <1>1, <2>3, GivenStays DEF GivenOK
<1>5. ASSUME NEW h \in OtherHosts, NEW r \in Restores, Restore(h, r) PROVE GivenOK'
  <2>1. request' = r /\ host' = h BY <1>5 DEF Restore, Start
  <2>2. IsHost(h) /\ IsRequest(r, "restore") BY OtherHostsAssumption, RestoresAssumption
  <2> QED BY <1>1, <2>1, <2>2, RequestFlags, NewHost, GivenStays
<1>6. CASE LookForBackups
  <2>1. HostOK(host') /\ UNCHANGED request BY <1>6, LookSummary
  <2> QED BY <1>1, <2>1, GivenStays DEF GivenOK
<1>7. ASSUME NEW reset \in BOOLEAN, FollowAdvice(reset) PROVE GivenOK'
  <2>1. /\ run.advice # None /\ request' = Advised(request, run.advice)
        /\ host' = IF reset THEN [host EXCEPT !.k0s = None, !.state = "new"] ELSE host
    BY <1>7 DEF FollowAdvice, Start
  <2>2. IsFlags(request') /\ request'.cmd = "restore" BY <2>1, AdvisedFlags
  <2>3. HostOK(host') BY <2>1 DEF GivenOK, HostOK
  <2> QED BY <1>1, <2>2, <2>3, GivenStays
<1>8. \/ UNCHANGED <<host, request>> \/ Install \/ Check
      \/ \E h \in OtherHosts, r \in Restores : Restore(h, r)
      \/ LookForBackups \/ \E reset \in BOOLEAN : FollowAdvice(reset)
  BY DEF Next, Ship, Installed, Join, Operate, TakeBackup, checkVars
<1> QED BY <1>2, <1>3, <1>4, <1>5, <1>6, <1>7, <1>8

LEMMA ReleaseStep ==
    ASSUME DeliveryInv, Next
    PROVE  ReleaseOK'
<1> USE DEF DeliveryInv
<1>1. UNCHANGED <<vendor, plan>> BY VendorStays
<1>2. CASE UNCHANGED <<shipped, release, run, request>> BY <1>1, <1>2 DEF ReleaseOK
<1>3. CASE shipped /\ shipped' /\ UNCHANGED <<release, request>> BY <1>1, <1>3 DEF ReleaseOK
<1>4. CASE Ship BY <1>4, <1>1 DEF Ship, ReleaseOK
<1>5. CASE Install
  <2>1. shipped /\ shipped' /\ UNCHANGED release /\ request.cmd = "install"
    <3>1. run.step = "none" BY <1>5 DEF Install, NoRun
    <3>2. run = NoRun /\ request.cmd = "install" BY <3>1 DEF ProgressOK
    <3> QED BY <1>5, <3>2 DEF Install, deliveryVars
  <2> QED BY <1>1, <2>1 DEF ReleaseOK
<1>6. CASE Check
  <2>1. CheckNext /\ UNCHANGED shipped BY <1>6 DEF Check, deliveryVars
  <2>2. OnCourse BY <2>1, CheckIsOnCourse
  <2>3. UNCHANGED <<release, request>> BY <2>1, <2>2, CheckKinds
  <2>4. run # NoRun
    <3>1. run.step # "none" BY <2>2, NamedSteps DEF OnCourse, Named, InstallNames, RestoreNames
    <3> QED BY <3>1 DEF NoRun
  <2>5. shipped BY <2>4 DEF ReleaseOK
  <2> QED BY <1>1, <2>1, <2>3, <2>5 DEF ReleaseOK
<1>7. ASSUME cluster # None PROVE shipped BY <1>7 DEF ClusterOK, ReleaseOK
<1>8. ASSUME NEW h \in OtherHosts, NEW r \in Restores, Restore(h, r) PROVE ReleaseOK'
  <2>1. /\ request' = r /\ backup # None /\ request.cmd = "install" /\ UNCHANGED shipped
        /\ release' \in {release, Later(release)}
    BY <1>8 DEF Restore, Start, deliveryVars
  <2>2. shipped /\ release = ParseRelease(vendor.files) BY <1>7, <2>1 DEF BackupOK, ReleaseOK
  <2>3. request'.cmd = "restore" BY <2>1, RestoresAssumption DEF IsRequest
  <2> QED BY <1>1, <2>1, <2>2, <2>3 DEF ReleaseOK
<1>9. CASE LookForBackups
  <2>1. run.step = "backups" /\ UNCHANGED <<release, request, shipped>>
    BY <1>9, LookSummary DEF LookForBackups, deliveryVars
  <2>2. run # NoRun BY <2>1 DEF NoRun
  <2> QED BY <1>1, <2>1, <2>2 DEF ReleaseOK
<1>10. ASSUME NEW reset \in BOOLEAN, FollowAdvice(reset) PROVE ReleaseOK'
  <2>1. run.advice # None /\ UNCHANGED <<release, shipped>> /\ request' = Advised(request, run.advice)
    BY <1>10 DEF FollowAdvice, Start
  <2>2. request'.cmd = "restore" /\ request.cmd = "restore" BY <2>1, AdvisedFlags, AdviceKinds
  <2>3. shipped BY <1>7, <2>2 DEF BackupOK
  <2> QED BY <1>1, <2>1, <2>2, <2>3 DEF ReleaseOK
<1>11. CASE Installed
  <2>1. run # NoRun /\ UNCHANGED <<release, request, shipped>>
    <3>1. run.outcome # "none" BY <1>11 DEF Installed
    <3>2. run # NoRun BY <3>1 DEF NoRun
    <3> QED BY <1>11, <3>2 DEF Installed
  <2> QED BY <1>1, <2>1 DEF ReleaseOK
<1>12. \/ UNCHANGED <<shipped, release, run, request>> \/ Ship \/ Install \/ Check \/ Installed
       \/ \E h \in OtherHosts, r \in Restores : Restore(h, r)
       \/ LookForBackups \/ \E reset \in BOOLEAN : FollowAdvice(reset)
  BY DEF Next, Join, Operate, TakeBackup, checkVars, deliveryVars
<1> QED BY <1>2, <1>4, <1>5, <1>6, <1>8, <1>9, <1>10, <1>11, <1>12

(* Where the run of a command is, and what it passed.                      *)
LEMMA RunStep ==
    ASSUME DeliveryInv, Next
    PROVE  RunOK'
<1> USE DEF DeliveryInv
<1>1. RunOK BY DEF RunOK
<1>2. CASE UNCHANGED checkVars BY <1>1, <1>2, RunStays
<1>3. CASE Ship
  <2>1. run = NoRun BY <1>3 DEF Ship, ReleaseOK
  <2>2. run' = NoRun /\ UNCHANGED request BY <1>3, <2>1 DEF Ship
  <2>3. request.cmd = "install" BY <2>1 DEF ProgressOK, NoRun
  <2> QED BY <2>2, <2>3, RunNotStarted
<1>4. CASE Install
  <2>1. Start(plan.request) BY <1>4 DEF Install
  <2>2. plan.request.cmd = "install" BY DEF GivenOK, IsRequest
  <2> QED BY <2>1, <2>2, RunStarts
<1>5. CASE Check
  <2>1. CheckNext BY <1>5 DEF Check
  <2> QED BY <2>1, CheckProgress, CheckNetworksOK, CheckPartsOK, CheckHostK0sOK DEF RunOK
<1>6. CASE Installed
  <2>1. request.cmd = "install" /\ run.outcome = "accepted" /\ UNCHANGED <<release, host, request>>
    BY <1>6 DEF Installed
  <2>2. CASE UNCHANGED run BY <1>2, <2>1, <2>2 DEF checkVars
  <2>3. CASE Stop(run, "failed", "registry") BY <1>1, <2>1, <2>3, RunFails
  <2> QED BY <1>6, <2>2, <2>3 DEF Installed
<1>7. ASSUME NEW h \in OtherHosts, NEW r \in Restores, Restore(h, r) PROVE RunOK'
  <2>1. Start(r) /\ r.cmd = "restore" BY <1>7, RestoresAssumption DEF Restore, IsRequest
  <2> QED BY <2>1, RunStarts
<1>8. CASE LookForBackups
  <2>1. /\ UNCHANGED <<release, request>> /\ HostSame(host', host) /\ host'.k0s = host.k0s
        /\ request.cmd = "restore"
        /\ run.step = "backups" /\ run'.step = "backups" /\ run.outcome = "none"
        /\ DOMAIN run' = DOMAIN NoRun /\ run.asked \subseteq run'.asked /\ Same
        /\ run'.tries \in 0..(MaxTries - 1)
        /\ run'.reason = run.reason \/ run'.reason \notin {"cluster", "networks"}
        /\ run'.outcome \in {"accepted", "refused", "aborted", "crashed"}
    BY <1>8, LookSummary
  <2>2. /\ FlagNetworks' = FlagNetworks /\ PatchedNetworks' = PatchedNetworks /\ FlagsFit' = FlagsFit
        /\ Rel' = Rel /\ Airgap' = Airgap
    BY <2>1, ConfigStays
  <2>3. \A name : FirstValidIPNet(host', name) = FirstValidIPNet(host, name) BY <2>1, NodeStays
  <2>4. K0sConfig' = K0sConfig BY <2>1, K0sStays
  <2>5. ProgressOK' BY <2>1, NamedSteps DEF ProgressOK, LastStep, Named
  <2>6. NetworksOK'
    BY <2>1, <2>2, <2>3 DEF NetworksOK, Node, Same, HostSame
  <2>7. PartsOK' BY <2>1 DEF PartsOK
  <2>8. HostK0sOK' BY <2>1, <2>4 DEF HostK0sOK, ClearHost, Said
  <2> QED BY <2>5, <2>6, <2>7, <2>8 DEF RunOK
<1>9. ASSUME NEW reset \in BOOLEAN, FollowAdvice(reset) PROVE RunOK'
  <2>1. Start(Advised(request, run.advice)) /\ run.advice # None BY <1>9 DEF FollowAdvice
  <2>2. Advised(request, run.advice).cmd = "restore" BY <2>1, AdvisedFlags
  <2> QED BY <2>1, <2>2, RunStarts
<1>10. \/ UNCHANGED checkVars \/ Ship \/ Install \/ Check \/ Installed
       \/ \E h \in OtherHosts, r \in Restores : Restore(h, r)
       \/ LookForBackups \/ \E reset \in BOOLEAN : FollowAdvice(reset)
  BY DEF Next, Join, Operate, TakeBackup
<1> QED BY <1>2, <1>3, <1>4, <1>5, <1>6, <1>7, <1>8, <1>9, <1>10

-----------------------------------------------------------------------------
(* The release after this one differs in its version only.                 *)

LEMMA EmptyFields ==
    DOMAIN EmptyRelease = {"application", "appConfig", "preflights", "ecConfig", "channel", "backup",
                           "restore", "charts", "archives", "broken"}
  BY DEF EmptyRelease

LEMMA LaterIsAlike ==
    ASSUME GivenOK, NEW r \in ReleaseSet(vendor.files)
    PROVE  Config(Later(r)) = Config(r) /\ GetDomains(Later(r)) = GetDomains(r)
<1>1. /\ Later(r).ecConfig = r.ecConfig
      /\ Later(r).channel = IF r.channel = None THEN None ELSE NextVersion(r.channel)
  BY LaterFields
<1>2. Config(Later(r)) = Config(r) BY <1>1 DEF Config, HasConfig
<1> DEFINE d == r.channel
<1>3. CASE d = None
  <2>1. ChannelRelease(Later(r)) = ChannelRelease(r) BY <1>1, <1>3 DEF ChannelRelease
  <2> QED BY <1>2, <2>1 DEF GetDomains
<1>4. CASE d # None
  <2>1. d \in AllDocuments(vendor.files) BY <1>4 DEF ReleaseSet
  <2>2. IsDocument(d) BY <2>1 DEF GivenOK, IsVendor
  <2>3. Later(r).channel = NextVersion(d) /\ NextVersion(d) # None BY <1>1, <1>4, <2>2 DEF IsDocument
  <2>4. CASE d.kind # "channel-release"
    <3>1. NextVersion(d) = d BY <2>4 DEF NextVersion
    <3>2. ChannelRelease(Later(r)) = ChannelRelease(r) BY <2>3, <3>1 DEF ChannelRelease
    <3> QED BY <1>2, <3>2 DEF GetDomains
  <2>5. CASE d.kind = "channel-release"
    <3> DEFINE c == d.config
               n == NextVersion(d)
    <3>1. n = [d EXCEPT !.config.version = "v2"] BY <2>5 DEF NextVersion
    <3>2. DOMAIN d = {"kind", "config"} /\ DOMAIN c = DOMAIN NoChannel /\ c # None /\ n.config # None
      BY <2>2, <2>5 DEF IsDocument
    <3> HIDE DEF n
    <3>3. n.kind = "channel-release" /\ n.config = [c EXCEPT !.version = "v2"] BY <2>5, <3>1, <3>2
    <3>4. n.config.domains = c.domains BY <3>2, <3>3 DEF NoChannel
    <3>5. ChannelRelease(r) = c /\ ChannelRelease(Later(r)) = n.config
      BY <1>4, <2>3, <2>5, <3>3 DEF ChannelRelease, n
    <3> QED BY <1>2, <3>2, <3>4, <3>5 DEF GetDomains
  <2> QED BY <2>4, <2>5
<1> QED BY <1>2, <1>3, <1>4

(* What of the release the cluster and its charts rely on.                 *)
Alike == Config(release') = Config(release) /\ GetDomains(release') = GetDomains(release)
         /\ release'.ecConfig = release.ecConfig

LEMMA RestoreKeeps ==
    ASSUME DeliveryInv, NEW h, NEW r, Restore(h, r)
    PROVE  Alike
<1>1. cluster # None /\ request.cmd = "install" /\ release' \in {release, Later(release)}
  BY DEF DeliveryInv, BackupOK, Restore
<1>2. release = ParseRelease(vendor.files) BY <1>1 DEF DeliveryInv, ClusterOK, ReleaseOK
<1>3. release \in ReleaseSet(vendor.files) BY <1>2, VendorFiles DEF DeliveryInv, GivenOK
<1>4. Later(release).ecConfig = release.ecConfig BY <1>3, LaterFields
<1> QED BY <1>1, <1>3, <1>4, LaterIsAlike DEF Alike, DeliveryInv

(* Once a command has run, the release stays alike.                        *)
LEMMA ReleaseStays ==
    ASSUME DeliveryInv, Next, run # NoRun
    PROVE  Alike /\ run' # NoRun
<1>1. shipped BY DEF DeliveryInv, ReleaseOK
<1>2. ~Ship /\ ~Install BY <1>1 DEF Ship, Install
<1>3. ASSUME NEW h \in OtherHosts, NEW r \in Restores, Restore(h, r) PROVE Alike /\ run' # NoRun
  <2>1. run'.step = "flags" BY <1>3, StartFields DEF Restore
  <2> QED BY <1>3, <2>1, RestoreKeeps DEF NoRun
<1>4. CASE Check
  <2>1. CheckNext BY <1>4 DEF Check
  <2>2. OnCourse BY <2>1, CheckIsOnCourse DEF DeliveryInv
  <2>3. UNCHANGED release /\ run'.step # "none"
    <3>1. ProgressOK' BY <2>1, CheckProgress DEF DeliveryInv
    <3>2. UNCHANGED <<release, request>> /\ (ItEnds \/ ItRepeats \/ ItResumes \/ Settled(run.step))
      BY <2>1, <2>2, CheckKinds
    <3>3. Named(request.cmd, run.step) /\ request.cmd \in {"install", "restore"} BY <2>2, NamedSteps DEF OnCourse
    <3>4. "none" \notin InstallNames \cup RestoreNames BY DEF InstallNames, RestoreNames
    <3>5. ASSUME Settled(run.step) PROVE run'.step # "none"
      BY <3>3, <3>5, AdvanceNamed DEF Settled, Passed
    <3> QED BY <3>2, <3>3, <3>4, <3>5 DEF ItEnds, Ended, ItRepeats, ItResumes, Named
  <2> QED BY <2>3 DEF Alike, NoRun
<1>5. CASE LookForBackups
  <2>1. UNCHANGED release /\ run'.step = "backups" BY <1>5, LookSummary DEF DeliveryInv
  <2> QED BY <2>1 DEF Alike, NoRun
<1>6. ASSUME NEW reset \in BOOLEAN, FollowAdvice(reset) PROVE Alike /\ run' # NoRun
  <2>1. run'.step = "flags" /\ UNCHANGED release BY <1>6, StartFields DEF FollowAdvice
  <2> QED BY <2>1 DEF Alike, NoRun
<1>7. CASE UNCHANGED <<release, run>> BY <1>7 DEF Alike
<1>8. CASE Installed
  <2>1. UNCHANGED release /\ run.outcome = "accepted" BY <1>8 DEF Installed
  <2>2. CASE UNCHANGED run BY <2>1, <2>2 DEF Alike
  <2>3. CASE Stop(run, "failed", "registry")
    <3>1. DOMAIN run = DOMAIN NoRun BY DEF DeliveryInv, ProgressOK
    <3>2. run'.outcome = "failed" BY <2>3, <3>1, RunDomain DEF Stop, RunFields
    <3> QED BY <2>1, <3>2 DEF Alike, NoRun
  <2> QED BY <1>8, <2>2, <2>3 DEF Installed
<1>9. \/ UNCHANGED <<release, run>> \/ Ship \/ Install \/ Check \/ Installed
      \/ \E h \in OtherHosts, r \in Restores : Restore(h, r)
      \/ LookForBackups \/ \E reset \in BOOLEAN : FollowAdvice(reset)
  BY DEF Next, Join, Operate, TakeBackup, checkVars
<1> QED BY <1>2, <1>3, <1>4, <1>5, <1>6, <1>7, <1>8, <1>9

-----------------------------------------------------------------------------
(* What the cluster is made of                                             *)

LEMMA MinOf ==
    ASSUME NEW s \in SUBSET Nat, s # {}
    PROVE  Min(s) \in s
<1>1. \E x \in s : \A y \in s : x <= y BY LeastNumber
<1> QED BY <1>1 DEF Min

LEMMA NodeType ==
    ASSUME HostOK(host), NEW name
    PROVE  Node(name) \in Blocks \cup {None}
<1> DEFINE all == host.interfaces
           named == {j \in DOMAIN all : ValidInterface(all[j]) /\ name \in {None, all[j].name}}
<1>1. all \in Seq(Interfaces) BY DEF HostOK
<1>2. DOMAIN all \subseteq Nat /\ \A j \in DOMAIN all : all[j] \in Interfaces
  <2> HIDE DEF all
  <2>1. DOMAIN all = 1..Len(all) /\ Len(all) \in Nat BY <1>1
  <2>2. \A j \in 1..Len(all) : all[j] \in Interfaces BY <1>1
  <2> QED BY <2>1, <2>2
<1>3. ASSUME NEW i \in Interfaces PROVE FirstAddress(i) \in Blocks \cup {None}
  <2> DEFINE addrs == i.addrs
             usable == {j \in DOMAIN addrs : addrs[j].v4 /\ ~addrs[j].loopback}
  <2> DEFINE A == [v4 : BOOLEAN, loopback : BOOLEAN, net : Blocks]
  <2>1. addrs \in Seq(A) BY DEF Interfaces
  <2>2. DOMAIN addrs \subseteq Nat /\ \A j \in DOMAIN addrs : addrs[j].net \in Blocks
    <3> HIDE DEF addrs, A
    <3>1. DOMAIN addrs = 1..Len(addrs) /\ Len(addrs) \in Nat BY <2>1
    <3>2. \A j \in 1..Len(addrs) : addrs[j] \in A BY <2>1
    <3>3. \A x \in A : x.net \in Blocks BY DEF A
    <3> QED BY <3>1, <3>2, <3>3
  <2>3. FirstAddress(i) = IF usable = {} THEN None ELSE addrs[Min(usable)].net BY DEF FirstAddress
  <2>4. usable \subseteq DOMAIN addrs /\ usable \in SUBSET Nat BY <2>2
  <2> HIDE DEF usable, addrs
  <2>5. usable # {} => Min(usable) \in usable BY <2>4, MinOf
  <2> QED BY <2>2, <2>3, <2>4, <2>5
<1>4. Node(name) = IF named = {} THEN None ELSE FirstAddress(all[Min(named)])
  BY DEF Node, FirstValidIPNet
<1>5. named \subseteq DOMAIN all /\ named \in SUBSET Nat BY <1>2
<1> HIDE DEF named, all
<1>6. named # {} => Min(named) \in named BY <1>5, MinOf
<1> QED BY <1>2, <1>3, <1>4, <1>5, <1>6

LEMMA DefaultsType ==
    ASSUME NEW flags \in ProxyFlags, NEW env, {env.lower, env.upper} \subseteq ProxyFlags
    PROVE  LET p == WithDefaults(flags, env)
           IN  p.no \in Seq(Entries) \cup {None} /\ DOMAIN p = {"http", "https", "no"}
<1>1. DOMAIN NoProxies = {"http", "https", "no"} BY DEF NoProxies
<1> DEFINE p == WithDefaults(flags, env)
<1>2. DOMAIN p = {"http", "https", "no"} BY <1>1 DEF WithDefaults
<1>3. p["no"] = IF flags["no"] # None THEN flags["no"]
                ELSE IF env.lower["no"] # None THEN env.lower["no"] ELSE env.upper["no"]
  BY <1>1 DEF WithDefaults
<1> HIDE DEF p
<1>4. \A x \in ProxyFlags : x["no"] \in Seq(Entries) \cup {None} BY DEF ProxyFlags
<1>5. p["no"] \in Seq(Entries) \cup {None} BY <1>3, <1>4
<1> QED BY <1>2, <1>5 DEF p

LEMMA ThreeBefore ==
    ASSUME NEW S, NEW a \in S, NEW b \in S, NEW c \in S, NEW t \in Seq(S)
    PROVE  LET s == <<a, b, c>> \o t
           IN  s \in Seq(S) /\ Len(s) >= 3 /\ s[2] = b /\ s[3] = c
<1> DEFINE u == <<a, b, c>>
<1>1. u \in Seq(S) /\ Len(u) = 3 /\ u[2] = b /\ u[3] = c OBVIOUS
<1> HIDE DEF u
<1>2. u \o t \in Seq(S) BY <1>1, ConcatProperties
<1>3. Len(u \o t) = Len(u) + Len(t) BY <1>1, ConcatProperties
<1>4. Len(t) \in Nat OBVIOUS
<1>5. Len(u \o t) >= 3 BY <1>1, <1>3, <1>4
<1>6. \A i \in 1..Len(u) + Len(t) : (u \o t)[i] = IF i <= Len(u) THEN u[i] ELSE t[i - Len(u)]
  BY <1>1, ConcatProperties
<1> DEFINE w == u \o t
           n == Len(t)
<1>7. w[2] = u[2] /\ w[3] = u[3]
  <2>1. n \in Nat /\ \A i \in 1..(3 + n) : w[i] = IF i <= 3 THEN u[i] ELSE t[i - 3]
    BY <1>1, <1>4, <1>6
  <2> HIDE DEF w, n
  <2> QED BY <2>1
<1> QED BY <1>1, <1>2, <1>5, <1>7 DEF u

(* A proxy passes by the networks it was given and the node's own.         *)
LEMMA ProxyFits ==
    ASSUME NEW p, p.no \in Seq(Entries) \cup {None},
           NEW nets, nets.pods \in Entries, nets.services \in Entries, NEW node \in Blocks,
           ~ProxySpec(p, nets, node).err, HasProxy(ProxySpec(p, nets, node))
    PROVE  LET list == ProxySpec(p, nets, node).list
           IN  /\ NoProxyHasLocalIP(list, node.base)
               /\ {nets.pods, nets.services} \subseteq ToSet(list)
<1> DEFINE X == Entries \cup {HostName}
           entries == NoProxyEntries(p, nets)
           more == IF p.no = None THEN <<>> ELSE p.no
           start == <<HostName, nets.pods, nets.services>>
           Listed(list) == [err |-> FALSE, http |-> p.http, https |-> p.https, list |-> list]
           Error == [err |-> TRUE, http |-> None, https |-> None, list |-> <<>>]
           s == ProxySpec(p, nets, node)
<1>1. more \in Seq(X)
  <2>1. CASE p.no = None BY <2>1
  <2>2. CASE p.no # None
    <3>1. p.no \in Seq(Entries) BY <2>2
    <3>2. \A i \in 1..Len(p.no) : p.no[i] \in X BY <3>1
    <3>3. p.no \in Seq(X) BY <3>1, <3>2
    <3> QED BY <2>2, <3>3
  <2> QED BY <2>1, <2>2
<1>2. entries = start \o more BY DEF NoProxyEntries
<1>3. {HostName, nets.pods, nets.services} \subseteq X OBVIOUS
<1> HIDE DEF more, entries, X
<1>4. /\ entries \in Seq(X) /\ Len(entries) \in Nat /\ Len(entries) >= 3
      /\ entries[2] = nets.pods /\ entries[3] = nets.services
  BY <1>1, <1>2, <1>3, ThreeBefore
<1> HIDE DEF start
<1>5. DOMAIN entries = 1..Len(entries) BY <1>4
<1>6. {nets.pods, nets.services} \subseteq ToSet(entries) BY <1>4, <1>5 DEF ToSet
<1>7. HasProxy(p)
  <2>1. \/ s = Listed(<<>>) \/ s = Listed(entries) \/ s = Error \/ s = Listed(Append(entries, Masked(node)))
    BY DEF ProxySpec, entries
  <2>2. s.http = p.http /\ s.https = p.https BY <2>1
  <2> QED BY <2>2 DEF HasProxy
<1>8. p # NoProxies BY <1>7 DEF HasProxy, NoProxies
<1>9. \/ s = Error
      \/ NoProxyHasLocalIP(entries, node.base) /\ s = Listed(entries)
      \/ s = Listed(Append(entries, Masked(node)))
  BY <1>7, <1>8 DEF ProxySpec, entries
<1>10. s # Error BY <1>9
<1> HIDE DEF s
<1>11. CASE NoProxyHasLocalIP(entries, node.base) /\ s = Listed(entries)
  <2>1. s.list = entries BY <1>11
  <2> QED BY <1>6, <1>11, <2>1 DEF s
<1>12. CASE s = Listed(Append(entries, Masked(node)))
  <2> DEFINE m == Masked(node)
             list == Append(entries, m)
             n == Len(entries)
  <2>1. s.list = list BY <1>12
  <2>2. node.base \in Nat /\ node.len \in 0..W BY AddressType DEF Blocks
  <2>3. Covers(m, node.base) /\ m.kind = "block" BY <2>2, MaskedCovers DEF Masked, Block
  <2> HIDE DEF m
  <2>4. /\ DOMAIN list = 1..(n + 1) /\ list[n + 1] = m
        /\ \A i \in 1..n : list[i] = entries[i]
    <3>1. entries \in Seq(X \cup {m})
      <4>1. \A i \in 1..n : entries[i] \in X \cup {m} BY <1>4
      <4>2. entries = [i \in 1..n |-> entries[i]] BY <1>4
      <4> QED BY <1>4, <4>1, <4>2
    <3>2. list \in Seq(X \cup {m}) /\ Len(list) = n + 1 /\ list[n + 1] = m
          /\ \A i \in 1..n : list[i] = entries[i]
      BY <3>1
    <3> HIDE DEF list
    <3> QED BY <3>2
  <2> HIDE DEF list, n
  <2>5. n \in Nat /\ n >= 3 BY <1>4 DEF n
  <2>6. n + 1 \in DOMAIN list /\ 2 \in DOMAIN list /\ 3 \in DOMAIN list BY <2>4, <2>5
  <2>7. NoProxyHasLocalIP(list, node.base) BY <2>3, <2>4, <2>6 DEF NoProxyHasLocalIP
  <2>8. list[2] = nets.pods /\ list[3] = nets.services BY <1>4, <2>4, <2>5
  <2>9. {nets.pods, nets.services} \subseteq ToSet(list) BY <2>6, <2>8 DEF ToSet
  <2> QED BY <2>1, <2>7, <2>9 DEF s
<1> QED BY <1>9, <1>10, <1>11, <1>12

-----------------------------------------------------------------------------
(* What an install that is accepted has made                               *)

InstallMade ==
    LET flags == FlagNetworks
        nets == PatchedNetworks
        proxy == ProxySpec(WithDefaults(request.proxy, host.env), flags, Node(run.interface))
    IN  /\ request = plan.request /\ run.step = "cluster"
        /\ host.k0s = K0sConfig /\ K0sConfig.nets = nets
        /\ K0sConfig.node = Node(run.interface) /\ Node(run.interface) \in Blocks
        /\ K0sConfig.dir = request.dir /\ K0sConfig.airgap = Airgap
        /\ run.nets.pods = nets.pods /\ run.nets.services = nets.services
        /\ run.nets.global = flags.global
        /\ nets.pods \in Entries /\ nets.services \in Entries
        /\ nets = [pods |-> nets.pods, services |-> nets.services]
        /\ flags.pods \in Entries /\ flags.services \in Entries
        /\ flags.global \in {None, GlobalCIDR} /\ GlobalCIDR \in Entries
        /\ flags.global # None => FlagBlocks = SplitNetworkCIDR(GlobalCIDR)
        /\ ~proxy.err /\ run.proxy = proxy
        /\ FlagsFit
        /\ request.license # None /\ (Rel = None) = (request.license = None)
        /\ request.license.app = Rel.app /\ ChannelExists(request.license)
        /\ Airgap /\ request.bundle.info # None =>
              request.bundle.info.app = Rel.app /\ request.bundle.info.channel = Rel.channel
        /\ ~request.skip /\ ~request.ignore => NetworksAvailable

LEMMA InstallIsMade ==
    ASSUME GivenOK, ReleaseOK, RunOK, request.cmd = "install", run.outcome = "accepted"
    PROVE  InstallMade
<1> USE DEF RunOK
<1>1. run.step = "cluster" /\ request = plan.request BY DEF ProgressOK, LastStep, GivenOK
<1>2. run.step \notin BeforeConfig /\ run.step \notin BeforeProxy /\ run.step \notin Unchecked
      /\ run.step \in Licensed /\ run.step \in Matched /\ run.step \in Reported
  BY <1>1 DEF BeforeConfig, BeforeProxy, Unchecked, Licensed, Matched, Reported
<1>3. host.k0s = K0sConfig /\ (~request.skip /\ ~request.ignore => NetworksAvailable)
  BY <1>1 DEF HostK0sOK
<1>4. /\ FlagsFit /\ ~run.proxy.err /\ Node(run.interface) # None
      /\ run.proxy = ProxySpec(WithDefaults(request.proxy, host.env), FlagNetworks, Node(run.interface))
      /\ run.nets = [pods |-> PatchedNetworks.pods, services |-> PatchedNetworks.services,
                     global |-> FlagNetworks.global]
  BY <1>2 DEF NetworksOK
<1>5. Node(run.interface) \in Blocks BY <1>4, NodeType DEF GivenOK
<1>6. ValidateCIDR(GlobalCIDR) BY <1>4 DEF FlagsFit
<1>7. /\ FlagNetworks.pods \in Entries /\ FlagNetworks.services \in Entries
      /\ FlagNetworks.global \in {None, GlobalCIDR} /\ GlobalCIDR \in Entries
      /\ PatchedNetworks.pods \in Entries /\ PatchedNetworks.services \in Entries
      /\ FlagNetworks.global # None => FlagBlocks = SplitNetworkCIDR(GlobalCIDR)
  BY <1>6, NetworksType
<1>8. /\ K0sConfig.nets = PatchedNetworks
      /\ PatchedNetworks = [pods |-> PatchedNetworks.pods, services |-> PatchedNetworks.services]
  BY <1>4, FlagsArePatched
<1>9. /\ K0sConfig.node = Node(run.interface) /\ K0sConfig.dir = request.dir /\ K0sConfig.airgap = Airgap
  BY K0sFields DEF Airgap
<1>10. /\ run.nets.pods = PatchedNetworks.pods /\ run.nets.services = PatchedNetworks.services
       /\ run.nets.global = FlagNetworks.global
  BY <1>4
<1>11. /\ request.license # None /\ (Rel = None) = (request.license = None)
       /\ request.license.app = Rel.app /\ ChannelExists(request.license)
       /\ Airgap /\ request.bundle.info # None =>
             request.bundle.info.app = Rel.app /\ request.bundle.info.channel = Rel.channel
  BY <1>2 DEF PartsOK
<1> QED BY <1>1, <1>3, <1>4, <1>5, <1>7, <1>8, <1>9, <1>10, <1>11 DEF InstallMade

-----------------------------------------------------------------------------
(* The cluster                                                             *)

LEMMA ClusterStays ==
    ASSUME ClusterOK, cluster # None => run' # NoRun /\ Config(release') = Config(release),
           UNCHANGED <<cluster, plan>>, installation'.airgap = installation.airgap,
           installation'.rc = installation.rc
    PROVE  ClusterOK'
<1>1. cluster # None => Plain' = Plain BY DEF Plain
<1> HIDE DEF Plain
<1> QED BY <1>1 DEF ClusterOK

(* Without overrides the networks of the flags are those of k0s.           *)
LEMMA PlainNetworks ==
    ASSUME request.overrides = None, Config(release).overrides = None
    PROVE  PatchedNetworks = FlagBlocks
  BY DEF PatchedNetworks, ApplyUnsupportedOverrides, PatchK0sConfig

(* What the cluster is made of, by the end of install.                     *)
Made == [nets |-> host.k0s.nets, global |-> run.nets.global, proxy |-> run.proxy,
         nodes |-> {host.k0s.node}, dir |-> host.k0s.dir, airgap |-> host.k0s.airgap,
         app |-> Rel.app, version |-> Rel.version]

LEMMA MadeFields ==
    ASSUME InstallMade
    PROVE  /\ DOMAIN Made = {"nets", "global", "proxy", "nodes", "dir", "airgap", "app", "version"}
           /\ Made.nets = PatchedNetworks /\ Made.global = FlagNetworks.global
           /\ Made.proxy = ProxySpec(WithDefaults(request.proxy, host.env), FlagNetworks, Node(run.interface))
           /\ Made.nodes = {Node(run.interface)} /\ Made.airgap = Airgap /\ Made.dir = request.dir
           /\ Made.app = Rel.app /\ Made.version = Rel.version
  BY DEF Made, InstallMade

RecordFields == {"airgap", "ha", "config", "rc", "license"}
LEMMA RecordedFields ==
    ASSUME NEW license
    PROVE  LET i == RecordInstallation(license)
           IN  /\ DOMAIN i = RecordFields /\ i.airgap = Airgap /\ i.ha = FALSE
               /\ i.config = release.ecConfig /\ i.rc = RuntimeConfig
               /\ i.rc.services = run.nets.services
               /\ i.license = [dr |-> license.dr, multi |-> license.multi]
  BY DEF RecordInstallation, RuntimeConfig, RecordFields

LEMMA ClusterMade ==
    ASSUME GivenOK, InstallMade, cluster' = Made, CanInstallAddOns,
           installation' = RecordInstallation(request.license),
           UNCHANGED <<release, request, run, host, plan>>
    PROVE  ClusterOK'
<1> DEFINE proxy == ProxySpec(WithDefaults(request.proxy, host.env), FlagNetworks, Node(run.interface))
           node == Node(run.interface)
<1>1. run # NoRun BY DEF InstallMade, NoRun
<1>2. /\ DOMAIN cluster' = {"nets", "global", "proxy", "nodes", "dir", "airgap", "app", "version"}
      /\ cluster'.nets = PatchedNetworks /\ cluster'.global = FlagNetworks.global
      /\ cluster'.proxy = proxy /\ cluster'.nodes = {node} /\ cluster'.airgap = Airgap
  BY MadeFields
<1>3. /\ {PatchedNetworks.pods, PatchedNetworks.services} \subseteq Entries
      /\ PatchedNetworks = [pods |-> PatchedNetworks.pods, services |-> PatchedNetworks.services]
  BY DEF InstallMade
<1>4. ASSUME HasProxy(proxy)
      PROVE  /\ NoProxyHasLocalIP(proxy.list, node.base)
             /\ {FlagNetworks.pods, FlagNetworks.services} \subseteq ToSet(proxy.list)
  <2> DEFINE p == WithDefaults(request.proxy, host.env)
             nets == FlagNetworks
  <2>1. p.no \in Seq(Entries) \cup {None} BY DefaultsType DEF GivenOK, IsFlags, HostOK
  <2>2. nets.pods \in Entries /\ nets.services \in Entries /\ node \in Blocks /\ ~proxy.err
    BY DEF InstallMade
  <2> HIDE DEF p, nets, node
  <2> QED BY <1>4, <2>1, <2>2, ProxyFits DEF p, nets, node
<1>5. ASSUME Plain' PROVE {PatchedNetworks.pods, PatchedNetworks.services}
                            = {FlagNetworks.pods, FlagNetworks.services}
  <2>1. request.overrides = None /\ Config(release).overrides = None BY <1>5 DEF Plain, InstallMade
  <2>2. PatchedNetworks = FlagBlocks BY <2>1, PlainNetworks
  <2> QED BY <2>2 DEF FlagBlocks
<1>6. FlagNetworks.global # None => FlagNetworks.global \in Entries /\ ValidateCIDR(FlagNetworks.global)
  BY DEF InstallMade, FlagsFit
<1>7. installation'.airgap = Airgap /\ installation'.rc.services = PatchedNetworks.services
  BY RecordedFields DEF InstallMade
<1>8. Airgap => LowerBandIP(PatchedNetworks.services, RegistryIndex) # None
  BY DEF CanInstallAddOns, InsecureRegistry, RegistryClusterIP, InstallMade
<1> HIDE DEF proxy, node
<1>9. run' # NoRun BY <1>1
<1> QED BY <1>2, <1>3, <1>4, <1>5, <1>6, <1>7, <1>8, <1>9 DEF ClusterOK

LEMMA JoinKeepsCluster ==
    ASSUME ClusterOK, NEW node, Join(node)
    PROVE  /\ ClusterOK'
           /\ cluster'.airgap = cluster.airgap /\ cluster'.nets = cluster.nets
<1>1. /\ cluster # None /\ ReachesNode(cluster.proxy, node)
      /\ cluster' = [cluster EXCEPT !.nodes = @ \cup {node}]
      /\ UNCHANGED <<release, run, plan, installation>>
  BY DEF Join, checkVars
<1>2. /\ DOMAIN cluster' = DOMAIN cluster /\ cluster'.nodes = cluster.nodes \cup {node}
      /\ cluster'.nets = cluster.nets /\ cluster'.global = cluster.global /\ cluster'.proxy = cluster.proxy
      /\ cluster'.airgap = cluster.airgap
  BY <1>1 DEF ClusterOK
<1>3. HasProxy(cluster.proxy) => NoProxyHasLocalIP(cluster.proxy.list, node.base)
  BY <1>1 DEF ReachesNode
<1>4. Plain' = Plain BY <1>1 DEF Plain
<1> HIDE DEF Plain
<1> QED BY <1>1, <1>2, <1>3, <1>4 DEF ClusterOK

(* The Installation keeps what was recorded, but for high availability.    *)
LEMMA RecordStays ==
    ASSUME ValuesOK, cluster # None, Operate
    PROVE  /\ installation'.airgap = installation.airgap /\ installation'.rc = installation.rc
           /\ installation'.config = installation.config /\ installation'.license = installation.license
           /\ DOMAIN installation' = DOMAIN installation /\ installation'.ha \in BOOLEAN
<1>1. CASE UNCHANGED installation BY <1>1 DEF ValuesOK
<1>2. CASE installation' = [installation EXCEPT !.ha = TRUE] BY <1>2 DEF ValuesOK
<1>3. UNCHANGED installation \/ installation' = [installation EXCEPT !.ha = TRUE]
  BY DEF Operate, EnableHA, UpgradeAddOns, addonVars
<1> QED BY <1>1, <1>2, <1>3

LEMMA ClusterStep ==
    ASSUME DeliveryInv, Next
    PROVE  ClusterOK'
<1> USE DEF DeliveryInv
<1>1. UNCHANGED plan BY VendorStays
<1>2. cluster # None => run' # NoRun /\ Config(release') = Config(release)
  <2>1. cluster # None => run # NoRun BY DEF ClusterOK
  <2> QED BY <2>1, ReleaseStays DEF Alike
<1>3. CASE UNCHANGED <<cluster, installation>> BY <1>1, <1>2, <1>3, ClusterStays
<1>4. CASE Installed
  <2>1. /\ request.cmd = "install" /\ run.outcome = "accepted" /\ cluster = None
        /\ installation' = RecordInstallation(request.license)
        /\ UNCHANGED <<release, request, host>>
    BY <1>4 DEF Installed
  <2>2. RunOK BY DEF RunOK
  <2>3. InstallMade BY <2>1, <2>2, InstallIsMade
  <2>4. CASE ~CanInstallAddOns
    <3>1. cluster' = None BY <1>4, <2>1, <2>4 DEF Installed
    <3> QED BY <3>1 DEF ClusterOK
  <2>5. CASE CanInstallAddOns
    <3>1. cluster' = Made /\ UNCHANGED run BY <1>4, <2>5 DEF Installed, Made
    <3> QED BY <1>1, <2>1, <2>3, <2>5, <3>1, ClusterMade
  <2> QED BY <2>4, <2>5
<1>5. ASSUME NEW n \in Joining, Join(n) PROVE ClusterOK'
  BY <1>5, JoinKeepsCluster
<1>6. CASE Operate
  <2>1. cluster # None /\ UNCHANGED cluster BY <1>6 DEF Operate
  <2>2. installation'.airgap = installation.airgap /\ installation'.rc = installation.rc
    BY <1>6, <2>1, RecordStays
  <2> QED BY <1>1, <1>2, <2>1, <2>2, ClusterStays
<1>7. \/ UNCHANGED <<cluster, installation>> \/ Installed \/ Operate
      \/ \E n \in Joining : Join(n)
  BY DEF Next, Ship, Install, Check, TakeBackup, Restore, LookForBackups, FollowAdvice, deliveryVars,
     partVars, addonVars
<1> QED BY <1>3, <1>4, <1>5, <1>6, <1>7

-----------------------------------------------------------------------------
(* Backups, and the advice of a restore                                    *)

LEMMA BackupStep ==
    ASSUME DeliveryInv, Next
    PROVE  BackupOK'
<1> USE DEF DeliveryInv
<1>1. CASE UNCHANGED <<request, backup, cluster>> BY <1>1 DEF BackupOK
<1>2. CASE Install
  <2>1. request' = plan.request /\ UNCHANGED <<backup, cluster>> BY <1>2 DEF Install, Start, deliveryVars
  <2>2. request'.cmd = "install" BY <2>1 DEF GivenOK, IsRequest
  <2> QED BY <2>1, <2>2 DEF BackupOK
<1>3. CASE Installed
  <2>1. /\ cluster = None /\ request.cmd = "install" /\ UNCHANGED <<request, backup>> BY <1>3 DEF Installed
  <2> QED BY <2>1 DEF BackupOK
<1>4. ASSUME NEW n \in Joining, Join(n) PROVE BackupOK'
  <2>1. backup = None /\ UNCHANGED <<request, backup>> BY <1>4 DEF Join, checkVars
  <2> QED BY <2>1 DEF BackupOK
<1>5. CASE TakeBackup
  <2>1. /\ cluster # None /\ backup = None /\ UNCHANGED <<request, cluster>>
        /\ backup' = [nets |-> cluster.nets, dir |-> cluster.dir, airgap |-> cluster.airgap,
                      app |-> cluster.app, version |-> cluster.version]
    BY <1>5 DEF TakeBackup, checkVars
  <2> QED BY <2>1 DEF BackupOK
<1>6. ASSUME NEW h \in OtherHosts, NEW r \in Restores, Restore(h, r) PROVE BackupOK'
  <2>1. backup # None /\ UNCHANGED <<backup, cluster>> BY <1>6 DEF Restore, deliveryVars
  <2> QED BY <2>1 DEF BackupOK
<1>7. ASSUME NEW reset \in BOOLEAN, FollowAdvice(reset) PROVE BackupOK'
  <2>1. run.advice # None /\ UNCHANGED <<backup, cluster>> BY <1>7 DEF FollowAdvice
  <2>2. backup # None BY <2>1, AdviceKinds
  <2> QED BY <2>1, <2>2 DEF BackupOK
<1>8. CASE Check
  <2>1. CheckNext /\ UNCHANGED <<backup, cluster>> BY <1>8 DEF Check, deliveryVars
  <2>2. UNCHANGED request BY <2>1, CheckIsOnCourse, CheckKinds
  <2> QED BY <1>1, <2>1, <2>2
<1>9. CASE LookForBackups
  <2>1. UNCHANGED <<request, backup, cluster>> BY <1>9 DEF LookForBackups, deliveryVars
  <2> QED BY <1>1, <2>1
<1>10. \/ UNCHANGED <<request, backup, cluster>> \/ Install \/ Check \/ Installed \/ TakeBackup
       \/ \E n \in Joining : Join(n)
       \/ \E h \in OtherHosts, r \in Restores : Restore(h, r)
       \/ LookForBackups \/ \E reset \in BOOLEAN : FollowAdvice(reset)
  BY DEF Next, Ship, Operate, checkVars, deliveryVars
<1> QED BY <1>1, <1>2, <1>3, <1>4, <1>5, <1>6, <1>7, <1>8, <1>9, <1>10

LEMMA InstallHasNoAdvice ==
    ASSUME ProgressOK, AdviceOK, request.cmd = "install"
    PROVE  run.step # "backups" /\ run.advice = None /\ advised = None
<1>1. Named("install", run.step) \/ run.step = "none" BY NamedSteps DEF ProgressOK
<1>2. run.step # "backups" BY <1>1 DEF Named, InstallNames
<1> QED BY <1>2 DEF AdviceOK

LEMMA NoAdvice ==
    ASSUME run'.step # "backups", run'.advice = None, advised' = None
    PROVE  AdviceOK'
  BY DEF AdviceOK

LEMMA MismatchStays ==
    ASSUME UNCHANGED <<backup, release, request>>, host'.k0s = host.k0s
    PROVE  Mismatch' = Mismatch /\ Supernet' = Supernet
<1>1. Rel' = Rel /\ Airgap' = Airgap BY ConfigStays
<1> QED BY <1>1 DEF Mismatch, Supernet

LEMMA CheckBefore == ASSUME CheckNext PROVE run.step # "backups"
  BY DEF CheckNext, CheckFlags, CheckNetworks, CheckProxy, ReadFiles, BuildRuntimeConfig, CheckRoot,
     VerifyNoInstallation, VerifyChannelRelease, VerifyLicense, CheckAirgapMatches, CheckForUpdate,
     CheckConfig, VerifyProxyConfig, EnsurePassword, BuildReporter, ResumeRestore, CheckStore,
     RunPreflights, InstallCluster, At

(* A restore comes to its backups resumed, or with k0s configured anew.    *)
LEMMA ToBackups ==
    ASSUME GivenOK, ProgressOK, CheckNext, request.cmd = "restore"
    PROVE  /\ run'.outcome # "accepted" /\ run'.advice = run.advice
           /\ run'.step = "backups" => host.state # "new" \/ host'.k0s = K0sConfig'
<1>1. OnCourse BY CheckIsOnCourse
<1>2. run.step # "backups" /\ run.outcome = "none" BY <1>1, CheckBefore DEF OnCourse
<1>3. UNCHANGED <<release, request>> /\ (ItEnds \/ ItRepeats \/ ItResumes \/ Settled(run.step))
  BY <1>1, CheckKinds
<1>4. CASE ItEnds BY <1>2, <1>4 DEF ItEnds, Ended, Further
<1>5. CASE ItRepeats BY <1>2, <1>5 DEF ItRepeats, Further
<1>6. CASE ItResumes BY <1>6 DEF ItResumes, Further
<1>7. CASE Settled(run.step)
  <2>1. run'.advice = run.advice /\ Advanced("restore", run.step, "none", run'.step, run'.outcome)
    BY <1>7 DEF Settled, Further, Passed
  <2>2. run'.outcome = "none" /\ Follows("restore", run.step, run'.step) BY <1>2, <2>1 DEF Advanced
  <2>3. ASSUME run'.step = "backups" PROVE host'.k0s = K0sConfig' \/ host.state # "new"
    <3>1. run.step = "cluster" BY <2>2, <2>3 DEF Follows
    <3>2. ItEnds \/ ItRepeats \/ ItResumes \/ ClusterPasses
      BY <1>1, <3>1, CheckSummary DEF HostKept, Quietly, Settled, Going, NetworksPass, ProxyPasses,
         RuntimeConfigPasses, LicensePasses, BundlePasses, PreflightsPass, Passed
    <3>3. ClusterPasses
      BY <2>3, <3>1, <3>2 DEF ItEnds, Ended, ItRepeats, ItResumes
    <3>4. HostSame(host', host) /\ Same /\ host'.k0s = K0sConfig
      BY <1>1, <3>3, CheckKeepsHost DEF ClusterPasses, Going, GivenOK, HostOK
    <3> QED BY <1>3, <3>4, K0sStays
  <2> QED BY <2>1, <2>2, <2>3
<1> QED BY <1>3, <1>4, <1>5, <1>6, <1>7

LEMMA AdviceStep ==
    ASSUME DeliveryInv, Next
    PROVE  AdviceOK'
<1> USE DEF DeliveryInv
<1>1. CASE UNCHANGED <<checkVars, backup, advised>>
  <2>1. Mismatch' = Mismatch /\ Supernet' = Supernet BY <1>1, MismatchStays DEF checkVars
  <2>2. HostSame(host', host) /\ Same BY <1>1 DEF HostSame, Same, checkVars
  <2>3. K0sConfig' = K0sConfig /\ FlagsFit' = FlagsFit BY <1>1, <2>2, K0sStays, ConfigStays DEF checkVars
  <2>4. UNCHANGED <<host, request, run, backup, advised>> BY <1>1 DEF checkVars
  <2> HIDE DEF Mismatch, Supernet, K0sConfig, FlagsFit
  <2> QED BY <2>1, <2>3, <2>4 DEF AdviceOK
<1>2. ASSUME request.cmd = "install", UNCHANGED <<run, advised>> PROVE AdviceOK'
  BY <1>2, InstallHasNoAdvice, NoAdvice
<1>3. CASE Ship
  <2>1. run = NoRun BY <1>3 DEF Ship, ReleaseOK
  <2>2. request.cmd = "install" BY <2>1 DEF ProgressOK, NoRun
  <2> QED BY <1>2, <1>3, <2>2 DEF Ship
<1>4. CASE Install
  <2>1. run = NoRun /\ UNCHANGED advised /\ Start(plan.request) BY <1>4 DEF Install, deliveryVars
  <2>2. request.cmd = "install" BY <2>1 DEF ProgressOK, NoRun
  <2>3. run'.step = "flags" /\ run'.advice = None BY <2>1, StartFields
  <2> QED BY <2>1, <2>2, <2>3, InstallHasNoAdvice, NoAdvice
<1>5. CASE Check
  <2>1. CheckNext /\ UNCHANGED <<backup, advised>> BY <1>5 DEF Check, deliveryVars
  <2>2. OnCourse BY <2>1, CheckIsOnCourse
  <2>3. UNCHANGED <<release, request>> BY <2>1, <2>2, CheckKinds
  <2>4. CASE request.cmd = "install"
    <3>1. ProgressOK' BY <2>1, CheckProgress
    <3>2. request'.cmd = "install" BY <2>3, <2>4
    <3>3. run'.step # "backups" BY <3>1, <3>2, NamedSteps DEF ProgressOK, Named, InstallNames
    <3>4. ItEnds \/ ItRepeats \/ ItResumes \/ Settled(run.step) BY <2>1, <2>2, CheckKinds
    <3>5. run'.advice = run.advice BY <3>4 DEF ItEnds, Ended, ItRepeats, ItResumes, Settled, Further
    <3> QED BY <2>1, <2>4, <3>3, <3>5, InstallHasNoAdvice, NoAdvice
  <2>5. CASE request.cmd = "restore"
    <3>1. run.step # "backups" BY <2>1, CheckBefore
    <3>2. run.advice = None BY <3>1 DEF AdviceOK
    <3>3. /\ run'.outcome # "accepted" /\ run'.advice = None
          /\ run'.step = "backups" => host.state # "new" \/ host'.k0s = K0sConfig'
      BY <2>1, <2>5, <3>2, ToBackups
    <3>4. host'.state = host.state BY <2>1, <2>2, CheckKeepsHost
    <3>5. FlagsFit' = FlagsFit BY <2>3, ConfigStays
    <3>6. Supernet' = Supernet BY <2>1 DEF Supernet
    <3> HIDE DEF Mismatch, Supernet, K0sConfig, FlagsFit
    <3> QED BY <2>1, <2>3, <3>1, <3>3, <3>4, <3>5, <3>6 DEF AdviceOK
  <2> QED BY <2>2, <2>4, <2>5 DEF OnCourse
<1>6. CASE Installed
  <2>1. /\ request.cmd = "install" /\ UNCHANGED <<request, advised>>
        /\ UNCHANGED run \/ Stop(run, "failed", "registry")
    BY <1>6 DEF Installed
  <2>2. CASE Stop(run, "failed", "registry")
    <3>1. DOMAIN run = RunFields BY RunDomain DEF ProgressOK
    <3>2. run'.step = run.step /\ run'.advice = run.advice BY <2>2, <3>1 DEF Stop, RunFields
    <3> QED BY <2>1, <3>2, InstallHasNoAdvice, NoAdvice
  <2> QED BY <1>2, <2>1, <2>2
<1>7. CASE TakeBackup
  <2>1. backup = None /\ UNCHANGED <<run, advised>> BY <1>7 DEF TakeBackup, checkVars
  <2>2. request.cmd = "install" BY <2>1 DEF BackupOK, GivenOK
  <2> QED BY <1>2, <2>1, <2>2
<1>8. ASSUME NEW h \in OtherHosts, NEW r \in Restores, Restore(h, r) PROVE AdviceOK'
  <2>1. request.cmd = "install" /\ UNCHANGED advised /\ Start(r) BY <1>8 DEF Restore, deliveryVars
  <2>2. run'.step = "flags" /\ run'.advice = None BY <2>1, StartFields
  <2> QED BY <2>1, <2>2, InstallHasNoAdvice, NoAdvice
<1>9. CASE LookForBackups
  <2>1. /\ UNCHANGED <<release, request>> /\ HostSame(host', host) /\ host'.k0s = host.k0s
        /\ run.step = "backups" /\ run'.step = "backups" /\ run.outcome = "none" /\ Same
        /\ \/ Mismatch.reason = "none" /\ run'.advice = run.advice
           \/ run'.outcome = "refused" /\ run'.advice = Mismatch.advice
    BY <1>9, LookSummary
  <2>2. UNCHANGED <<backup, advised>> BY <1>9 DEF LookForBackups, deliveryVars
  <2>3. run.advice = None BY <2>1 DEF AdviceOK
  <2>4. Mismatch' = Mismatch /\ Supernet' = Supernet BY <2>1, <2>2, MismatchStays
  <2>5. K0sConfig' = K0sConfig /\ FlagsFit' = FlagsFit BY <2>1, K0sStays, ConfigStays
  <2> HIDE DEF Mismatch, Supernet, K0sConfig, FlagsFit
  <2> QED BY <2>1, <2>2, <2>3, <2>4, <2>5 DEF AdviceOK
<1>10. ASSUME NEW reset \in BOOLEAN, FollowAdvice(reset) PROVE AdviceOK'
  <2> DEFINE a == run.advice
             r == Advised(request, run.advice)
  <2>1. /\ a # None /\ Start(r) /\ advised' = [advice |-> a, reset |-> reset]
        /\ host' = IF reset THEN [host EXCEPT !.k0s = None, !.state = "new"] ELSE host
        /\ UNCHANGED <<release, backup>>
    BY <1>10 DEF FollowAdvice
  <2>2. request' = r /\ run'.step = "flags" /\ run'.advice = None BY <2>1, StartFields
  <2>3. /\ r.cmd = "restore"
        /\ \/ /\ a = [flag |-> "cidr", value |-> Supernet] /\ Supernet \in Entries
              /\ r.cidr = Supernet /\ r.pods = None /\ r.services = None
           \/ a = [flag |-> "pods-and-services", value |-> backup.nets] /\ Supernet = None
           \/ /\ a = [flag |-> "dir", value |-> [dir |-> backup.dir]]
              /\ r.dir = backup.dir /\ r.cidr = request.cidr /\ r.pods = request.pods
              /\ r.services = request.services
    BY <2>1, AdvisedFlags
  <2>4. FlagsFit
    <3>1. run.step \notin Unchecked BY <2>1 DEF AdviceOK, Unchecked
    <3> QED BY <3>1 DEF NetworksOK
  <2>5. UNCHANGED <<request.cidr, request.pods, request.services>> => FlagsFit'
    BY <2>4 DEF FlagsFit, GlobalCIDR
  <2>6. Supernet' = Supernet BY <2>1 DEF Supernet
  <2>7. reset => host'.state = "new" BY <2>1 DEF GivenOK, HostOK
  <2>8. advised'.advice = a /\ advised'.reset = reset /\ a # None BY <2>1
  <2> HIDE DEF Mismatch, Supernet, K0sConfig, FlagsFit, a, r
  <2>9. UNCHANGED backup BY <2>1
  <2> QED BY <2>2, <2>3, <2>5, <2>6, <2>7, <2>8, <2>9, NoneAssumption DEF AdviceOK
<1>11. \/ UNCHANGED <<checkVars, backup, advised>> \/ Ship \/ Install \/ Check \/ Installed \/ TakeBackup
       \/ \E h \in OtherHosts, r \in Restores : Restore(h, r)
       \/ LookForBackups \/ \E reset \in BOOLEAN : FollowAdvice(reset)
  BY DEF Next, Join, Operate, checkVars, deliveryVars
<1> QED BY <1>1, <1>3, <1>4, <1>5, <1>6, <1>7, <1>8, <1>9, <1>10, <1>11

-----------------------------------------------------------------------------
(* The values of the charts                                                *)

LEMMA ValuesDomain ==
    ASSUME NEW o
    PROVE  /\ DOMAIN Values(o) = {"openebs", "operator", "console"}
                                   \cup (IF o.airgap THEN {"registry"} ELSE {})
                                   \cup (IF o.dr THEN {"velero"} ELSE {})
           /\ \A chart \in DOMAIN Values(o) : Values(o)[chart] = ValuesOf(o, chart)
           /\ \A chart \in DOMAIN HAValues(o) : HAValues(o)[chart] = ValuesOf(o, chart)
  BY DEF Values, HAValues

LEMMA OptionFields ==
    ASSUME NEW ha, NEW user, NEW domains
    PROVE  LET o == OptionsWith(ha, user, domains)
           IN  /\ o.rc = installation.rc /\ o.airgap = installation.airgap /\ o.ha = ha
               /\ o.dr = installation.license.dr /\ o.multi = installation.license.multi
               /\ o.config = Config(release) /\ o.user = user /\ o.domains = domains
  BY DEF OptionsWith

LEMMA RecordedRelease ==
    ASSUME NEW in, NEW channel
    PROVE  /\ Recorded(in).ecConfig = in.config
           /\ [Recorded(in) EXCEPT !.channel = channel].ecConfig = in.config
           /\ [Recorded(in) EXCEPT !.channel = channel].channel = channel
<1>1. Recorded(in) = [EmptyRelease EXCEPT !.ecConfig = in.config] BY DEF Recorded
<1>2. DOMAIN Recorded(in) = DOMAIN EmptyRelease BY <1>1
<1> HIDE DEF Recorded
<1> QED BY <1>1, <1>2, EmptyFields

(* The options that enable-ha and the upgrade Job make of the Installation. *)
LEMMA OptionsMade ==
    ASSUME installation.config = release.ecConfig
    PROVE  /\ EnableHAOptions(installation) = OptionsWith(TRUE, {}, GetDomains(release))
           /\ UpgradeOptions(installation)
                = OptionsWith(installation.ha, {}, GetDomains(Recorded(installation)))
<1> DEFINE with == [Recorded(installation) EXCEPT !.channel = release.channel]
<1>1. /\ Recorded(installation).ecConfig = release.ecConfig
      /\ with.ecConfig = release.ecConfig /\ with.channel = release.channel
  BY RecordedRelease
<1> HIDE DEF with
<1>2. Config(Recorded(installation)) = Config(release) /\ Config(with) = Config(release)
  BY <1>1 DEF Config, HasConfig
<1>3. ChannelRelease(with) = ChannelRelease(release) BY <1>1 DEF ChannelRelease
<1>4. GetDomains(with) = GetDomains(release) BY <1>2, <1>3 DEF GetDomains
<1> QED BY <1>2, <1>4 DEF EnableHAOptions, UpgradeOptions, OptionsOf, OptionsWith, with

(* What the record keeps, and so every options that are made of it.        *)
RecordKept ==
    /\ installation'.airgap = installation.airgap /\ installation'.rc = installation.rc
    /\ installation'.config = installation.config /\ installation'.license = installation.license
    /\ DOMAIN installation' = DOMAIN installation /\ installation'.ha \in BOOLEAN

LEMMA OptionsStay ==
    ASSUME RecordKept, Alike, UNCHANGED plan
    PROVE  /\ \A ha, user, domains : OptionsWith(ha, user, domains)' = OptionsWith(ha, user, domains)
           /\ FirstOptions' = FirstOptions
           /\ GetDomains(Recorded(installation))' = GetDomains(Recorded(installation))
           /\ GetDomains(release)' = GetDomains(release)
<1>1. \A ha, user, domains : OptionsWith(ha, user, domains)' = OptionsWith(ha, user, domains)
  BY DEF RecordKept, Alike, OptionsWith
<1>2. GetDomains(release)' = GetDomains(release) BY DEF Alike
<1>3. FirstOptions' = FirstOptions BY <1>1, <1>2 DEF FirstOptions
<1>4. Recorded(installation)' = Recorded(installation) BY DEF RecordKept, Recorded
<1> QED BY <1>1, <1>2, <1>3, <1>4

LEMMA CurrentStays ==
    ASSUME RecordKept, Alike, UNCHANGED plan, NEW chart, Current(chart),
           addons'.values[chart] = addons.values[chart]
    PROVE  Current(chart)'
  BY OptionsStay DEF Current

(* What was made again of the Installation.                                *)
LEMMA CurrentMade ==
    ASSUME RecordKept, Alike, UNCHANGED plan, installation.config = release.ecConfig,
           installation.ha \in BOOLEAN, NEW chart,
           NEW o \in {EnableHAOptions(installation), UpgradeOptions(installation)},
           addons'.values[chart] = ValuesOf(o, chart)
    PROVE  Current(chart)'
<1>1. \E ha \in BOOLEAN, domains \in {GetDomains(release), GetDomains(Recorded(installation))} :
          o = OptionsWith(ha, {}, domains)
  BY OptionsMade
<1> QED BY <1>1, OptionsStay DEF Current

LEMMA RegistryIP ==
    ASSUME ValuesOK, cluster # None, installation.airgap
    PROVE  addons.values.registry.ip = RegistryClusterIP(installation.rc.services)
<1>1. addons.first = Values(FirstOptions) /\ FirstOptions.airgap
  BY OptionFields DEF ValuesOK, FirstOptions
<1>2. "registry" \in DOMAIN addons.first BY <1>1, ValuesDomain
<1>3. Current("registry") BY <1>2 DEF ValuesOK
<1>4. PICK ha, user, domains :
         addons.values.registry = ValuesOf(OptionsWith(ha, user, domains), "registry")
  BY <1>3 DEF Current
<1> DEFINE o == OptionsWith(ha, user, domains)
<1>5. ValuesOf(o, "registry") = RegistryValues(o) BY DEF ValuesOf
<1>6. RegistryValues(o).ip = RegistryClusterIP(o.rc.services) BY DEF RegistryValues
<1>7. o.rc = installation.rc BY DEF OptionsWith
<1> QED BY <1>4, <1>5, <1>6, <1>7

(* Charts that are upgraded, and others that are not.                      *)
LEMMA ValuesReplaced ==
    ASSUME ValuesOK, cluster # None, RecordKept, Alike, UNCHANGED plan,
           NEW o \in {EnableHAOptions(installation), UpgradeOptions(installation)}, NEW new,
           \A chart \in DOMAIN new : new[chart] = ValuesOf(o, chart),
           addons' = [addons EXCEPT !.values = Replaced(@, new)]
    PROVE  ValuesOK'
<1> DEFINE both == Replaced(addons.values, new)
<1>1. /\ DOMAIN addons' = DOMAIN addons /\ addons'.first = addons.first
      /\ addons'.registries = addons.registries /\ addons'.secret = addons.secret
      /\ addons'.values = both
  BY DEF ValuesOK
<1>2. DOMAIN both = DOMAIN addons.values \cup DOMAIN new
      /\ \A chart \in DOMAIN both :
            both[chart] = IF chart \in DOMAIN new THEN new[chart] ELSE addons.values[chart]
  BY DEF Replaced
<1> HIDE DEF both
<1>3. ASSUME NEW chart \in DOMAIN addons.first PROVE Current(chart)'
  <2>1. chart \in DOMAIN both /\ Current(chart) BY <1>2 DEF ValuesOK
  <2>2. CASE chart \in DOMAIN new
    <3>1. addons'.values[chart] = ValuesOf(o, chart) BY <1>1, <1>2, <2>1, <2>2
    <3> QED BY <3>1, CurrentMade DEF ValuesOK
  <2>3. CASE chart \notin DOMAIN new
    <3>1. addons'.values[chart] = addons.values[chart] BY <1>1, <1>2, <2>1, <2>3
    <3> QED BY <2>1, <3>1, CurrentStays
  <2> QED BY <2>2, <2>3
<1>4. addons'.first = Values(FirstOptions') BY <1>1, OptionsStay DEF ValuesOK
<1>5. DOMAIN addons'.first \subseteq DOMAIN addons'.values BY <1>1, <1>2 DEF ValuesOK
<1> QED BY <1>1, <1>3, <1>4, <1>5 DEF ValuesOK, RecordKept, Alike

LEMMA ValuesStay ==
    ASSUME ValuesOK, cluster # None, RecordKept, Alike, UNCHANGED plan, DOMAIN addons' = DOMAIN addons,
           addons'.values = addons.values, addons'.first = addons.first,
           addons'.registries = addons.registries, addons'.secret = addons.secret
    PROVE  ValuesOK'
<1>1. ASSUME NEW chart \in DOMAIN addons.first PROVE Current(chart)'
  BY CurrentStays DEF ValuesOK
<1>2. addons'.first = Values(FirstOptions') BY OptionsStay DEF ValuesOK
<1> QED BY <1>1, <1>2 DEF ValuesOK, RecordKept, Alike

(* install makes the values of the options that are recorded with it.      *)
LEMMA ValuesMade ==
    ASSUME InstallMade, installation' = RecordInstallation(request.license),
           InstallAddOns(request.license), UNCHANGED <<release, request, plan>>
    PROVE  ValuesOK'
<1> DEFINE o == InstallOptions(request.license)
           ip == RegistryClusterIP(run.nets.services)
<1>1. /\ DOMAIN installation' = RecordFields /\ installation'.airgap = Airgap /\ installation'.ha = FALSE
      /\ installation'.config = release.ecConfig /\ installation'.rc = RuntimeConfig
      /\ installation'.rc.services = run.nets.services
      /\ installation'.license = [dr |-> request.license.dr, multi |-> request.license.multi]
  BY RecordedFields
<1>2. o = FirstOptions'
  <2>1. UserCharts = UserChartsOf(plan.request') BY DEF UserCharts, UserChartsOf, InstallMade
  <2>2. installation'.license.dr = request.license.dr /\ installation'.license.multi = request.license.multi
    BY <1>1
  <2> QED BY <1>1, <2>1, <2>2 DEF InstallOptions, FirstOptions, OptionsWith
<1>3. /\ DOMAIN addons' = {"values", "first", "registries", "secret"}
      /\ addons'.values = Values(o) /\ addons'.first = Values(o)
      /\ addons'.registries = IF Airgap THEN {InsecureRegistry} ELSE {}
      /\ addons'.secret = IF Airgap THEN RegistryClusterIP(o.rc.services) ELSE None
  BY DEF InstallAddOns
<1>4. o.rc.services = run.nets.services BY DEF InstallOptions, RuntimeConfig
<1>5. installation'.airgap =>
         LET i == RegistryClusterIP(installation'.rc.services)
         IN  addons'.registries = {i} /\ addons'.secret = i
  BY <1>1, <1>3, <1>4 DEF InsecureRegistry
<1> HIDE DEF o
<1>6. ASSUME NEW chart \in DOMAIN addons'.first PROVE Current(chart)'
  <2>1. addons'.values[chart] = ValuesOf(o, chart) BY <1>3, ValuesDomain
  <2> QED BY <1>2, <2>1 DEF Current, FirstOptions
<1>7. addons'.first = Values(FirstOptions)' BY <1>2, <1>3
<1> QED BY <1>1, <1>3, <1>5, <1>6, <1>7 DEF ValuesOK, RecordFields

LEMMA ValuesStep ==
    ASSUME DeliveryInv, Next
    PROVE  ValuesOK'
<1> USE DEF DeliveryInv
<1>1. UNCHANGED plan BY VendorStays
<1>2. cluster # None => Alike
  <2>1. cluster # None => run # NoRun BY DEF ClusterOK
  <2> QED BY <2>1, ReleaseStays
<1>3. CASE cluster' = None BY <1>3 DEF ValuesOK
<1>4. CASE UNCHANGED <<cluster, installation, addons>> /\ cluster' # None
  <2>1. cluster # None BY <1>4
  <2>2. RecordKept BY <1>4, <2>1 DEF RecordKept, ValuesOK
  <2> QED BY <1>1, <1>2, <1>4, <2>1, <2>2, ValuesStay
<1>5. CASE Installed
  <2>1. /\ request.cmd = "install" /\ run.outcome = "accepted" /\ cluster = None
        /\ installation' = RecordInstallation(request.license)
        /\ UNCHANGED <<release, request, host>>
    BY <1>5 DEF Installed
  <2>2. InstallMade BY <2>1, InstallIsMade DEF RunOK
  <2>3. CASE CanInstallAddOns
    <3>1. InstallAddOns(request.license) BY <1>5, <2>3 DEF Installed
    <3> QED BY <1>1, <2>1, <2>2, <3>1, ValuesMade
  <2>4. CASE ~CanInstallAddOns
    <3>1. cluster' = None BY <1>5, <2>1, <2>4 DEF Installed
    <3> QED BY <1>3, <3>1
  <2> QED BY <2>3, <2>4
<1>6. ASSUME NEW n \in Joining, Join(n) PROVE ValuesOK'
  <2>1. cluster # None /\ UNCHANGED installation /\ JoinRegistry BY <1>6 DEF Join
  <2>2. RecordKept BY <2>1 DEF RecordKept, ValuesOK
  <2>3. installation.airgap => addons.registries = {addons.values.registry.ip}
    BY <2>1, RegistryIP DEF ValuesOK
  <2>4. /\ DOMAIN addons' = DOMAIN addons /\ addons'.values = addons.values
        /\ addons'.first = addons.first /\ addons'.secret = addons.secret
        /\ addons'.registries = IF installation.airgap
                                THEN addons.registries \cup {addons.values.registry.ip}
                                ELSE addons.registries
    BY <2>1 DEF JoinRegistry, ValuesOK
  <2>5. addons'.registries = addons.registries BY <2>3, <2>4
  <2> QED BY <1>1, <1>2, <2>1, <2>2, <2>4, <2>5, ValuesStay
<1>7. CASE Operate
  <2>1. cluster # None /\ UNCHANGED cluster BY <1>7 DEF Operate
  <2>2. RecordKept BY <1>7, <2>1, RecordStays DEF RecordKept
  <2>3. ASSUME NEW nodes, EnableHA(nodes) PROVE ValuesOK'
    <3>1. addons' = [addons EXCEPT !.values = Replaced(@, HAValues(EnableHAOptions(installation)))]
      BY <2>3 DEF EnableHA
    <3> QED BY <1>1, <1>2, <2>1, <2>2, <3>1, ValuesReplaced, ValuesDomain
  <2>4. CASE UpgradeAddOns
    <3>1. addons' = [addons EXCEPT !.values = Replaced(@, Values(UpgradeOptions(installation)))]
      BY <2>4 DEF UpgradeAddOns
    <3> QED BY <1>1, <1>2, <2>1, <2>2, <3>1, ValuesReplaced, ValuesDomain
  <2>5. CASE UNCHANGED addonVars
    <3>1. UNCHANGED addons BY <2>5 DEF addonVars
    <3> QED BY <1>1, <1>2, <2>1, <2>2, <3>1, ValuesStay
  <2> QED BY <1>7, <2>3, <2>4, <2>5 DEF Operate
<1>8. \/ UNCHANGED <<cluster, installation, addons>> \/ Installed \/ Operate
      \/ \E n \in Joining : Join(n)
  BY DEF Next, Ship, Install, Check, TakeBackup, Restore, LookForBackups, FollowAdvice, deliveryVars,
     partVars, addonVars
<1> QED BY <1>3, <1>4, <1>5, <1>6, <1>7, <1>8

-----------------------------------------------------------------------------
(* Updates of the application                                              *)

LEMMA HistoryType ==
    ASSUME GivenOK, HasApp
    PROVE  /\ IsSequence(History) /\ Updates = 1..Len(History) /\ Len(History) \in Nat
           /\ \A i \in Updates : History[i].version \in Int \cup {None} /\ History[i].ec.k8s \in Int
<1>1. Rel.channel \in DOMAIN vendor.promoted BY DEF HasApp
<1>2. /\ IsSequence(History)
      /\ \A i \in Updates : History[i].version \in Int \cup {None} /\ History[i].ec.k8s \in Int
  BY <1>1 DEF GivenOK, IsVendor, History, Updates
<1>3. Updates = 1..Len(History) /\ Len(History) \in Nat BY <1>2, SequenceType DEF Updates
<1> QED BY <1>2, <1>3

(* The portal has promoted the release of the binary.                      *)
LEMMA FirstUpdate ==
    ASSUME GivenOK, ReleaseOK, shipped, request.cmd = "install", HasApp
    PROVE  \E i \in Updates : History[i].label = Rel.version
<1>1. release = ParseRelease(vendor.files) BY DEF ReleaseOK
<1>2. release \in ReleaseSet(vendor.files) BY <1>1, VendorFiles DEF GivenOK
<1> DEFINE d == release.channel
<1>3. d \in AllDocuments(vendor.files) \cup {None} BY <1>2 DEF ReleaseSet
<1>4. Rel # None /\ Rel.channel \in DOMAIN vendor.promoted BY DEF HasApp
<1>5. d # None BY <1>4 DEF Rel, ChannelRelease
<1>6. None \notin DOMAIN vendor.promoted BY DEF GivenOK, IsVendor
<1>7. d.kind = "channel-release"
  <2>1. CASE d.kind # "channel-release"
    <3>1. Rel = NoChannel BY <1>5, <2>1 DEF Rel, ChannelRelease
    <3>2. Rel.channel = None BY <3>1 DEF NoChannel
    <3> QED BY <1>4, <1>6, <3>2
  <2> QED BY <2>1
<1>8. Rel = d.config BY <1>5, <1>7 DEF Rel, ChannelRelease
<1>9. WrittenByPortal(d, vendor) BY <1>3, <1>5, <1>7 DEF GivenOK, IsVendor
<1> QED BY <1>4, <1>8, <1>9 DEF WrittenByPortal, History, Updates

(* Once a command has run, the request and the release of an install stay. *)
LEMMA InstallStays ==
    ASSUME DeliveryInv, Next, run # NoRun, request'.cmd = "install"
    PROVE  UNCHANGED <<request, release>>
<1> USE DEF DeliveryInv
<1>1. ~Ship BY DEF Ship, ReleaseOK
<1>2. ~Install BY DEF Install
<1>3. CASE Check
  <2>1. CheckNext BY <1>3 DEF Check
  <2> QED BY <2>1, CheckIsOnCourse, CheckKinds
<1>4. ASSUME NEW h \in OtherHosts, NEW r \in Restores, Restore(h, r) PROVE FALSE
  <2>1. request' = r BY <1>4, StartFields DEF Restore
  <2> QED BY <2>1, RestoresAssumption DEF IsRequest
<1>5. ASSUME NEW reset \in BOOLEAN, FollowAdvice(reset) PROVE FALSE
  <2>1. run.advice # None /\ request' = Advised(request, run.advice)
    BY <1>5, StartFields DEF FollowAdvice
  <2>2. request'.cmd = "restore" BY <2>1, AdvisedFlags
  <2> QED BY <2>2
<1>6. CASE LookForBackups BY <1>6, LookSummary
<1>7. \/ UNCHANGED <<request, release>> \/ Ship \/ Install \/ Check
      \/ \E h \in OtherHosts, r \in Restores : Restore(h, r)
      \/ LookForBackups \/ \E reset \in BOOLEAN : FollowAdvice(reset)
  BY DEF Next, Installed, Join, Operate, TakeBackup, checkVars
<1> QED BY <1>1, <1>2, <1>3, <1>4, <1>5, <1>6, <1>7

UpdatesOK == AppOK /\ RequiredHaveRun /\ KubernetesByStep

LEMMA AppStays ==
    ASSUME DeliveryInv, Next, UNCHANGED app
    PROVE  UpdatesOK'
<1> USE DEF DeliveryInv
<1>1. UNCHANGED vendor BY VendorStays
<1>2. app # None => run # NoRun /\ run' # NoRun
  <2>1. app # None => run # NoRun BY DEF AppOK
  <2> QED BY <2>1, ReleaseStays
<1>3. CASE ~Running' BY <1>2, <1>3 DEF UpdatesOK, AppOK, RequiredHaveRun, KubernetesByStep
<1>4. CASE Running'
  <2>1. app # None /\ request'.cmd = "install" BY <1>4 DEF Running
  <2>2. UNCHANGED <<request, release>> /\ run' # NoRun BY <1>2, <2>1, InstallStays
  <2>3. Rel' = Rel /\ Airgap' = Airgap BY <2>2, ConfigStays
  <2>4. History' = History /\ License' = License BY <1>1, <2>2, <2>3 DEF History, License
  <2>5. Updates' = Updates /\ Running BY <2>1, <2>2, <2>4 DEF Updates, Running
  <2>6. \A h, x, y : Before(h, x, y)' = Before(h, x, y) BY <2>4 DEF Before
  <2>7. AppOK' BY <1>1, <2>2, <2>3, <2>4, <2>5 DEF AppOK, HasApp
  <2>8. InOrder' = InOrder BY <2>4, <2>5, <2>6 DEF InOrder
  <2> HIDE DEF Rel, Airgap, History, License, Updates, InOrder, Before
  <2>9. RequiredHaveRun' BY <2>2, <2>3, <2>4, <2>5, <2>6, <2>8 DEF RequiredHaveRun
  <2>10. KubernetesByStep' BY <2>2, <2>4, <2>5 DEF KubernetesByStep
  <2> QED BY <2>7, <2>9, <2>10 DEF UpdatesOK
<1> QED BY <1>3, <1>4

LEMMA AppStarts ==
    ASSUME DeliveryInv, run # NoRun, request.cmd = "install", HasApp, StartApp, run' # NoRun,
           UNCHANGED <<request, release, vendor>>
    PROVE  UpdatesOK'
<1> USE DEF DeliveryInv
<1>1. Rel' = Rel /\ Airgap' = Airgap BY ConfigStays
<1>2. History' = History /\ License' = License /\ HasApp' BY <1>1 DEF History, License, HasApp
<1>3. Updates' = Updates BY <1>2 DEF Updates
<1>4. shipped BY DEF ReleaseOK
<1> DEFINE first == CHOOSE i \in Updates : History[i].label = Rel.version
<1>5. first \in Updates BY <1>4, FirstUpdate
<1>6. PICK status \in {"deployed", "failed"} :
         app' = [first |-> first, current |-> first, status |-> status,
                 done |-> IF status = "deployed" THEN {first} ELSE {},
                 k8s |-> {History[first].ec.k8s}, uploaded |-> None]
  BY DEF StartApp
<1> HIDE DEF first
<1>7. /\ DOMAIN app' = {"first", "current", "status", "done", "k8s", "uploaded"}
      /\ app'.first = first /\ app'.current = first /\ app'.status = status /\ app'.uploaded = None
      /\ app'.done = (IF status = "deployed" THEN {first} ELSE {})
      /\ app'.k8s = {History[first].ec.k8s}
  BY <1>6
<1>8. AppOK' BY <1>2, <1>3, <1>5, <1>7 DEF AppOK
<1>9. RequiredHaveRun' BY <1>7 DEF RequiredHaveRun
<1>10. KubernetesByStep'
  <2>1. History[first].ec.k8s \in Int BY <1>5, HistoryType
  <2>2. \A v \in History[first].ec.k8s..History[first].ec.k8s : v = History[first].ec.k8s BY <2>1
  <2> QED BY <1>2, <1>7, <2>2 DEF KubernetesByStep
<1> QED BY <1>8, <1>9, <1>10 DEF UpdatesOK

(* What is deployed passes over no required release, and leaves none that  *)
(* did not run.                                                            *)
LEMMA NoneIsPassedOver ==
    ASSUME GivenOK, AppOK, RequiredHaveRun, Running, NEW target \in Updates, Upgradable(target),
           IF Airgap THEN InOrder ELSE License.channel = Rel.channel,
           NEW r \in Updates, History[r].required, ~Before(History, r, app.first),
           Before(History, r, target)
    PROVE  r \in app.done
<1> DEFINE c == app.current
<1>1. /\ c \in Updates /\ HasApp /\ (app.status = "deployed" => c \in app.done)
      /\ app.status \in {"deployed", "failed"}
  BY DEF AppOK
<1>2. Updates = 1..Len(History) /\ Len(History) \in Nat BY <1>1, HistoryType
<1>3. ~(app.status = "failed" /\ Found(target).current) /\ Found(target).required = {}
  BY DEF Upgradable, ValidateRequiredReleases
<1>4. CASE Before(History, r, c) BY <1>4 DEF RequiredHaveRun
<1>5. CASE ~Airgap /\ ~Before(History, r, c)
  <2> DEFINE passed == {i \in PendingReleases :
                          /\ History[i].required
                          /\ target \in PendingReleases => Sorted(History, i, target)}
  <2>1. vendor.promoted[License.channel] = History BY <1>5 DEF History
  <2>2. Found(target) = [current |-> c \in passed, required |-> passed \ {c}]
    BY <1>5, <2>1 DEF Found, HandlePendingReleases
  <2>3. r \in PendingReleases BY <1>1, <1>5, <2>1 DEF PendingReleases, Updates
  <2>4. r \in passed BY <2>3 DEF Sorted
  <2> HIDE DEF passed
  <2>5. Found(target).current = (c \in passed) /\ Found(target).required = passed \ {c} BY <2>2
  <2>6. r = c BY <1>3, <2>4, <2>5
  <2>7. app.status # "failed" BY <1>3, <2>4, <2>5, <2>6
  <2> QED BY <1>1, <2>6, <2>7
<1>6. CASE Airgap /\ ~Before(History, r, c)
  <2> DEFINE required == RequiredReleases(target)
             stops == {i \in required : i <= c}
             Above(i) == \A s \in stops \ {i} : Sorted(History, s, i)
  <2>1. Found(target) = [current |-> c \in stops /\ Above(c),
                         required |-> {i \in required \ stops : Above(i)}]
    BY <1>6 DEF Found, AirgapRequiredReleases
  <2>2. Found(target).current = (c \in stops /\ Above(c))
        /\ Found(target).required = {i \in required \ stops : Above(i)}
    BY <2>1
  <2>3. r \in required /\ required \subseteq Updates BY DEF RequiredReleases
  <2>4. \A x, y \in Updates : x < y => Sorted(History, x, y) BY <1>6 DEF InOrder, Sorted
  <2>5. ~(r < c) BY <1>1, <1>6 DEF InOrder
  <2> HIDE DEF required
  <2>6. ASSUME r > c PROVE FALSE
    <3>1. r \notin stops BY <1>1, <1>2, <2>6
    <3>2. \A s \in stops : s < r /\ s \in Updates BY <1>1, <1>2, <2>3, <2>6
    <3>3. Above(r) BY <2>4, <3>2
    <3> QED BY <1>3, <2>2, <2>3, <3>1, <3>3
  <2>7. r = c BY <1>1, <1>2, <2>5, <2>6
  <2>8. c \in stops BY <1>1, <1>2, <2>3, <2>7
  <2>9. \A s \in stops \ {c} : s < c /\ s \in Updates BY <1>1, <1>2, <2>3
  <2>10. Above(c) BY <1>1, <2>4, <2>9
  <2>11. app.status # "failed" BY <1>3, <2>2, <2>8, <2>10
  <2> QED BY <1>1, <2>7, <2>11
<1> QED BY <1>4, <1>5, <1>6

LEMMA AppDeploys ==
    ASSUME DeliveryInv, Running, NEW target \in Updates, Deploy(target), run # NoRun,
           UNCHANGED <<request, release, vendor, run>>
    PROVE  UpdatesOK'
<1> USE DEF DeliveryInv
<1>1. Rel' = Rel /\ Airgap' = Airgap BY ConfigStays
<1>2. History' = History /\ License' = License /\ HasApp' = HasApp BY <1>1 DEF History, License, HasApp
<1>3. Updates' = Updates BY <1>2 DEF Updates
<1>4. \A h, x, y : Before(h, x, y)' = Before(h, x, y) BY <1>2 DEF Before
<1>5. InOrder' = InOrder BY <1>2, <1>3, <1>4 DEF InOrder
<1>6. PICK status \in {"deployed", "failed"} :
         app' = [app EXCEPT !.current = target, !.status = status,
                            !.done = IF status = "deployed" THEN @ \cup {target} ELSE @,
                            !.k8s = @ \cup {History[target].ec.k8s}]
  BY DEF Deploy
<1>7. DOMAIN app = {"first", "current", "status", "done", "k8s", "uploaded"} /\ HasApp
  BY DEF AppOK
<1>8. /\ DOMAIN app' = DOMAIN app /\ app'.first = app.first /\ app'.current = target
      /\ app'.status = status /\ app'.uploaded = app.uploaded
      /\ app'.done = (IF status = "deployed" THEN app.done \cup {target} ELSE app.done)
      /\ app'.k8s = app.k8s \cup {History[target].ec.k8s}
  BY <1>6, <1>7
<1>9. AppOK' BY <1>2, <1>3, <1>7, <1>8 DEF AppOK
<1>10. Upgradable(target) BY DEF Deploy
<1>11. RequiredHaveRun'
  <2>1. ASSUME IF Airgap THEN InOrder ELSE License.channel = Rel.channel,
               NEW r \in Updates, History[r].required, ~Before(History, r, app.first),
               Before(History, r, target)
        PROVE  r \in app'.done
    BY <1>8, <1>10, <2>1, NoneIsPassedOver
  <2> HIDE DEF Rel, Airgap, History, License, Updates, InOrder, Before
  <2> QED BY <1>1, <1>2, <1>3, <1>4, <1>5, <1>8, <2>1 DEF RequiredHaveRun
<1>12. KubernetesByStep'
  <2> DEFINE f == History[app.first].ec.k8s
             c == History[app.current].ec.k8s
             t == History[target].ec.k8s
  <2>1. f \in Int /\ c \in Int /\ t \in Int BY <1>7, HistoryType DEF AppOK
  <2>2. t <= c + 1 /\ c <= t BY <1>10 DEF Upgradable, ValidateK8sVersion
  <2>3. \A v \in f..c : v \in app.k8s BY DEF KubernetesByStep
  <2>4. History'[app'.first].ec.k8s = f /\ History'[app'.current].ec.k8s = t BY <1>2, <1>8
  <2> HIDE DEF f, c, t
  <2>5. \A v \in f..t : v \in f..c \/ v = t BY <2>1, <2>2
  <2>6. \A v \in f..t : v \in app'.k8s BY <1>8, <2>3, <2>5 DEF t
  <2> QED BY <2>4, <2>6 DEF KubernetesByStep
<1> QED BY <1>9, <1>11, <1>12 DEF UpdatesOK

LEMMA AppKept ==
    ASSUME DeliveryInv, Running, run # NoRun, UNCHANGED <<request, release, vendor, run>>,
           DOMAIN app' = DOMAIN app, app'.first = app.first, app'.current = app.current,
           app'.k8s = app.k8s, app.done \subseteq app'.done, app'.done \subseteq app.done \cup {app.current},
           app'.status \in {"deployed", "failed"}, app'.uploaded \in Updates \cup {None},
           app'.status = "deployed" => app.current \in app'.done
    PROVE  UpdatesOK'
<1> USE DEF DeliveryInv
<1>1. Rel' = Rel /\ Airgap' = Airgap BY ConfigStays
<1>2. History' = History /\ License' = License /\ HasApp' = HasApp BY <1>1 DEF History, License, HasApp
<1>3. Updates' = Updates BY <1>2 DEF Updates
<1>4. \A h, x, y : Before(h, x, y)' = Before(h, x, y) BY <1>2 DEF Before
<1>5. InOrder' = InOrder BY <1>2, <1>3, <1>4 DEF InOrder
<1>6. AppOK' BY <1>2, <1>3 DEF AppOK
<1> HIDE DEF Rel, Airgap, History, License, Updates, InOrder, Before
<1>7. RequiredHaveRun' BY <1>1, <1>2, <1>3, <1>4, <1>5 DEF RequiredHaveRun
<1>8. KubernetesByStep' BY <1>2 DEF KubernetesByStep
<1> QED BY <1>6, <1>7, <1>8 DEF UpdatesOK

LEMMA UpdateStep ==
    ASSUME DeliveryInv, Next
    PROVE  UpdatesOK'
<1> USE DEF DeliveryInv
<1>1. UNCHANGED vendor BY VendorStays
<1>2. CASE UNCHANGED app BY <1>2, AppStays
<1>3. CASE Installed /\ HasApp /\ StartApp
  <2>1. run.outcome = "accepted" /\ request.cmd = "install" /\ UNCHANGED <<request, release>>
    BY <1>3 DEF Installed
  <2>2. run # NoRun BY <2>1 DEF NoRun
  <2>3. run' # NoRun BY <2>2, ReleaseStays
  <2> QED BY <1>1, <1>3, <2>1, <2>2, <2>3, AppStarts
<1>4. CASE Operate /\ UpdateNext
  <2>1. /\ cluster # None /\ backup = None /\ app # None
        /\ UNCHANGED <<request, release, run>>
    BY <1>4 DEF Operate, UpdateNext, checkVars
  <2>2. Running /\ run # NoRun BY <2>1 DEF BackupOK, GivenOK, Running, AppOK
  <2>3. /\ DOMAIN app = {"first", "current", "status", "done", "k8s", "uploaded"}
        /\ app.status \in {"deployed", "failed"} /\ app.uploaded \in Updates \cup {None}
        /\ app.status = "deployed" => app.current \in app.done
    BY <2>2 DEF AppOK
  <2>4. ASSUME NEW binary \in Updates, NEW bundle \in Updates, UpdateCmd(binary, bundle) PROVE UpdatesOK'
    <3>1. app' = [app EXCEPT !.uploaded = bundle] BY <2>4 DEF UpdateCmd
    <3>2. /\ DOMAIN app' = DOMAIN app /\ app'.first = app.first /\ app'.current = app.current
          /\ app'.k8s = app.k8s /\ app'.done = app.done /\ app'.status = app.status
          /\ app'.uploaded = bundle
      BY <2>3, <3>1
    <3> QED BY <1>1, <2>1, <2>2, <2>3, <3>2, AppKept
  <2>5. ASSUME NEW target \in Updates, Deploy(target) PROVE UpdatesOK'
    BY <1>1, <2>1, <2>2, <2>5, AppDeploys
  <2>6. CASE AppStatus
    <3>1. PICK status \in {"deployed", "failed"} :
            app' = [app EXCEPT !.status = status,
                               !.done = IF status = "deployed" THEN @ \cup {app.current} ELSE @]
      BY <2>6 DEF AppStatus
    <3>2. /\ DOMAIN app' = DOMAIN app /\ app'.first = app.first /\ app'.current = app.current
          /\ app'.k8s = app.k8s /\ app'.status = status /\ app'.uploaded = app.uploaded
          /\ app'.done = IF status = "deployed" THEN app.done \cup {app.current} ELSE app.done
      BY <2>3, <3>1
    <3> QED BY <1>1, <2>1, <2>2, <2>3, <3>2, AppKept
  <2> QED BY <1>4, <2>4, <2>5, <2>6 DEF UpdateNext
<1>5. UNCHANGED app \/ (Installed /\ HasApp /\ StartApp) \/ (Operate /\ UpdateNext)
  BY DEF Next, Ship, Install, Check, Installed, Join, Operate, TakeBackup, Restore, LookForBackups,
     FollowAdvice, deliveryVars, partVars
<1> QED BY <1>2, <1>3, <1>4, <1>5

-----------------------------------------------------------------------------
(* Lint                                                                    *)

LintFields == {"step", "file", "channels", "found", "errors", "warnings", "outcome"}
LEMMA LintDomain == DOMAIN NoLint = LintFields
  BY DEF NoLint, LintFields

LEMMA LintedStays ==
    ASSUME UNCHANGED vendor
    PROVE  /\ Args' = Args /\ Portal' = Portal /\ KnownTo(Portal)' = KnownTo(Portal)
           /\ \A j : LintedPlugins(j)' = LintedPlugins(j) /\ LintedDomains(j)' = LintedDomains(j)
  BY DEF Args, Portal, LintedPlugins, LintedDomains

(* A file that is done, without an error only if there was none.           *)
LEMMA FileIsDone ==
    ASSUME GivenOK, LintOK, lint.step \notin {"none", "end", "done"}, UNCHANGED vendor,
           NEW l, DOMAIN l = LintFields, l.file = lint.file, l.outcome = lint.outcome,
           l.errors \in BOOLEAN, NEW err \in BOOLEAN, FileDone(l, err), lint.errors => l.errors,
           ~l.errors /\ ~err => LintedPlugins(lint.file) /\ LintedDomains(lint.file)
    PROVE  LintOK'
<1> DEFINE n == Len(Args)
           wrong == l.errors \/ err
<1>1. n \in Nat /\ lint.file \in 0..n /\ lint.file # 0
  BY SequenceType DEF LintOK, GivenOK, IsVendor, Args
<1>2. lint' = [l EXCEPT !.errors = wrong, !.channels = {}, !.found = {},
                        !.file = IF l.file = n THEN l.file ELSE l.file + 1,
                        !.step = IF l.file = n THEN "end" ELSE "file"]
  BY DEF FileDone
<1>3. wrong \in BOOLEAN BY DEF wrong
<1> HIDE DEF wrong, n
<1>4. /\ DOMAIN lint' = LintFields /\ lint'.errors = wrong /\ lint'.channels = {} /\ lint'.found = {}
      /\ lint'.file = (IF lint.file = n THEN lint.file ELSE lint.file + 1)
      /\ lint'.step = (IF lint.file = n THEN "end" ELSE "file")
      /\ lint'.outcome = lint.outcome
  BY <1>2 DEF LintFields
<1>5. Len(Args)' = n BY DEF n, Args
<1>6. lint'.file \in 0..n /\ lint'.file # 0 BY <1>1, <1>4
<1>7. lint.outcome \in {"none", "failed"} BY DEF LintOK
<1>8. ASSUME ~wrong
      PROVE  \A j \in 1..lint.file : LintedPlugins(j) /\ LintedDomains(j)
  <2>1. ~l.errors /\ ~err BY <1>8 DEF wrong
  <2>2. ~lint.errors /\ LintedPlugins(lint.file) /\ LintedDomains(lint.file) BY <2>1 DEF LintOK
  <2>3. \A j \in 1..(lint.file - 1) : LintedPlugins(j) /\ LintedDomains(j) BY <2>2 DEF LintOK
  <2>4. \A j \in 1..lint.file : j \in 1..(lint.file - 1) \/ j = lint.file BY <1>1
  <2> QED BY <2>2, <2>3, <2>4
<1>9. ASSUME ~lint'.errors
      PROVE  /\ \A j \in 1..(lint'.file - 1) : LintedPlugins(j)' /\ LintedDomains(j)'
             /\ lint'.step \notin {"none", "file"} => LintedPlugins(lint.file)' /\ lint'.file = lint.file
             /\ lint'.step \in {"end", "done"} => LintedDomains(lint.file)' /\ lint'.file = lint.file
  <2>1. \A j \in 1..lint.file : LintedPlugins(j) /\ LintedDomains(j) BY <1>4, <1>8, <1>9
  <2>2. \A j \in 1..(lint'.file - 1) : j \in 1..lint.file BY <1>1, <1>4
  <2>3. lint.file \in 1..lint.file BY <1>1
  <2> QED BY <1>4, <2>1, <2>2, <2>3, LintedStays
<1>10. /\ lint'.channels \subseteq DOMAIN Portal'.channels /\ lint'.found \subseteq KnownTo(Portal)'
  BY <1>4
<1>11. lint'.step \in {"end", "done"} => lint'.file = Len(Args)' BY <1>4, <1>5
<1> HIDE DEF LintedPlugins, LintedDomains
<1> QED BY <1>3, <1>4, <1>5, <1>6, <1>7, <1>9, <1>10, <1>11, LintDomain DEF LintOK

LEMMA StillLinted ==
    ASSUME LintOK, UNCHANGED vendor, DOMAIN lint' = LintFields, lint'.file = lint.file,
           lint'.errors \in BOOLEAN, lint.errors => lint'.errors,
           lint'.channels \subseteq DOMAIN Portal.channels, lint'.found \subseteq KnownTo(Portal),
           lint'.outcome = lint.outcome, lint.step \in {"file", "channels", "releases", "hostnames"},
           lint'.step \in {"channels", "releases", "hostnames", "app"},
           ~lint'.errors => LintedPlugins(lint.file)
    PROVE  LintOK'
<1>1. lint.outcome \in {"none", "failed"} BY DEF LintOK
<1>2. /\ Args' = Args /\ Portal' = Portal /\ KnownTo(Portal)' = KnownTo(Portal)
      /\ \A j : LintedPlugins(j)' = LintedPlugins(j) /\ LintedDomains(j)' = LintedDomains(j)
  BY LintedStays
<1>3. ASSUME ~lint'.errors
      PROVE  /\ \A j \in 1..(lint.file - 1) : LintedPlugins(j)' /\ LintedDomains(j)'
             /\ LintedPlugins(lint.file)'
  BY <1>2, <1>3 DEF LintOK
<1> HIDE DEF LintedPlugins, LintedDomains
<1> QED BY <1>1, <1>2, <1>3, LintDomain DEF LintOK

LEMMA DomainsCompared ==
    ASSUME GivenOK, LintOK, lint.step \notin {"none", "file", "end", "done"}, UNCHANGED vendor,
           NEW found \in SUBSET KnownTo(Portal), CompareDomains(found)
    PROVE  LintOK'
<1> DEFINE err == DomainErrors(LintedConfig(File), found) # {}
<1>1. FileDone(lint, err) /\ err \in BOOLEAN BY DEF CompareDomains
<1>2. DOMAIN lint = LintFields /\ lint.errors \in BOOLEAN BY LintDomain DEF LintOK
<1>3. ASSUME ~lint.errors, ~err PROVE LintedPlugins(lint.file) /\ LintedDomains(lint.file)
  <2>1. LintedPlugins(lint.file) BY <1>3 DEF LintOK
  <2>2. LintedDomains(lint.file) BY <1>3 DEF LintedDomains, File, Args
  <2> QED BY <2>1, <2>2
<1> HIDE DEF err
<1> QED BY <1>1, <1>2, <1>3, FileIsDone

LEMMA FileFails ==
    ASSUME GivenOK, LintOK, lint.step \notin {"none", "end", "done"}, UNCHANGED vendor,
           FileDone(lint, TRUE)
    PROVE  LintOK'
<1>1. DOMAIN lint = LintFields /\ lint.errors \in BOOLEAN BY LintDomain DEF LintOK
<1> QED BY <1>1, FileIsDone

LEMMA LintMoves ==
    ASSUME GivenOK, LintOK, LintNext
    PROVE  LintOK'
<1>1. UNCHANGED vendor
  BY DEF LintNext, StartLint, ValidateFile, ListChannels, ReadChannel, ChannelsRead, ReadHostnames,
     ReadApp, EndLint
<1>2. DOMAIN lint = LintFields /\ lint.errors \in BOOLEAN BY LintDomain DEF LintOK
<1>3. Portal.hostnames \subseteq KnownTo(Portal) /\ Portal.app \subseteq KnownTo(Portal)
      /\ \A c \in DOMAIN Portal.channels : Portal.channels[c] \subseteq KnownTo(Portal)
  BY DEF KnownTo
<1>4. /\ Args' = Args /\ Portal' = Portal /\ KnownTo(Portal)' = KnownTo(Portal)
      /\ \A j : LintedPlugins(j)' = LintedPlugins(j) /\ LintedDomains(j)' = LintedDomains(j)
  BY <1>1, LintedStays
<1>5. CASE StartLint
  <2>1. lint.step = "none" /\ Args # <<>> /\ lint' = [lint EXCEPT !.step = "file", !.file = 1]
    BY <1>5 DEF StartLint
  <2>2. /\ DOMAIN lint' = LintFields /\ lint'.step = "file" /\ lint'.file = 1
        /\ lint'.channels = lint.channels /\ lint'.found = lint.found
        /\ lint'.errors = lint.errors /\ lint'.outcome = lint.outcome
    BY <1>2, <2>1 DEF LintFields
  <2>3. 1 \in 1..Len(Args) BY <2>1, SequenceType DEF GivenOK, IsVendor, Args
  <2>4. lint.outcome \in {"none", "failed"} BY <2>1 DEF LintOK
  <2> HIDE DEF LintedPlugins, LintedDomains
  <2> QED BY <1>4, <2>2, <2>3, <2>4, LintDomain DEF LintOK
<1>6. CASE ValidateFile
  <2> DEFINE c == LintedConfig(File)
             wrong == lint.errors \/ PluginErrors(c.plugins) # {}
             warnings == lint.warnings \/ PortWarnings(c) # {}
             checked == [lint EXCEPT !.errors = wrong, !.warnings = warnings]
  <2>1. /\ lint.step = "file"
        /\ \/ FileDone(lint, TRUE)
           \/ vendor.api /\ lint' = [checked EXCEPT !.step = "channels"]
           \/ ~vendor.api /\ FileDone(checked, FALSE)
    BY <1>6 DEF ValidateFile
  <2>2. wrong \in BOOLEAN /\ (lint.errors => wrong) /\ (~wrong => LintedPlugins(lint.file))
    BY <1>2 DEF LintedPlugins, File, Args
  <2> HIDE DEF wrong, warnings, c
  <2>3. /\ DOMAIN checked = LintFields /\ checked.errors = wrong /\ checked.file = lint.file
        /\ checked.outcome = lint.outcome /\ checked.channels = lint.channels
        /\ checked.found = lint.found
    BY <1>2 DEF LintFields
  <2>4. CASE FileDone(lint, TRUE) BY <1>1, <2>1, <2>4, FileFails
  <2> HIDE DEF checked
  <2>5. CASE vendor.api /\ lint' = [checked EXCEPT !.step = "channels"]
    <3>1. /\ DOMAIN lint' = LintFields /\ lint'.errors = wrong /\ lint'.file = lint.file
          /\ lint'.outcome = lint.outcome /\ lint'.channels = lint.channels /\ lint'.found = lint.found
          /\ lint'.step = "channels"
      BY <2>3, <2>5 DEF LintFields
    <3>2. lint.channels \subseteq DOMAIN Portal.channels /\ lint.found \subseteq KnownTo(Portal)
      BY DEF LintOK
    <3> QED BY <1>1, <2>1, <2>2, <3>1, <3>2, StillLinted
  <2>6. CASE ~vendor.api /\ FileDone(checked, FALSE)
    <3>1. LintedDomains(lint.file) BY <2>6 DEF LintedDomains
    <3> QED BY <1>1, <2>1, <2>2, <2>3, <2>6, <3>1, FileIsDone
  <2> QED BY <2>1, <2>4, <2>5, <2>6
<1>7. ASSUME lint.step \in {"channels", "releases"}, NEW s \in {"releases", "hostnames"},
             NEW channels \in SUBSET DOMAIN Portal.channels, NEW found \in SUBSET KnownTo(Portal),
             lint' = [lint EXCEPT !.step = s, !.channels = channels, !.found = found]
      PROVE  LintOK'
  <2>1. /\ DOMAIN lint' = LintFields /\ lint'.errors = lint.errors /\ lint'.file = lint.file
        /\ lint'.outcome = lint.outcome /\ lint'.channels = channels /\ lint'.found = found
        /\ lint'.step = s
    BY <1>2, <1>7 DEF LintFields
  <2>2. ~lint.errors => LintedPlugins(lint.file) BY <1>7 DEF LintOK
  <2> QED BY <1>1, <1>2, <1>7, <2>1, <2>2, StillLinted
<1>8. lint.channels \in SUBSET DOMAIN Portal.channels /\ lint.found \in SUBSET KnownTo(Portal)
  BY DEF LintOK
<1>9. CASE ListChannels
  <2>1. /\ lint.step = "channels"
        /\ \/ lint' = [lint EXCEPT !.step = "releases", !.channels = DOMAIN Portal.channels]
           \/ lint' = [lint EXCEPT !.step = "hostnames"]
    BY <1>9 DEF ListChannels
  <2>2. \/ lint' = [lint EXCEPT !.step = "releases", !.channels = DOMAIN Portal.channels,
                               !.found = lint.found]
        \/ lint' = [lint EXCEPT !.step = "hostnames", !.channels = lint.channels, !.found = lint.found]
    BY <1>2, <2>1 DEF LintFields
  <2> QED BY <1>7, <1>8, <2>1, <2>2
<1>10. CASE ReadChannel
  <2>1. PICK c \in lint.channels :
          \/ lint' = [lint EXCEPT !.channels = @ \ {c}, !.found = @ \cup Portal.channels[c]]
          \/ lint' = [lint EXCEPT !.channels = @ \ {c}]
    BY <1>10 DEF ReadChannel
  <2>2. lint.step = "releases" BY <1>10 DEF ReadChannel
  <2>3. \/ lint' = [lint EXCEPT !.step = "releases", !.channels = lint.channels \ {c},
                               !.found = lint.found \cup Portal.channels[c]]
        \/ lint' = [lint EXCEPT !.step = "releases", !.channels = lint.channels \ {c},
                               !.found = lint.found]
    BY <1>2, <2>1, <2>2 DEF LintFields
  <2>4. lint.channels \ {c} \in SUBSET DOMAIN Portal.channels
        /\ lint.found \cup Portal.channels[c] \in SUBSET KnownTo(Portal)
    BY <1>3, <1>8
  <2> QED BY <1>7, <1>8, <2>2, <2>3, <2>4
<1>11. CASE ChannelsRead
  <2>1. /\ lint.step = "releases"
        /\ CompareDomains(lint.found) \/ lint' = [lint EXCEPT !.step = "hostnames"]
    BY <1>11 DEF ChannelsRead
  <2>2. CASE CompareDomains(lint.found) BY <1>1, <1>8, <2>1, <2>2, DomainsCompared
  <2>3. CASE lint' = [lint EXCEPT !.step = "hostnames"]
    <3>1. lint' = [lint EXCEPT !.step = "hostnames", !.channels = lint.channels, !.found = lint.found]
      BY <1>2, <2>3 DEF LintFields
    <3> QED BY <1>7, <1>8, <2>1, <3>1
  <2> QED BY <2>1, <2>2, <2>3
<1>12. CASE ReadHostnames
  <2>1. /\ lint.step = "hostnames"
        /\ \/ CompareDomains(Portal.hostnames) \/ FileDone(lint, TRUE)
           \/ lint' = [lint EXCEPT !.step = "app"]
    BY <1>12 DEF ReadHostnames
  <2>2. CASE CompareDomains(Portal.hostnames) BY <1>1, <1>3, <2>1, <2>2, DomainsCompared
  <2>3. CASE FileDone(lint, TRUE) BY <1>1, <2>1, <2>3, FileFails
  <2>4. CASE lint' = [lint EXCEPT !.step = "app"]
    <3>1. /\ DOMAIN lint' = LintFields /\ lint'.errors = lint.errors /\ lint'.file = lint.file
          /\ lint'.outcome = lint.outcome /\ lint'.channels = lint.channels /\ lint'.found = lint.found
          /\ lint'.step = "app"
      BY <1>2, <2>4 DEF LintFields
    <3>2. ~lint.errors => LintedPlugins(lint.file) BY <2>1 DEF LintOK
    <3> QED BY <1>1, <1>2, <1>8, <2>1, <3>1, <3>2, StillLinted
  <2> QED BY <2>1, <2>2, <2>3, <2>4
<1>13. CASE ReadApp
  <2>1. lint.step = "app" /\ (CompareDomains(Portal.app) \/ FileDone(lint, TRUE))
    BY <1>13 DEF ReadApp
  <2>2. CASE CompareDomains(Portal.app) BY <1>1, <1>3, <2>1, <2>2, DomainsCompared
  <2>3. CASE FileDone(lint, TRUE) BY <1>1, <2>1, <2>3, FileFails
  <2> QED BY <2>1, <2>2, <2>3
<1>14. CASE EndLint
  <2> DEFINE outcome == IF lint.errors THEN "failed" ELSE "passed"
  <2>1. lint.step = "end" /\ lint' = [lint EXCEPT !.step = "done", !.outcome = outcome]
    BY <1>14 DEF EndLint
  <2> HIDE DEF outcome
  <2>2. /\ DOMAIN lint' = LintFields /\ lint'.step = "done" /\ lint'.outcome = outcome
        /\ lint'.errors = lint.errors /\ lint'.file = lint.file
        /\ lint'.channels = lint.channels /\ lint'.found = lint.found
    BY <1>2, <2>1 DEF LintFields
  <2>3. outcome \in {"passed", "failed"} /\ (outcome = "passed" => ~lint.errors) BY DEF outcome
  <2> HIDE DEF LintedPlugins, LintedDomains
  <2> QED BY <1>4, <2>1, <2>2, <2>3, LintDomain DEF LintOK
<1> QED BY <1>5, <1>6, <1>9, <1>10, <1>11, <1>12, <1>13, <1>14 DEF LintNext

LEMMA LintStays ==
    ASSUME LintOK, UNCHANGED <<vendor, lint>>
    PROVE  LintOK'
<1>1. /\ Args' = Args /\ Portal' = Portal /\ KnownTo(Portal)' = KnownTo(Portal)
      /\ \A j : LintedPlugins(j)' = LintedPlugins(j) /\ LintedDomains(j)' = LintedDomains(j)
  BY LintedStays
<1> HIDE DEF LintedPlugins, LintedDomains
<1> QED BY <1>1 DEF LintOK

LEMMA LintStep ==
    ASSUME DeliveryInv, Next
    PROVE  LintOK'
<1>1. GivenOK /\ LintOK BY DEF DeliveryInv
<1>2. LintNext \/ UNCHANGED <<vendor, lint>>
  BY DEF Next, Ship, Install, Check, Installed, Join, Operate, TakeBackup, Restore, LookForBackups,
     FollowAdvice
<1> QED BY <1>1, <1>2, LintMoves, LintStays

-----------------------------------------------------------------------------
(* The invariant holds                                                     *)

LEMMA InitInv == Init => DeliveryInv
<1> SUFFICES ASSUME Init PROVE DeliveryInv
  OBVIOUS
<1>1. PICK s \in Scenarios :
        /\ vendor = s.vendor /\ lint = NoLint
        /\ release = EmptyRelease /\ host = s.host /\ request = s.request /\ run = NoRun
        /\ shipped = FALSE /\ plan = [host |-> s.host, request |-> s.request]
        /\ cluster = None /\ backup = None /\ advised = None
        /\ installation = None /\ addons = None /\ app = None
  BY DEF Init
<1>2. IsVendor(vendor) /\ IsHost(host) /\ IsRequest(request, "install") /\ plan.request = request
  BY <1>1, ScenariosAssumption
<1>3. GivenOK BY <1>2, RequestFlags, NewHost DEF GivenOK
<1>4. ReleaseOK BY <1>1 DEF ReleaseOK
<1>5. request.cmd = "install" BY <1>2 DEF IsRequest
<1>6. /\ run.step = "none" /\ run.outcome = "none" /\ run.tries = 0 /\ run.reason = "none"
      /\ run.advice = None /\ DOMAIN run = DOMAIN NoRun /\ run = NoRun
  BY <1>1 DEF NoRun
<1>7. ProgressOK BY <1>5, <1>6 DEF ProgressOK, MaxTries
<1>8. NetworksOK BY <1>6 DEF NetworksOK, Unchecked, BeforeProxy, BeforeConfig
<1>9. PartsOK BY <1>6 DEF PartsOK, Licensed, Matched, Reported
<1>10. HostK0sOK BY <1>5, <1>6 DEF HostK0sOK, ClearHost, Licensed
<1>11. ClusterOK /\ BackupOK /\ ValuesOK BY <1>1, <1>5 DEF ClusterOK, BackupOK, ValuesOK
<1>12. AdviceOK BY <1>1, <1>6 DEF AdviceOK
<1>13. AppOK /\ RequiredHaveRun /\ KubernetesByStep
  BY <1>1 DEF AppOK, RequiredHaveRun, KubernetesByStep, Running
<1>14. LintOK
  <2>1. Len(Args) \in Nat BY <1>2, SequenceType DEF IsVendor, Args
  <2>2. /\ lint.step = "none" /\ lint.file = 0 /\ lint.channels = {} /\ lint.found = {}
        /\ lint.errors = FALSE /\ lint.outcome = "none" /\ DOMAIN lint = DOMAIN NoLint
    BY <1>1 DEF NoLint
  <2>3. \A j \in 1..(lint.file - 1) : FALSE BY <2>2
  <2>4. lint.errors \in BOOLEAN BY <2>2
  <2>5. lint.file \in 0..Len(Args) BY <2>1, <2>2
  <2> HIDE DEF LintedPlugins, LintedDomains
  <2> QED BY <2>2, <2>3, <2>4, <2>5 DEF LintOK
<1> QED BY <1>3, <1>4, <1>7, <1>8, <1>9, <1>10, <1>11, <1>12, <1>13, <1>14 DEF DeliveryInv

LEMMA StutterInv == DeliveryInv /\ UNCHANGED vars => DeliveryInv'
<1> SUFFICES ASSUME DeliveryInv, UNCHANGED vars PROVE DeliveryInv'
  OBVIOUS
<1> USE DEF DeliveryInv
<1>1. UNCHANGED <<vendor, lint>> /\ UNCHANGED checkVars
      /\ UNCHANGED <<shipped, plan, cluster, backup, advised, installation, addons, app>>
  BY DEF vars, deliveryVars, partVars, addonVars
<1>2. UNCHANGED <<release, host, request, run>> BY <1>1 DEF checkVars
<1>3. GivenOK' BY <1>1, <1>2, GivenStays DEF GivenOK
<1>4. ReleaseOK' BY <1>1, <1>2 DEF ReleaseOK
<1>5. RunOK' BY <1>1, RunStays DEF RunOK
<1>6. ClusterOK'
  <2>1. cluster # None => run' # NoRun /\ Config(release') = Config(release) BY <1>2 DEF ClusterOK
  <2> QED BY <1>1, <2>1, ClusterStays
<1>7. BackupOK' BY <1>1, <1>2 DEF BackupOK
<1>8. AdviceOK'
  <2>1. Mismatch' = Mismatch /\ Supernet' = Supernet BY <1>1, <1>2, MismatchStays
  <2>2. HostSame(host', host) /\ Same BY <1>2 DEF HostSame, Same
  <2>3. K0sConfig' = K0sConfig /\ FlagsFit' = FlagsFit BY <1>2, <2>2, K0sStays, ConfigStays
  <2> HIDE DEF Mismatch, Supernet, K0sConfig, FlagsFit
  <2> QED BY <1>1, <1>2, <2>1, <2>3 DEF AdviceOK
<1>9. ValuesOK'
  <2>1. CASE cluster = None BY <1>1, <2>1 DEF ValuesOK
  <2>2. CASE cluster # None
    <3>1. RecordKept /\ Alike BY <1>1, <1>2, <2>2 DEF RecordKept, Alike, ValuesOK
    <3> QED BY <1>1, <2>2, <3>1, ValuesStay
  <2> QED BY <2>1, <2>2
<1>10. UpdatesOK'
  <2>1. Rel' = Rel /\ Airgap' = Airgap BY <1>2, ConfigStays
  <2>2. History' = History /\ License' = License BY <1>1, <1>2, <2>1 DEF History, License
  <2>3. Updates' = Updates /\ Running' = Running BY <1>1, <1>2, <2>2 DEF Updates, Running
  <2>4. \A h, x, y : Before(h, x, y)' = Before(h, x, y) BY <2>2 DEF Before
  <2>5. AppOK' BY <1>1, <1>2, <2>1, <2>2, <2>3 DEF AppOK, HasApp
  <2>6. InOrder' = InOrder BY <2>2, <2>3, <2>4 DEF InOrder
  <2> HIDE DEF Rel, Airgap, History, License, Updates, InOrder, Before, Running
  <2>7. RequiredHaveRun' BY <1>1, <2>1, <2>2, <2>3, <2>4, <2>6 DEF RequiredHaveRun
  <2>8. KubernetesByStep' BY <1>1, <2>2, <2>3 DEF KubernetesByStep
  <2> QED BY <2>5, <2>7, <2>8 DEF UpdatesOK
<1>11. LintOK' BY <1>1, LintStays
<1> QED BY <1>3, <1>4, <1>5, <1>6, <1>7, <1>8, <1>9, <1>10, <1>11 DEF RunOK, UpdatesOK

LEMMA StepInv == DeliveryInv /\ [Next]_vars => DeliveryInv'
<1>1. ASSUME DeliveryInv, Next PROVE DeliveryInv'
  <2>1. /\ GivenOK' /\ ReleaseOK' /\ RunOK' /\ ClusterOK' /\ BackupOK' /\ AdviceOK' /\ ValuesOK'
        /\ UpdatesOK' /\ LintOK'
    BY <1>1, GivenStep, ReleaseStep, RunStep, ClusterStep, BackupStep, AdviceStep, ValuesStep, UpdateStep,
       LintStep
  <2> QED BY <2>1 DEF DeliveryInv, RunOK, UpdatesOK
<1> QED BY <1>1, StutterInv

THEOREM DeliveryHolds == Spec => []DeliveryInv
<1>1. Init => DeliveryInv BY InitInv
<1>2. DeliveryInv /\ [Next]_vars => DeliveryInv' BY StepInv
<1> QED BY <1>1, <1>2, PTL DEF Spec

-----------------------------------------------------------------------------
(* What follows from the invariant: networks and restores                  *)

LEMMA TypesFollow == DeliveryInv => TypeOK
<1> SUFFICES ASSUME DeliveryInv PROVE TypeOK
  OBVIOUS
<1> USE DEF DeliveryInv
<1>1. lint.outcome \in {"none", "passed", "failed"} /\ lint.file \in 0..Len(Args) BY DEF LintOK
<1>2. /\ run.outcome \in {"none", "accepted", "refused", "aborted", "crashed", "failed"}
      /\ run.step \in {"none"} \cup ToSet(StepsOf(request.cmd)) /\ run.tries < MaxTries
  BY DEF ProgressOK, MaxTries
<1>3. release.archives \in Nat /\ release.broken \in BOOLEAN BY ReleaseFacts
<1>4. host.state \in {"new", "confirm"} BY DEF GivenOK, HostOK
<1>5. cluster # None => cluster.nodes # {} /\ DOMAIN addons.first \subseteq DOMAIN addons.values
  BY DEF ClusterOK, ValuesOK
<1>6. Running => /\ app.current \in Updates /\ app.done \subseteq Updates
                 /\ app.status \in {"deployed", "failed"} /\ app.uploaded \in Updates \cup {None}
  BY DEF AppOK
<1> QED BY <1>1, <1>2, <1>3, <1>4, <1>5, <1>6 DEF TypeOK

LEMMA RegistryFollows == DeliveryInv => RegistryServed
<1> SUFFICES ASSUME DeliveryInv, cluster # None, cluster.airgap PROVE RegistryServed
  BY DEF RegistryServed
<1> USE DEF DeliveryInv
<1> DEFINE services == cluster.nets.services
           ip == addons.values.registry.ip
<1>1. /\ installation.airgap /\ installation.rc.services = services /\ services \in Entries
      /\ LowerBandIP(services, RegistryIndex) # None
  BY DEF ClusterOK
<1>2. ip = LowerBandIP(services, RegistryIndex) BY <1>1, RegistryIP DEF RegistryClusterIP
<1>3. addons.registries = {ip} /\ addons.secret = ip
  BY <1>1, <1>2 DEF ValuesOK, RegistryClusterIP
<1> HIDE DEF services
<1>4. Covers(services, ip) BY <1>1, <1>2, RegistryAddress
<1> QED BY <1>3, <1>4 DEF RegistryServed, services

LEMMA ProxiesFollow == DeliveryInv => NodesBypassProxy
  BY DEF DeliveryInv, ClusterOK, NodesBypassProxy, Plain

LEMMA FreeFollows == DeliveryInv => NetworksAreFree
<1> SUFFICES ASSUME DeliveryInv, Accepted("install"), ~request.skip, ~request.ignore,
                    request.overrides = None, Config(release).overrides = None
             PROVE  NetworksAreFree
  BY DEF NetworksAreFree
<1> USE DEF DeliveryInv
<1> DEFINE nets == host.k0s.nets
           node == Node(run.interface)
<1>1. InstallMade BY InstallIsMade DEF RunOK, Accepted
<1>2. /\ nets = FlagBlocks /\ host.k0s.node = node /\ node \in Blocks
      /\ run.nets.pods = nets.pods /\ run.nets.services = nets.services
      /\ run.nets.global \in {None, GlobalCIDR} /\ GlobalCIDR \in Entries
      /\ run.nets.global # None => nets = SplitNetworkCIDR(GlobalCIDR)
      /\ ValidateCIDR(GlobalCIDR) /\ NetworksAvailable
  BY <1>1, PlainNetworks DEF InstallMade, FlagsFit
<1>3. node.base \in Nat /\ host.routes \subseteq Blocks BY <1>2, AddressType DEF Blocks, GivenOK, HostOK
<1>4. \A b \in CheckedBlocks(run.nets) :
         ~Covers(b, node.base) /\ \A r \in host.routes : ~Overlap(b, r)
  BY <1>2 DEF NetworksAvailable
<1> HIDE DEF nets, node
<1>5. CASE run.nets.global = None
  <2>1. CheckedBlocks(run.nets) = {nets.pods, nets.services} BY <1>2, <1>5 DEF CheckedBlocks
  <2> QED BY <1>2, <1>4, <1>5, <2>1 DEF NetworksAreFree, nets
<1>6. CASE run.nets.global # None
  <2> DEFINE g == GlobalCIDR
  <2>1. ~Covers(g, node.base) /\ \A r \in host.routes : ~Overlap(g, r)
    BY <1>2, <1>4, <1>6 DEF CheckedBlocks
  <2>2. g.base \in Address /\ g.len \in 0..(W - 1) BY <1>2, ValidBlock
  <2> HIDE DEF g
  <2>3. nets = SplitNetworkCIDR(g) BY <1>2, <1>6 DEF g
  <2>4. \A n \in {nets.pods, nets.services} : ~Covers(n, node.base) BY <1>3, <2>1, <2>2, <2>3, HalfCovers
  <2>5. \A n \in {nets.pods, nets.services} : \A r \in host.routes : ~Overlap(n, r)
    BY <1>3, <2>1, <2>2, <2>3, HalfOverlaps
  <2>6. ~Overlap(nets.pods, nets.services) BY <2>2, <2>3, Halves
  <2> QED BY <1>2, <2>4, <2>5, <2>6 DEF NetworksAreFree, nets
<1> QED BY <1>5, <1>6

LEMMA RestoredFollows == DeliveryInv => RestoredAlike
<1> SUFFICES ASSUME DeliveryInv, Accepted("restore") PROVE RestoredAlike
  BY DEF RestoredAlike
<1> USE DEF DeliveryInv
<1>1. run.step = "backups" /\ run.outcome = "accepted" BY DEF ProgressOK, Accepted, LastStep
<1>2. Mismatch.reason = "none" BY <1>1 DEF AdviceOK
<1>3. /\ Rel.app = backup.app /\ Rel.version = backup.version /\ Airgap = backup.airgap
      /\ host.k0s.nets = backup.nets /\ request.dir = backup.dir
  BY <1>2, MismatchKinds
<1>4. ~Said("resume", "yes") => host.k0s = K0sConfig BY <1>1 DEF HostK0sOK
<1>5. ~Said("resume", "yes") => host.k0s.dir = backup.dir /\ host.k0s.airgap = backup.airgap
  BY <1>3, <1>4, K0sFields DEF Airgap
<1> HIDE DEF Rel
<1> QED BY <1>3, <1>5 DEF RestoredAlike

(* A restore that follows the advice for a split block asks for it.        *)
LEMMA AdviceFollows == DeliveryInv => AdviceLeads
<1> SUFFICES ASSUME DeliveryInv, advised # None, advised.reset, cluster.global # None,
                    cluster.nets.pods = SplitNetworkCIDR(cluster.global).pods,
                    cluster.nets.services = SplitNetworkCIDR(cluster.global).services,
                    Config(release).overrides = None, request.overrides = None
             PROVE  /\ run.outcome = "refused" => run.reason # "networks"
                    /\ run.advice # advised.advice
  BY DEF AdviceLeads
<1> USE DEF DeliveryInv
<1> DEFINE g == cluster.global
           a == advised.advice
<1>1. request.cmd = "restore" /\ a # None BY DEF AdviceOK
<1>2. backup # None /\ cluster # None /\ backup.nets = cluster.nets /\ backup.dir = cluster.dir
  BY <1>1 DEF BackupOK
<1>3. /\ g \in Entries /\ ValidateCIDR(g)
      /\ cluster.nets = [pods |-> cluster.nets.pods, services |-> cluster.nets.services]
  BY <1>2 DEF ClusterOK
<1>4. g.base \in Address /\ g.len \in 0..(W - 1) /\ g = Block(First(g), g.len)
  <2> HIDE DEF g
  <2> QED BY <1>3, ValidBlock
<1>5. Supernet = g
  <2> HIDE DEF g
  <2>1. NetworksAreAdjacentAndSameSize(SplitNetworkCIDR(g).pods, SplitNetworkCIDR(g).services)
          = Block(First(g), g.len)
    BY <1>4, Halves
  <2> QED BY <1>2, <1>4, <2>1 DEF Supernet, g
<1>6. cluster.nets = SplitNetworkCIDR(g) BY <1>3 DEF SplitNetworkCIDR
<1>7. \/ /\ a = [flag |-> "cidr", value |-> g]
         /\ request.cidr = g /\ request.pods = None /\ request.services = None
      \/ /\ a = [flag |-> "dir", value |-> [dir |-> backup.dir]] /\ request.dir = backup.dir
         /\ FlagsFit
  BY <1>5 DEF AdviceOK
<1>8. FlagsFit
  <2>1. CASE request.cidr = g /\ request.pods = None /\ request.services = None
    <3>1. GlobalCIDR = g BY <2>1 DEF GlobalCIDR
    <3> HIDE DEF g
    <3> QED BY <1>3, <2>1, <3>1 DEF FlagsFit
  <2> QED BY <1>7, <2>1
<1>9. run.reason # "networks" BY <1>8 DEF NetworksOK
<1>10. ASSUME run.advice = a PROVE FALSE
  <2>1. run.step = "backups" /\ a = Mismatch.advice BY <1>1, <1>10 DEF AdviceOK
  <2>2. \/ host.k0s.nets # backup.nets /\ (a.flag = "cidr" \/ a.flag = "pods-and-services")
        \/ request.dir # backup.dir /\ a.flag = "dir"
    <3> HIDE DEF Mismatch, a, Supernet
    <3>1. \/ /\ host.k0s.nets # backup.nets
             /\ \/ a = [flag |-> "cidr", value |-> Supernet]
                \/ a = [flag |-> "pods-and-services", value |-> backup.nets]
          \/ request.dir # backup.dir /\ a = [flag |-> "dir", value |-> [dir |-> backup.dir]]
      BY <1>1, <2>1, MismatchKinds
    <3> QED BY <3>1
  <2>3. CASE a.flag = "dir"
    <3>1. request.dir = backup.dir
      <4> HIDE DEF a, g
      <4> QED BY <1>7, <2>3
    <3> QED BY <2>2, <2>3, <3>1
  <2>4. CASE a.flag # "dir"
    <3>1. request.cidr = g /\ request.pods = None /\ request.services = None
      <4> HIDE DEF a, g
      <4> QED BY <1>7, <2>4
    <3>2. GlobalCIDR = g BY <3>1 DEF GlobalCIDR
    <3>3. FlagBlocks = SplitNetworkCIDR(g)
      BY <3>1, <3>2 DEF FlagBlocks, FlagNetworks, CIDRConfig, SplitNetworkCIDR
    <3>4. host.k0s = K0sConfig BY <2>1 DEF AdviceOK
    <3>5. run.nets = [pods |-> PatchedNetworks.pods, services |-> PatchedNetworks.services,
                      global |-> FlagNetworks.global]
      BY <2>1 DEF NetworksOK, BeforeConfig, BeforeProxy, Unchecked
    <3>6. K0sConfig.nets = PatchedNetworks BY <3>5, FlagsArePatched
    <3>7. host.k0s.nets = cluster.nets BY <1>6, <3>3, <3>4, <3>6, PlainNetworks
    <3> QED BY <1>2, <2>2, <2>4, <3>7
  <2> QED BY <2>3, <2>4
<1> QED BY <1>9, <1>10

LEMMA RestoresFollow == DeliveryInv => RestoreFits
  BY RestoredFollows, AdviceFollows DEF RestoreFits, DeliveryInv, ProgressOK, RefusedInTime

LEMMA NetworksFollow == DeliveryInv => NetworksFit
  BY FreeFollows, ProxiesFollow, RegistryFollows DEF NetworksFit

-----------------------------------------------------------------------------
(* What follows from the invariant: values                                 *)

AlikeOptions(o, q) ==
    /\ o.rc = q.rc /\ o.airgap = q.airgap /\ o.dr = q.dr /\ o.multi = q.multi
    /\ o.config = q.config /\ o.domains = q.domains
KeyOf(chart) == IF chart = "console" THEN "admin-console" ELSE chart
ChartNames == {"openebs", "operator", "console", "registry", "velero"}

(* Of options that are alike the charts get the same values, but for high  *)
(* availability.                                                           *)
LEMMA AlikeValues ==
    ASSUME NEW o, NEW q, AlikeOptions(o, q), NEW chart \in ChartNames,
           KeyOf(chart) \in o.user <=> KeyOf(chart) \in q.user
    PROVE  \A f \in DOMAIN ValuesOf(o, chart) \ {"ha"} : ValuesOf(q, chart)[f] = ValuesOf(o, chart)[f]
<1>1. Environment(o) = Environment(q) /\ Patched(o, KeyOf(chart)) = Patched(q, KeyOf(chart))
  BY DEF AlikeOptions, Environment, Patched
<1>2. CASE chart = "openebs"
  <2>1. Patched(o, "openebs") = Patched(q, "openebs") BY <1>1, <1>2 DEF KeyOf
  <2>2. ValuesOf(o, chart) = OpenEBSValues(o) /\ ValuesOf(q, chart) = OpenEBSValues(q)
    BY <1>2 DEF ValuesOf
  <2>3. OpenEBSValues(o) = OpenEBSValues(q) BY <2>1 DEF AlikeOptions, OpenEBSValues
  <2> QED BY <2>2, <2>3
<1>3. CASE chart = "operator"
  <2>1. Patched(o, "operator") = Patched(q, "operator") BY <1>1, <1>3 DEF KeyOf
  <2>2. ValuesOf(o, chart) = OperatorValues(o) /\ ValuesOf(q, chart) = OperatorValues(q)
    BY <1>3 DEF ValuesOf
  <2>3. OperatorValues(o) = OperatorValues(q) BY <1>1, <2>1 DEF AlikeOptions, OperatorValues
  <2> QED BY <2>2, <2>3
<1>4. CASE chart = "velero"
  <2>1. Patched(o, "velero") = Patched(q, "velero") BY <1>1, <1>4 DEF KeyOf
  <2>2. ValuesOf(o, chart) = VeleroValues(o) /\ ValuesOf(q, chart) = VeleroValues(q)
    BY <1>4 DEF ValuesOf
  <2>3. VeleroValues(o) = VeleroValues(q) BY <1>1, <2>1 DEF AlikeOptions, VeleroValues
  <2> QED BY <2>2, <2>3
<1>5. CASE chart = "registry"
  <2> DEFINE v(x) == RegistryValues(x)
  <2>1. Patched(o, "registry") = Patched(q, "registry") BY <1>1, <1>5 DEF KeyOf
  <2>2. ValuesOf(o, chart) = v(o) /\ ValuesOf(q, chart) = v(q) BY <1>5 DEF ValuesOf
  <2>3. DOMAIN v(o) = {"images", "ip", "ha", "patched"} BY DEF RegistryValues
  <2>4. v(q).images = v(o).images /\ v(q).ip = v(o).ip /\ v(q).patched = v(o).patched
    BY <2>1 DEF AlikeOptions, RegistryValues
  <2> HIDE DEF v
  <2> QED BY <2>2, <2>3, <2>4
<1>6. CASE chart = "console"
  <2> DEFINE v(x) == AdminConsoleValues(x)
  <2>1. Patched(o, "admin-console") = Patched(q, "admin-console") BY <1>1, <1>6 DEF KeyOf
  <2>2. ValuesOf(o, chart) = v(o) /\ ValuesOf(q, chart) = v(q) BY <1>6 DEF ValuesOf
  <2>3. DOMAIN v(o) = {"domains", "dir", "ha", "multi", "airgap", "env", "port", "patched"}
    BY DEF AdminConsoleValues
  <2>4. /\ v(q).domains = v(o).domains /\ v(q).dir = v(o).dir /\ v(q).multi = v(o).multi
        /\ v(q).airgap = v(o).airgap /\ v(q).env = v(o).env /\ v(q).port = v(o).port
        /\ v(q).patched = v(o).patched
    BY <1>1, <2>1 DEF AlikeOptions, AdminConsoleValues
  <2> HIDE DEF v
  <2> QED BY <2>2, <2>3, <2>4
<1> QED BY <1>2, <1>3, <1>4, <1>5, <1>6 DEF ChartNames

LEMMA PatchedByUser ==
    ASSUME NEW o, NEW chart \in ChartNames
    PROVE  ValuesOf(o, chart).patched.user = (KeyOf(chart) \in o.user)
<1>1. ValuesOf(o, chart).patched = Patched(o, KeyOf(chart))
  BY DEF ValuesOf, KeyOf, ChartNames, OpenEBSValues, OperatorValues, AdminConsoleValues, RegistryValues,
     VeleroValues
<1>2. Patched(o, KeyOf(chart)).user = (KeyOf(chart) \in o.user) BY DEF Patched
<1> QED BY <1>1, <1>2

LEMMA ValuesFollow == DeliveryInv => ValuesKept
<1> SUFFICES ASSUME DeliveryInv, cluster # None,
                    GetDomains(Recorded(installation)) = GetDomains(release),
                    NEW chart \in DOMAIN addons.first, ~addons.first[chart].patched.user,
                    NEW f \in DOMAIN addons.first[chart] \ {"ha"}
             PROVE  addons.values[chart][f] = addons.first[chart][f]
  BY DEF ValuesKept
<1> DEFINE first == FirstOptions
           chosen == UserChartsOf(plan.request)
<1>1. addons.first = Values(first) /\ Current(chart) BY DEF DeliveryInv, ValuesOK
<1>2. chart \in ChartNames /\ addons.first[chart] = ValuesOf(first, chart)
  <2> HIDE DEF first
  <2>1. addons.first = Values(first) BY <1>1 DEF first
  <2>2. DOMAIN Values(first) \subseteq ChartNames BY ValuesDomain DEF ChartNames
  <2>3. \A c \in DOMAIN Values(first) : Values(first)[c] = ValuesOf(first, c) BY ValuesDomain
  <2> QED BY <2>1, <2>2, <2>3
<1>3. PICK ha \in BOOLEAN, user \in {{}, chosen} :
         addons.values[chart] = ValuesOf(OptionsWith(ha, user, GetDomains(release)), chart)
  BY <1>1 DEF Current
<1> DEFINE now == OptionsWith(ha, user, GetDomains(release))
<1>4. AlikeOptions(first, now) /\ first.user = chosen /\ now.user = user
  BY DEF AlikeOptions, FirstOptions, OptionsWith
<1> HIDE DEF first, chosen, now
<1>5. KeyOf(chart) \notin chosen BY <1>2, <1>4, PatchedByUser
<1>6. KeyOf(chart) \notin user BY <1>3, <1>5
<1>7. ValuesOf(now, chart)[f] = ValuesOf(first, chart)[f] BY <1>2, <1>4, <1>5, <1>6, AlikeValues
<1> QED BY <1>2, <1>3, <1>7 DEF now

-----------------------------------------------------------------------------
(* What follows from the invariant: updates                                *)

LEMMA BeforeIsAnOrder ==
    ASSUME GivenOK, HasApp, NEW x \in Updates, NEW y \in Updates
    PROVE  /\ ~Before(History, x, x) /\ (Before(History, x, y) => ~Before(History, y, x))
           /\ \A z \in Updates :
                 Before(History, x, y) /\ Before(History, y, z) => Before(History, x, z)
<1>1. Updates = 1..Len(History) /\ Len(History) \in Nat
      /\ \A i \in Updates : History[i].version \in Int \cup {None}
  BY HistoryType
<1> HIDE DEF Updates, History
<1>2. CASE License.semver BY <1>1, <1>2 DEF Before
<1>3. CASE ~License.semver BY <1>1, <1>3 DEF Before
<1> QED BY <1>2, <1>3

(* A channel whose versions go up from each place to the next has them in  *)
(* order.                                                                  *)
LEMMA UpwardInOrder ==
    ASSUME GivenOK, HasApp, Upward
    PROVE  InOrder
<1>1. Updates = 1..Len(History) /\ Len(History) \in Nat BY HistoryType
<1> SUFFICES ASSUME NEW x \in Updates PROVE \A y \in Updates : x < y => Before(History, x, y)
  BY DEF InOrder
<1> DEFINE T == {y \in Nat : y \in Updates /\ x < y /\ ~Before(History, x, y)}
<1>2. CASE T = {}
  <2>1. \A y \in Updates : y \in Nat BY <1>1
  <2> QED BY <1>2, <2>1
<1>3. CASE T # {}
  <2>1. T \in SUBSET Nat OBVIOUS
  <2>2. PICK y \in T : \A z \in T : y <= z
    <3> HIDE DEF T
    <3> QED BY <1>3, <2>1, LeastNumber
  <2>3. y \in Updates /\ x < y /\ ~Before(History, x, y) BY <2>2
  <2>4. y - 1 \in Updates /\ y = (y - 1) + 1 /\ y - 1 \in Nat /\ ~(y <= y - 1) BY <1>1, <2>3
  <2>5. Before(History, y - 1, y) BY <2>3, <2>4 DEF Upward
  <2>6. y - 1 \notin T BY <2>2, <2>4
  <2>7. x = y - 1 \/ Before(History, x, y - 1)
    <3>1. x = y - 1 \/ x < y - 1 BY <1>1, <2>3
    <3> QED BY <2>4, <2>6, <3>1
  <2>8. Before(History, x, y) BY <2>3, <2>4, <2>5, <2>7, BeforeIsAnOrder
  <2> QED BY <2>3, <2>8
<1> QED BY <1>2, <1>3

LEMMA NextIsUpgradable ==
    ASSUME GivenOK, AppOK, Running, Upward, Airgap \/ License.channel = Rel.channel,
           app.status = "deployed", app.current + 1 \in Updates
    PROVE  Upgradable(app.current + 1)
<1> DEFINE c == app.current
           t == app.current + 1
<1>1. HasApp /\ c \in Updates BY DEF AppOK
<1>2. Updates = 1..Len(History) /\ Len(History) \in Nat
      /\ \A i \in Updates : History[i].version \in Int \cup {None}
  BY <1>1, HistoryType
<1>3. c \in Int /\ t \in Int /\ c < t /\ t \in Updates BY <1>1, <1>2
<1>4. InOrder BY <1>1, UpwardInOrder
<1>5. \A x, y \in Updates : x < y => Before(History, x, y) /\ ~Before(History, y, x)
  <2>1. \A x, y \in Updates : x < y => Before(History, x, y) BY <1>4 DEF InOrder
  <2>2. \A x, y \in Updates : Before(History, x, y) => ~Before(History, y, x)
    BY <1>1, BeforeIsAnOrder
  <2> QED BY <2>1, <2>2
<1>6. \A x \in Updates : ~Before(History, x, x) BY <1>1, BeforeIsAnOrder
<1>7. /\ ValidateECVersion(History[c].ec, History[t].ec)
      /\ ValidateK8sVersion(History[c].ec.k8s, History[t].ec.k8s)
  BY <1>1, <1>3 DEF Upward
<1>8. Before(History, c, t) /\ ~Before(History, t, c) BY <1>1, <1>3, <1>5
<1> HIDE DEF c, t
<1>9. ValidateAppVersion(c, t) BY <1>3, <1>8 DEF ValidateAppVersion, Before
<1>10. \A i \in Updates : i < c \/ i = c \/ i = t \/ t < i BY <1>1, <1>2, <1>3 DEF c, t
<1>11. Found(t).required = {}
  <2>1. CASE Airgap
    <3> DEFINE required == RequiredReleases(t)
               stops == {i \in required : i <= c}
               Above(i) == \A s \in stops \ {i} : Sorted(History, s, i)
    <3>1. Found(t) = [current |-> c \in stops /\ Above(c),
                      required |-> {i \in required \ stops : Above(i)}]
      BY <2>1 DEF Found, AirgapRequiredReleases, c
    <3>2. required \subseteq Updates /\ \A i \in required : Before(History, i, t)
      BY DEF RequiredReleases
    <3> HIDE DEF required
    <3>3. \A i \in required : i \in stops
      <4> SUFFICES ASSUME NEW i \in required PROVE i <= c
        OBVIOUS
      <4>1. i \in Updates /\ Before(History, i, t) BY <3>2
      <4>2. i # t /\ ~(t < i) BY <1>3, <1>5, <1>6, <4>1
      <4>3. i < c \/ i = c BY <1>10, <4>1, <4>2
      <4> QED BY <1>1, <1>2, <4>1, <4>3
    <3>4. {i \in required \ stops : Above(i)} = {} BY <3>3
    <3> HIDE DEF stops
    <3> QED BY <3>1, <3>4
  <2>2. CASE ~Airgap
    <3> DEFINE passed == {i \in PendingReleases :
                            /\ History[i].required
                            /\ t \in PendingReleases => Sorted(History, i, t)}
    <3>1. vendor.promoted[License.channel] = History BY <2>2 DEF History
    <3>2. Found(t) = [current |-> c \in passed, required |-> passed \ {c}]
      BY <2>2, <3>1 DEF Found, HandlePendingReleases, c
    <3>3. PendingReleases = {i \in Updates : ~Before(History, i, c)}
      BY <1>1, <3>1 DEF PendingReleases, Updates, c
    <3>4. t \in PendingReleases BY <1>3, <1>8, <3>3
    <3>5. ASSUME NEW i \in passed PROVE i = c
      <4>1. i \in Updates /\ ~Before(History, i, c) /\ Sorted(History, i, t) BY <3>3, <3>4
      <4>2. ~(i < c) BY <1>1, <1>5, <4>1
      <4>3. i # t
        <5>1. ~Sorted(History, t, t) BY <1>3, <1>6 DEF Sorted
        <5> QED BY <4>1, <5>1
      <4>4. ~(t < i)
        <5>1. ASSUME t < i PROVE Before(History, t, i) /\ ~Before(History, i, t) BY <1>3, <1>5, <4>1, <5>1
        <5> QED BY <4>1, <5>1 DEF Sorted
      <4> QED BY <1>10, <4>1, <4>2, <4>3, <4>4
    <3>6. passed \ {c} = {} BY <3>5
    <3> HIDE DEF passed
    <3> QED BY <3>2, <3>6
  <2> QED BY <2>1, <2>2
<1>12. ValidateRequiredReleases(Found(t)) BY <1>11 DEF ValidateRequiredReleases
<1> QED BY <1>7, <1>9, <1>12 DEF Upgradable, c, t

LEMMA UpdatesFollow == DeliveryInv => UpdatesLead
<1> SUFFICES ASSUME DeliveryInv PROVE UpdatesLead
  OBVIOUS
<1>1. NeverStranded BY NextIsUpgradable DEF DeliveryInv, NeverStranded
<1> QED BY <1>1 DEF DeliveryInv, UpdatesLead

LEMMA PartsFollow == DeliveryInv => PartsAgree
<1> SUFFICES ASSUME DeliveryInv, Accepted("install"), Airgap, request.bundle.info # None
             PROVE  /\ request.bundle.info.app = request.license.app
                    /\ request.bundle.info.channel
                          \in request.license.channels \cup {request.license.channel}
  BY DEF PartsAgree
<1>1. InstallMade BY InstallIsMade DEF RunOK, Accepted, DeliveryInv
<1> QED BY <1>1 DEF InstallMade, ChannelExists

-----------------------------------------------------------------------------
(* Plugins, domains and documents                                          *)

(* What lint decodes is a document, or no config.                          *)
LEMMA LintedDocument ==
    ASSUME GivenOK, NEW i \in DOMAIN vendor.files, vendor.files[i].docs # <<>>
    PROVE  /\ vendor.files[i].docs[1] \in AllDocuments(vendor.files)
           /\ IsDocument(vendor.files[i].docs[1])
<1>1. IsSequence(vendor.files[i].docs) BY DEF GivenOK, IsVendor
<1>2. 1 \in DOMAIN vendor.files[i].docs BY <1>1, SequenceType
<1>3. vendor.files[i].docs[1] \in AllDocuments(vendor.files) BY <1>2 DEF AllDocuments
<1> QED BY <1>3 DEF GivenOK, IsVendor

LEMMA LintedSequence ==
    ASSUME GivenOK, NEW i \in DOMAIN vendor.files
    PROVE  \E n \in Nat : DOMAIN LintedConfig(vendor.files[i]).plugins = 1..n
<1> DEFINE f == vendor.files[i]
           d == f.docs[1]
<1>1. CASE f.docs # <<>> /\ d.kind = "ec-config"
  <2>1. IsSequence(d.config.plugins) BY <1>1, LintedDocument DEF IsDocument
  <2>2. LintedConfig(f) = d.config BY <1>1 DEF LintedConfig, Decoded
  <2> QED BY <2>1, <2>2, SequenceType
<1>2. CASE ~(f.docs # <<>> /\ d.kind = "ec-config")
  <2>1. LintedConfig(f) = NoConfig BY <1>2 DEF LintedConfig, Decoded
  <2>2. LintedConfig(f).plugins = <<>> BY <2>1 DEF NoConfig
  <2>3. DOMAIN LintedConfig(f).plugins = 1..0 BY <2>2
  <2> QED BY <2>3
<1> QED BY <1>1, <1>2

LEMMA EarlierDiffers ==
    ASSUME NEW plugins, PluginErrors(plugins) = {}, NEW j \in DOMAIN plugins, NEW k \in DOMAIN plugins,
           j \in 1..(k - 1)
    PROVE  plugins[j].name # plugins[k].name /\ plugins[j].image # plugins[k].image
<1>1. plugins[j].name # None BY DEF PluginErrors
<1>2. plugins[j] \in Earlier(plugins, k) BY <1>1 DEF Earlier
<1> QED BY <1>2 DEF PluginErrors

LEMMA PassedArgs ==
    ASSUME DeliveryInv, lint.outcome = "passed", NEW i \in ToSet(Args)
    PROVE  i \in DOMAIN vendor.files /\ \E j : i = Args[j] /\ LintedPlugins(j) /\ LintedDomains(j)
<1>1. Len(Args) \in Nat /\ DOMAIN Args = 1..Len(Args) /\ ToSet(Args) \subseteq DOMAIN vendor.files
  BY SequenceType DEF DeliveryInv, GivenOK, IsVendor, Args
<1>2. PICK j \in 1..Len(Args) : i = Args[j] BY <1>1 DEF ToSet
<1>3. ~lint.errors /\ lint.step = "done" /\ lint.file = Len(Args) BY DEF DeliveryInv, LintOK
<1> DEFINE n == Len(Args)
<1>4. j \in 1..(n - 1) \/ j = n
  <2>1. n \in Nat /\ j \in 1..n BY <1>1, <1>2
  <2> HIDE DEF n
  <2> QED BY <2>1
<1>5. LintedPlugins(j) /\ LintedDomains(j)
  <2> HIDE DEF LintedPlugins, LintedDomains
  <2> QED BY <1>3, <1>4 DEF DeliveryInv, LintOK, n
<1> QED BY <1>1, <1>2, <1>5

LEMMA PluginsFollow == DeliveryInv => PassedPluginsAreDistinct
<1> SUFFICES ASSUME DeliveryInv, lint.outcome = "passed", NEW i \in ToSet(Args),
                    NEW j \in DOMAIN LintedConfig(vendor.files[i]).plugins,
                    NEW k \in DOMAIN LintedConfig(vendor.files[i]).plugins, j # k
             PROVE  LET plugins == LintedConfig(vendor.files[i]).plugins
                    IN  plugins[j].name # plugins[k].name /\ plugins[j].image # plugins[k].image
  BY DEF PassedPluginsAreDistinct
<1> DEFINE plugins == LintedConfig(vendor.files[i]).plugins
<1>1. i \in DOMAIN vendor.files /\ PluginErrors(plugins) = {} BY PassedArgs DEF LintedPlugins
<1>2. PICK n \in Nat : DOMAIN plugins = 1..n BY <1>1, LintedSequence DEF DeliveryInv
<1>3. j \in 1..n /\ k \in 1..n BY <1>2
<1>4. j \in 1..(k - 1) \/ k \in 1..(j - 1) BY <1>3
<1> HIDE DEF plugins
<1>5. plugins[j].name # plugins[k].name /\ plugins[j].image # plugins[k].image
  BY <1>1, <1>2, <1>3, <1>4, EarlierDiffers
<1> QED BY <1>5 DEF plugins

LEMMA DomainsFollow == DeliveryInv => InstalledDomainsKnown
<1> SUFFICES ASSUME DeliveryInv, shipped, WasLinted, NEW u \in DOMAIN GetDomains(release)
             PROVE  GetDomains(release)[u] \in KnownTo(Portal)
  BY DEF InstalledDomainsKnown
<1> DEFINE r == ParseRelease(vendor.files)
<1>1. r \in ReleaseSet(vendor.files) BY VendorFiles DEF DeliveryInv, GivenOK
<1>2. release = r \/ release = Later(r) BY DEF DeliveryInv, ReleaseOK
<1>3. Config(release) = Config(r) /\ GetDomains(release) = GetDomains(r) /\ release.ecConfig = r.ecConfig
  BY <1>1, <1>2, LaterIsAlike, LaterFields DEF DeliveryInv
<1> HIDE DEF r
<1>4. u \in DOMAIN DefaultDomains BY DEF GetDomains
<1>5. NoDomains[u] = None BY <1>4 DEF DefaultDomains, NoDomains
<1>6. ASSUME Config(r).domains[u] # None PROVE Config(r).domains[u] \in KnownTo(Portal)
  <2>1. HasConfig(r) BY <1>5, <1>6 DEF Config, NoConfig
  <2>2. PICK i \in ToSet(Args) : vendor.files[i].docs # <<>> /\ vendor.files[i].docs[1] = r.ecConfig
    BY <1>3, <2>1 DEF WasLinted, HasConfig
  <2>3. PICK j : i = Args[j] /\ LintedDomains(j) BY PassedArgs DEF WasLinted
  <2>4. LintedConfig(vendor.files[i]) = Config(r) BY <2>1, <2>2 DEF Config, LintedConfig
  <2>5. PICK found \in SUBSET KnownTo(Portal) : DomainErrors(Config(r), found) = {}
    BY <2>3, <2>4 DEF LintedDomains, WasLinted
  <2>6. Config(r).domains[u] \in found \cup {DefaultDomains[v] : v \in DOMAIN DefaultDomains}
    BY <1>4, <1>6, <2>5 DEF DomainErrors
  <2> QED BY <2>5, <2>6 DEF KnownTo
<1>7. ASSUME ChannelRelease(r) # None, ChannelRelease(r).domains[u] # None
      PROVE  ChannelRelease(r).domains[u] \in KnownTo(Portal)
  <2> DEFINE d == r.channel
  <2>1. d # None /\ d \in AllDocuments(vendor.files) BY <1>1, <1>7 DEF ReleaseSet, ChannelRelease
  <2>2. d.kind = "channel-release" /\ ChannelRelease(r) = d.config
    BY <1>5, <1>7, <2>1 DEF ChannelRelease, NoChannel
  <2>3. WrittenByPortal(d, vendor) BY <2>1, <2>2 DEF DeliveryInv, GivenOK, IsVendor
  <2>4. d.config.domains[u] \in {None} \cup KnownTo(Portal)
    BY <1>4, <2>3 DEF WrittenByPortal, WasLinted, Portal
  <2> QED BY <1>7, <2>2, <2>4
<1>8. DefaultDomains[u] \in KnownTo(Portal) BY <1>4 DEF KnownTo
<1>9. GetDomains(r)[u] = IF Config(r).domains[u] # None THEN Config(r).domains[u]
                         ELSE IF ChannelRelease(r) # None /\ ChannelRelease(r).domains[u] # None
                              THEN ChannelRelease(r).domains[u]
                              ELSE DefaultDomains[u]
  BY <1>4 DEF GetDomains
<1> HIDE DEF KnownTo
<1> QED BY <1>3, <1>6, <1>7, <1>8, <1>9

(* A document that is decoded stays in the release, in files that are      *)
(* named and written as they should be.                                    *)
Kept(r, S) == ~r.broken /\ \A d \in S : HeldIn(r, d)

Single == {"application", "app-config", "ec-config", "backup", "restore"}
SameFields(p, r, e) ==
    /\ p.channel = r.channel /\ p.broken = r.broken
    /\ p.application = IF e.kind = "application" THEN e ELSE r.application
    /\ p.appConfig = IF e.kind = "app-config" THEN e ELSE r.appConfig
    /\ p.ecConfig = IF e.kind = "ec-config" THEN e ELSE r.ecConfig
    /\ p.backup = IF e.kind = "backup" THEN e ELSE r.backup
    /\ p.restore = IF e.kind = "restore" THEN e ELSE r.restore
    /\ p.preflights = IF e.kind = "host-preflight" THEN Append(r.preflights, e) ELSE r.preflights
    /\ p.charts = IF e.kind = "helm-chart" THEN Append(r.charts, <<e>>) ELSE r.charts

LEMMA DocumentFields ==
    ASSUME NEW files, NEW r \in ReleaseSet(files), NEW e, e.kind \in Kinds \ {"config-values"}
    PROVE  SameFields(ProcessYAMLDocument(r, <<e>>), r, e)
<1> DEFINE text == <<e>>
           k == e.kind
           P == ProcessYAMLDocument(r, text)
<1>1. text # <<>> /\ text[1] = e /\ {text[i].kind : i \in DOMAIN text} = {k} OBVIOUS
<1>2. DOMAIN r = {"application", "appConfig", "preflights", "ecConfig", "channel", "backup", "restore",
                  "charts", "archives", "broken"}
  BY DEF ReleaseSet
<1>3. P = IF {k} \cap {"application"} # {} THEN [r EXCEPT !.application = e]
          ELSE IF {k} \cap Kots # {} THEN [r EXCEPT !.appConfig = e]
          ELSE IF {k} \cap {"kurl-preflight"} # {} THEN r
          ELSE IF {k} \cap {"host-preflight"} # {}
               THEN IF k = "host-preflight"
                    THEN [r EXCEPT !.preflights = Append(@, e)]
                    ELSE [r EXCEPT !.broken = TRUE]
          ELSE IF {k} \cap {"ec-config"} # {} THEN [r EXCEPT !.ecConfig = e]
          ELSE IF {k} \cap {"backup"} # {} THEN [r EXCEPT !.backup = e]
          ELSE IF {k} \cap {"restore"} # {} THEN [r EXCEPT !.restore = e]
          ELSE IF {k} \cap {"helm-chart"} # {} THEN [r EXCEPT !.charts = Append(@, text)]
          ELSE r
  <2> HIDE DEF text, k
  <2> QED BY <1>1 DEF ProcessYAMLDocument, k
<1> DEFINE more == Append(r.preflights, e)
           charts == Append(r.charts, text)
<1> HIDE DEF P
<1>4. k \in {"application", "app-config", "host-preflight", "kurl-preflight", "backup", "restore",
             "ec-config", "helm-chart", "channel-release"}
  BY DEF Kinds, Kots
<1>5. P = CASE k = "application" -> [r EXCEPT !.application = e]
            [] k = "app-config" -> [r EXCEPT !.appConfig = e]
            [] k = "host-preflight" -> [r EXCEPT !.preflights = more]
            [] k = "ec-config" -> [r EXCEPT !.ecConfig = e]
            [] k = "backup" -> [r EXCEPT !.backup = e]
            [] k = "restore" -> [r EXCEPT !.restore = e]
            [] k = "helm-chart" -> [r EXCEPT !.charts = charts]
            [] OTHER -> r
  <2> HIDE DEF text, k
  <2> QED BY <1>3, <1>4 DEF Kots
<1> HIDE DEF more, charts
<1>6. ASSUME k = "application" PROVE SameFields(P, r, e) BY <1>2, <1>5, <1>6 DEF SameFields
<1>7. ASSUME k = "app-config" PROVE SameFields(P, r, e) BY <1>2, <1>5, <1>7 DEF SameFields
<1>8. ASSUME k = "host-preflight" PROVE SameFields(P, r, e)
  <2>1. P = [r EXCEPT !.preflights = more] BY <1>5, <1>8
  <2>2. P.preflights = more BY <1>2, <2>1
  <2> QED BY <1>2, <1>8, <2>1, <2>2 DEF SameFields, more
<1>9. ASSUME k = "ec-config" PROVE SameFields(P, r, e) BY <1>2, <1>5, <1>9 DEF SameFields
<1>10. ASSUME k = "backup" PROVE SameFields(P, r, e) BY <1>2, <1>5, <1>10 DEF SameFields
<1>11. ASSUME k = "restore" PROVE SameFields(P, r, e) BY <1>2, <1>5, <1>11 DEF SameFields
<1>12. ASSUME k = "helm-chart" PROVE SameFields(P, r, e)
  <2>1. P = [r EXCEPT !.charts = charts] BY <1>5, <1>12
  <2>2. P.charts = charts BY <1>2, <2>1
  <2> QED BY <1>2, <1>12, <2>1, <2>2 DEF SameFields, charts
<1>13. ASSUME k \in {"kurl-preflight", "channel-release"} PROVE SameFields(P, r, e) BY <1>2, <1>5, <1>13 DEF SameFields
<1>14. SameFields(P, r, e) BY <1>4, <1>6, <1>7, <1>8, <1>9, <1>10, <1>11, <1>12, <1>13
<1> QED BY <1>14 DEF P

Occurs(x, s) == \E i \in DOMAIN s : s[i] = x
LEMMA AppendHolds ==
    ASSUME NEW T, NEW s \in Seq(T), NEW e \in T
    PROVE  Occurs(e, Append(s, e)) /\ \A x : Occurs(x, s) => Occurs(x, Append(s, e))
<1> DEFINE t == Append(s, e)
           n == Len(s)
<1>1. n \in Nat /\ DOMAIN s = 1..n /\ DOMAIN t = 1..(n + 1) OBVIOUS
<1>2. t[n + 1] = e /\ \A i \in 1..n : t[i] = s[i] OBVIOUS
<1> HIDE DEF t, n
<1>3. n + 1 \in DOMAIN t /\ DOMAIN s \subseteq DOMAIN t BY <1>1
<1>4. \E i \in DOMAIN t : t[i] = e BY <1>2, <1>3
<1>5. ASSUME NEW x, NEW i \in DOMAIN s, s[i] = x PROVE \E j \in DOMAIN t : t[j] = x
  <2>1. t[i] = x /\ i \in DOMAIN t BY <1>1, <1>2, <1>3, <1>5
  <2> QED BY <2>1
<1> QED BY <1>4, <1>5 DEF t, Occurs

LEMMA TextKept ==
    ASSUME NEW files, AreFiles(files), WellFormed(files), NEW r \in ReleaseSet(files),
           NEW S \in SUBSET AllDocuments(files), Kept(r, S),
           NEW e \in AllDocuments(files), e.kind = "channel-release" => e \in S
    PROVE  Kept(ProcessYAMLDocument(r, <<e>>), S \cup {e})
<1> DEFINE p == ProcessYAMLDocument(r, <<e>>)
           D == AllDocuments(files)
           X == Texts(files)
<1>1. e.kind \in Kinds \ {"config-values"} BY DEF AreFiles, IsDocument, WellFormed
<1>2. SameFields(p, r, e) BY <1>1, DocumentFields
<1>3. r.preflights \in Seq(D \cup {None}) /\ r.charts \in Seq(X) /\ e \in D \cup {None} /\ <<e>> \in X
  BY DEF ReleaseSet, Texts
<1> HIDE DEF p, D, X
<1>4. ASSUME NEW d, \/ Occurs(d, r.preflights)
                    \/ d = e /\ e.kind = "host-preflight"
      PROVE  Occurs(d, p.preflights)
  <2>1. p.preflights = IF e.kind = "host-preflight" THEN Append(r.preflights, e) ELSE r.preflights
    BY <1>2 DEF SameFields
  <2>2. CASE e.kind # "host-preflight" BY <1>4, <2>1, <2>2
  <2>3. CASE e.kind = "host-preflight"
    <3> DEFINE s == r.preflights
               t == Append(s, e)
    <3>1. Occurs(e, t) /\ \A x : Occurs(x, s) => Occurs(x, t)
      <4> DEFINE T == D \cup {None}
      <4>1. s \in Seq(T) /\ e \in T BY <1>3
      <4> HIDE DEF T, s
      <4> QED BY <4>1, AppendHolds
    <3>2. p.preflights = t BY <2>1, <2>3
    <3> HIDE DEF t
    <3> QED BY <1>4, <3>1, <3>2
  <2> QED BY <2>2, <2>3
<1>5. ASSUME NEW d, \/ Occurs(d, r.charts)
                    \/ d = <<e>> /\ e.kind = "helm-chart"
      PROVE  Occurs(d, p.charts)
  <2>1. p.charts = IF e.kind = "helm-chart" THEN Append(r.charts, <<e>>) ELSE r.charts
    BY <1>2 DEF SameFields
  <2>2. CASE e.kind # "helm-chart" BY <1>5, <2>1, <2>2
  <2>3. CASE e.kind = "helm-chart"
    <3> DEFINE s == r.charts
               c == <<e>>
               t == Append(s, c)
    <3> HIDE DEF c
    <3>1. Occurs(c, t) /\ \A x : Occurs(x, s) => Occurs(x, t)
      <4>1. s \in Seq(X) /\ c \in X BY <1>3 DEF c
      <4> HIDE DEF s
      <4> QED BY <4>1, AppendHolds
    <3>2. p.charts = t BY <2>1, <2>3 DEF c
    <3>3. Occurs(d, s) \/ d = c BY <1>5 DEF c
    <3> HIDE DEF t
    <3> QED BY <3>1, <3>2, <3>3
  <2> QED BY <2>2, <2>3
<1>6. ~p.broken BY <1>2 DEF SameFields, Kept
<1>7. ASSUME NEW d \in S \cup {e} PROVE HeldIn(p, d)
  <2>1. d \in AllDocuments(files) /\ (d # e => HeldIn(r, d)) BY DEF Kept
  <2>2. d.kind = e.kind /\ d.kind \in HeldOnce => d = e BY <2>1 DEF WellFormed
  <2>3. d.kind \in Kinds BY <2>1 DEF AreFiles, IsDocument
  <2>4. CASE d.kind = "application" BY <1>2, <2>1, <2>2, <2>4 DEF SameFields, HeldIn, HeldOnce, Kinds, Kots
  <2>5. CASE d.kind = "app-config" BY <1>2, <2>1, <2>2, <2>5 DEF SameFields, HeldIn, HeldOnce, Kinds, Kots
  <2>6. CASE d.kind = "ec-config" BY <1>2, <2>1, <2>2, <2>6 DEF SameFields, HeldIn, HeldOnce, Kinds, Kots
  <2>7. CASE d.kind = "backup" BY <1>2, <2>1, <2>2, <2>7 DEF SameFields, HeldIn, HeldOnce, Kinds, Kots
  <2>8. CASE d.kind = "restore" BY <1>2, <2>1, <2>2, <2>8 DEF SameFields, HeldIn, HeldOnce, Kinds, Kots
  <2>9. CASE d.kind = "channel-release"
    <3>1. d \in S BY <2>9
    <3>2. HeldIn(r, d) BY <3>1 DEF Kept
    <3> QED BY <1>2, <2>9, <3>2 DEF SameFields, HeldIn
  <2>10. CASE d.kind = "host-preflight"
    <3>1. \A q : HeldIn(q, d) = Occurs(d, q.preflights)
      BY <2>10 DEF HeldIn, Occurs
    <3> QED BY <1>4, <2>1, <2>10, <3>1
  <2>11. CASE d.kind = "helm-chart"
    <3> DEFINE c == <<d>>
    <3>1. \A q : HeldIn(q, d) = Occurs(c, q.charts)
      BY <2>11 DEF HeldIn, Occurs
    <3>2. d = e => c = <<e>> OBVIOUS
    <3> HIDE DEF c
    <3> QED BY <1>5, <2>1, <2>11, <3>1, <3>2
  <2>12. CASE d.kind \in {"config-values", "kurl-preflight"} BY <2>12 DEF HeldIn
  <2> QED
    BY <2>3, <2>4, <2>5, <2>6, <2>7, <2>8, <2>9, <2>10, <2>11, <2>12 DEF Kinds, Kots
<1>8. Kept(p, S \cup {e}) BY <1>6, <1>7 DEF Kept
<1> QED BY <1>8 DEF p

(* All documents of a file are kept, and with them those before it.        *)
DocumentsOf(f) == {f.docs[j] : j \in DOMAIN f.docs}
LEMMA FileKept ==
    ASSUME NEW files, AreFiles(files), WellFormed(files), NEW r \in ReleaseSet(files),
           NEW S \in SUBSET AllDocuments(files), Kept(r, S), NEW i \in DOMAIN files
    PROVE  /\ Process(r, files[i]) \in ReleaseSet(files)
           /\ Kept(Process(r, files[i]), S \cup DocumentsOf(files[i]))
           /\ S \cup DocumentsOf(files[i]) \in SUBSET AllDocuments(files)
<1> DEFINE f == files[i]
           docs == f.docs
           base == ProcessDocument(r, f)
           seq == Documents(f)
           n == Len(docs)
           marked == {j \in DOMAIN docs : docs[j].kind = "channel-release"}
           B == S \cup {docs[j] : j \in marked}
           Until(k) == B \cup {docs[j] : j \in 1..k}
<1>1. n \in Nat /\ DOMAIN docs = 1..n BY SequenceType DEF AreFiles
<1>2. f.name = "yaml" /\ f.splits BY DEF WellFormed
<1>3. seq = [j \in DOMAIN docs |-> <<docs[j]>>] BY <1>2 DEF Documents
<1>4. \A j \in 1..n : docs[j] \in AllDocuments(files) BY <1>1 DEF AllDocuments
<1>5. base \in ReleaseSet(files) BY DocumentType
<1>6. Kept(base, B)
  <2>1. CASE marked = {}
    <3>1. base = r BY <1>2, <2>1 DEF ProcessDocument
    <3>2. B = S BY <2>1
    <3> QED BY <3>1, <3>2
  <2>2. CASE marked # {}
    <3>1. base = [r EXCEPT !.channel = docs[1]] BY <2>2 DEF ProcessDocument
    <3>2. \A j \in marked : j = 1 BY DEF WellFormed
    <3>3. docs[1].kind = "channel-release" /\ 1 \in 1..n BY <1>1, <2>2, <3>2
    <3>4. B = S \cup {docs[1]} BY <2>2, <3>2
    <3>5. docs[1] \in AllDocuments(files) BY <1>4, <3>3
    <3> HIDE DEF base, B, docs
    <3>6. /\ base.channel = docs[1] /\ base.broken = r.broken /\ base.application = r.application
          /\ base.appConfig = r.appConfig /\ base.ecConfig = r.ecConfig /\ base.backup = r.backup
          /\ base.restore = r.restore /\ base.preflights = r.preflights /\ base.charts = r.charts
      BY <3>1 DEF ReleaseSet
    <3>7. ASSUME NEW d \in S PROVE HeldIn(base, d)
      <4>1. HeldIn(r, d) /\ d \in AllDocuments(files) BY DEF Kept
      <4>2. CASE d.kind = "channel-release"
        <5>1. d = docs[1] BY <3>3, <3>5, <4>1, <4>2 DEF WellFormed, HeldOnce, Kinds, Kots
        <5> QED BY <3>6, <4>2, <5>1 DEF HeldIn
      <4>3. CASE d.kind # "channel-release" BY <3>6, <4>1, <4>3 DEF HeldIn
      <4> QED BY <4>2, <4>3
    <3>8. HeldIn(base, docs[1]) BY <3>3, <3>6 DEF HeldIn
    <3> QED BY <3>4, <3>6, <3>7, <3>8 DEF Kept
  <2> QED BY <2>1, <2>2
<1>7. B \in SUBSET AllDocuments(files) BY <1>1, <1>4
<1>8. \A j \in 1..n : docs[j].kind = "channel-release" => docs[j] \in B BY <1>1
<1>9. DOMAIN seq = 1..n /\ \A j \in 1..n : seq[j] = <<docs[j]>> BY <1>1, <1>3
<1>10. Process(r, f) = ProcessTexts(base, seq) BY DEF Process, Kept
<1> HIDE DEF n, marked, B, seq, base, docs
<1>11. OneByOne(base, seq, n) BY <1>1, <1>9, FoldOfDocuments
<1>12. PICK g : /\ g[0] = base
                /\ \A k \in 1..n : g[k] = ProcessYAMLDocument(g[k - 1], seq[k])
                /\ ProcessTexts(base, seq) = g[n]
  BY <1>11 DEF OneByOne
<1> DEFINE Good(k) == g[k] \in ReleaseSet(files) /\ Kept(g[k], Until(k))
           T == {k \in 0..n : ~Good(k)}
<1>13. Good(0)
  <2>1. Until(0) = B OBVIOUS
  <2> QED BY <1>5, <1>6, <1>12, <2>1
<1>14. ASSUME NEW k \in 1..n, Good(k - 1) PROVE Good(k)
  <2> DEFINE e == docs[k]
  <2>1. e \in AllDocuments(files) /\ (e.kind = "channel-release" => e \in Until(k - 1)) BY <1>4, <1>8
  <2>2. Until(k - 1) \in SUBSET AllDocuments(files)
    <3>1. \A j \in 1..(k - 1) : j \in 1..n BY <1>1
    <3> QED BY <1>4, <1>7, <3>1
  <2>3. Until(k) = Until(k - 1) \cup {e}
    <3>1. 1..k = 1..(k - 1) \cup {k} BY <1>1
    <3> QED BY <3>1
  <2>4. g[k] = ProcessYAMLDocument(g[k - 1], <<e>>) BY <1>9, <1>12
  <2>5. <<e>> \in Texts(files) BY <2>1 DEF Texts
  <2> HIDE DEF e, Until
  <2>6. Kept(g[k], Until(k - 1) \cup {e}) BY <1>14, <2>1, <2>2, <2>4, TextKept
  <2>7. g[k] \in ReleaseSet(files) BY <1>14, <2>4, <2>5, YAMLDocumentType
  <2> QED BY <2>3, <2>6, <2>7
<1> HIDE DEF Good
<1>15. T = {}
  <2>1. SUFFICES ASSUME T # {} PROVE FALSE OBVIOUS
  <2>2. T \in SUBSET Nat OBVIOUS
  <2>3. PICK k \in T : \A l \in T : k <= l BY <2>1, <2>2, LeastNumber
  <2>4. k # 0 BY <1>13, <2>3
  <2>5. k \in 1..n /\ k - 1 \in 0..n /\ k - 1 \notin T BY <1>1, <2>3, <2>4
  <2>6. Good(k) BY <1>14, <2>5
  <2> QED BY <2>3, <2>6
<1>16. Good(n) BY <1>1, <1>15
<1> DEFINE all == S \cup {docs[j] : j \in DOMAIN docs}
<1>17. Until(n) = all BY <1>1 DEF B, marked
<1>18. all \in SUBSET AllDocuments(files) BY <1>1, <1>4
<1>19. Process(r, f) = g[n] BY <1>10, <1>12
<1> HIDE DEF Until, all
<1>20. Process(r, f) \in ReleaseSet(files) /\ Kept(Process(r, f), all) /\ all \in SUBSET AllDocuments(files)
  BY <1>16, <1>17, <1>18, <1>19 DEF Good
<1> QED BY <1>20 DEF all, docs, DocumentsOf

LEMMA AllKept ==
    ASSUME NEW files, AreFiles(files), WellFormed(files)
    PROVE  Kept(ParseRelease(files), AllDocuments(files))
<1> DEFINE n == Len(files)
           Of(i) == DocumentsOf(files[i])
           Until(k) == UNION {Of(i) : i \in 1..k}
<1>1. n \in Nat /\ DOMAIN files = 1..n BY SequenceType DEF AreFiles
<1> HIDE DEF n
<1>2. PICK g : /\ g[0] = EmptyRelease
               /\ \A i \in 1..n : g[i] = Process(g[i - 1], files[i])
               /\ ParseRelease(files) = g[n]
  BY <1>1, FoldOfFiles
<1> DEFINE Good(k) == /\ g[k] \in ReleaseSet(files) /\ Kept(g[k], Until(k))
                      /\ Until(k) \in SUBSET AllDocuments(files)
           T == {k \in 0..n : ~Good(k)}
<1>3. Good(0)
  <2>1. EmptyRelease \in ReleaseSet(files) BY DEF EmptyRelease, ReleaseSet
  <2>2. Until(0) = {} OBVIOUS
  <2>3. Kept(EmptyRelease, {}) BY DEF Kept, EmptyRelease
  <2> QED BY <1>2, <2>1, <2>2, <2>3
<1>4. ASSUME NEW k \in 1..n, Good(k - 1) PROVE Good(k)
  <2>1. Until(k) = Until(k - 1) \cup Of(k)
    <3>1. 1..k = 1..(k - 1) \cup {k} BY <1>1
    <3> QED BY <3>1
  <2>2. g[k] = Process(g[k - 1], files[k]) /\ k \in DOMAIN files BY <1>1, <1>2
  <2> DEFINE S == Until(k - 1)
  <2>3. S \in SUBSET AllDocuments(files) /\ Kept(g[k - 1], S) /\ g[k - 1] \in ReleaseSet(files) BY <1>4
  <2> HIDE DEF S
  <2>4. /\ g[k] \in ReleaseSet(files)
        /\ Kept(g[k], S \cup Of(k)) /\ S \cup Of(k) \in SUBSET AllDocuments(files)
    BY <2>2, <2>3, FileKept
  <2> HIDE DEF Until, Of
  <2> QED BY <2>1, <2>4 DEF S
<1> HIDE DEF Good
<1>5. T = {}
  <2>1. SUFFICES ASSUME T # {} PROVE FALSE OBVIOUS
  <2>2. T \in SUBSET Nat OBVIOUS
  <2>3. PICK k \in T : \A l \in T : k <= l BY <2>1, <2>2, LeastNumber
  <2>4. k # 0 BY <1>3, <2>3
  <2>5. k \in 1..n /\ k - 1 \in 0..n /\ k - 1 \notin T BY <1>1, <2>3, <2>4
  <2>6. Good(k) BY <1>4, <2>5
  <2> QED BY <2>3, <2>6
<1>6. Good(n) BY <1>1, <1>5
<1>7. Until(n) = AllDocuments(files) BY <1>1 DEF AllDocuments, DocumentsOf
<1> HIDE DEF Until
<1> QED BY <1>2, <1>6, <1>7 DEF Good

LEMMA DocumentsFollow == DeliveryInv => NothingLost
<1> SUFFICES ASSUME DeliveryInv, shipped, backup = None, WellFormed(vendor.files)
             PROVE  ~release.broken /\ \A d \in AllDocuments(vendor.files) : HeldIn(release, d)
  BY DEF NothingLost
<1>1. request.cmd # "restore" BY DEF DeliveryInv, BackupOK
<1>2. release = ParseRelease(vendor.files) BY <1>1 DEF DeliveryInv, ReleaseOK
<1>3. AreFiles(vendor.files) BY VendorFiles DEF DeliveryInv, GivenOK
<1> QED BY <1>2, <1>3, AllKept DEF Kept

LEMMA SoundFollows == DeliveryInv => ReleaseIsSound
  BY TypesFollow, PluginsFollow, DocumentsFollow, DomainsFollow, PartsFollow DEF ReleaseIsSound

-----------------------------------------------------------------------------
(* The invariants                                                          *)

(* Whatever the vendor ships and in whatever order the commands, their     *)
(* answers and the updates come, the networks that were checked are the    *)
(* ones that nodes, proxies and the registry rely on.                      *)
THEOREM NetworksAlwaysFit == Spec => []NetworksFit
  BY DeliveryHolds, NetworksFollow, PTL

(* A restore that goes on fits its cluster, and one that does not is       *)
(* refused before it changes the host and with advice that leads on.       *)
THEOREM RestoresAlwaysFit == Spec => []RestoreFits
  BY DeliveryHolds, RestoresFollow, PTL

(* The values of the charts that enable-ha and upgrades compute are those  *)
(* of the installation, but where they may differ.                         *)
THEOREM ValuesAreKept == Spec => []ValuesKept
  BY DeliveryHolds, ValuesFollow, PTL

(* No required release is passed over, no minor version of Kubernetes is   *)
(* left out and the way to the last release stays open, in a channel of    *)
(* any length.                                                             *)
THEOREM UpdatesAlwaysLead == Spec => []UpdatesLead
  BY DeliveryHolds, UpdatesFollow, PTL

(* Lint, the parser of the binary and the checks of the license agree, for *)
(* all files that a vendor may write and any number of them.               *)
THEOREM ReleasesAreSound == Spec => []ReleaseIsSound
  BY DeliveryHolds, SoundFollows, PTL

-----------------------------------------------------------------------------
(* The migration from v1                                                   *)

(* The part of the type invariant that the argument needs.                 *)
Shape ==
    /\ config \in {Charts, {}} /\ crs \subseteq Charts /\ finalizers \subseteq crs
    /\ applied = TRUE
    /\ operator \in [replicas : 0..1, pod : BOOLEAN, version : 1..2]
    /\ pod \in [step : Steps, pending : SUBSET Charts,
                stale : SUBSET (Charts \cup {ClusterConfig})]
    /\ job \in {"active", "succeeded", "failed"}

(* The operator of v1 does not write the ClusterConfig any more.           *)
Down == operator.version = 2 \/ (~operator.pod /\ operator.replicas = 0)

AfterWait == {"list", "clear", "watch", "delete", "get config", "update config", "complete"}

(* The strengthening, step by step of the pod.                             *)
IInv ==
    /\ Shape
    /\ releases = Charts /\ deleting = {}
    /\ pod.step \in AfterWait \cup {"upgrade"} => Down
    /\ operator.version = 1 /\ pod.step = "wait" => operator.replicas = 0
    /\ (config # Charts \/ crs # Charts \/ finalizers # Charts) => Down
    /\ pod.step = "check config" /\ config = {} => Migrated
    /\ pod.step = "delete" => crs \cap finalizers = {} /\ crs \subseteq pod.pending
    /\ pod.step \in {"get config", "update config"} => crs = {}
    /\ pod.step \in {"complete", "upgrade"} => Migrated
    /\ condition = "complete" \/ job = "succeeded" => Migrated
    /\ job # "active" => pod = NoPod
    /\ operator.version = 2 => job = "succeeded"

LEMMA NoPodShape ==
  NoPod \in [step : Steps, pending : SUBSET Charts,
             stale : SUBSET (Charts \cup {ClusterConfig})]
  BY DEF NoPod, Steps

LEMMA IInvInit == ASSUME MigrationInit PROVE IInv
<1>1. Charts \subseteq Charts /\ 1 \in 0..1 /\ 1 \in 1..2 /\ 1 # 2
  OBVIOUS
<1>2. Shape
  BY <1>1, NoPodShape DEF MigrationInit, Shape
<1> QED
  BY <1>1, <1>2 DEF MigrationInit, IInv, Migrated, NoPod, AfterWait, Down

(* What a change of the step alone does.                                   *)
LEMMA GotoStep ==
  ASSUME Shape, NEW s \in Steps, Goto(s)
  PROVE  /\ pod'.step = s /\ pod'.pending = pod.pending
         /\ UNCHANGED <<config, crs, finalizers, applied, operator, job>> => Shape'
  BY DEF Goto, Shape

(* Only an active Job has a pod, and v2 is installed by the last one.       *)
LEMMA PodOf ==
  ASSUME IInv, pod.step # "none"
  PROVE  job = "active" /\ operator.version = 1
<1>1. NoPod.step = "none"
  BY DEF NoPod
<1>2. job = "active"
  BY <1>1 DEF IInv
<1>3. operator \in [replicas : 0..1, pod : BOOLEAN, version : 1..2]
  BY DEF IInv, Shape
<1>4. operator.version # 2
  BY <1>2 DEF IInv
<1> QED
  BY <1>2, <1>3, <1>4

(* The steps before the operator is gone.                                  *)
LEMMA BeforeStep ==
  ASSUME IInv,
         StartPod \/ CheckCharts \/ CheckClusterConfig \/ SetInProgress \/ SetReplicasZero
         \/ WaitForOperator
  PROVE  IInv'
<1> Shape /\ pod \in [step : Steps, pending : SUBSET Charts,
                      stale : SUBSET (Charts \cup {ClusterConfig})]
  BY DEF IInv, Shape
<1> USE DEF PodAt, k0s
<1>1. CASE StartPod
  <2>1. Shape' /\ pod'.step = "check charts" /\ pod.step = "none"
    BY <1>1, GotoStep DEF StartPod, NoPod, Steps
  <2> QED
    BY <1>1, <2>1 DEF StartPod, IInv, AfterWait, Down, Migrated
<1>2. CASE CheckCharts
  <2> job = "active" /\ operator.version = 1
    BY <1>2, PodOf DEF CheckCharts
  <2>1. Shape' /\ pod'.step = IF crs # {} THEN "in progress" ELSE "check config"
    BY <1>2, GotoStep DEF CheckCharts, Steps
  <2>2. crs = {} => Down
    BY ChartsAssumption DEF IInv
  <2> QED
    BY <1>2, <2>1, <2>2 DEF CheckCharts, IInv, AfterWait, Down, Migrated
<1>3. CASE CheckClusterConfig
  <2> job = "active" /\ operator.version = 1
    BY <1>3, PodOf DEF CheckClusterConfig
  <2>1. Shape' /\ pod'.step = IF config # {} THEN "in progress" ELSE "upgrade"
    BY <1>3, GotoStep DEF CheckClusterConfig, Steps
  <2>2. config = {} => Down
    BY ChartsAssumption DEF IInv
  <2> QED
    BY <1>3, <2>1, <2>2 DEF CheckClusterConfig, IInv, AfterWait, Down, Migrated
<1>4. CASE SetInProgress
  <2> job = "active" /\ operator.version = 1
    BY <1>4, PodOf DEF SetInProgress
  <2>1. Shape' /\ pod'.step = "scale"
    BY <1>4, GotoStep DEF SetInProgress, Steps
  <2> QED
    BY <1>4, <2>1 DEF SetInProgress, IInv, AfterWait, Down, Migrated
<1>5. CASE SetReplicasZero
  <2> job = "active" /\ operator.version = 1
    BY <1>5, PodOf DEF SetReplicasZero
  <2>1. pod'.step = "wait" /\ pod'.pending = pod.pending
    BY <1>5, GotoStep DEF SetReplicasZero, Steps
  <2>2. operator'.replicas = 0 /\ operator'.pod = operator.pod
        /\ operator'.version = operator.version
    BY <1>5 DEF SetReplicasZero, Shape
  <2>3. operator' \in [replicas : 0..1, pod : BOOLEAN, version : 1..2]
    BY <1>5 DEF SetReplicasZero, Shape
  <2>4. pod' \in [step : Steps, pending : SUBSET Charts,
                 stale : SUBSET (Charts \cup {ClusterConfig})]
    BY <1>5 DEF SetReplicasZero, Goto, Steps
  <2>5. Shape'
    BY <1>5, <2>3, <2>4 DEF SetReplicasZero, Shape
  <2> QED
    BY <1>5, <2>1, <2>2, <2>5 DEF SetReplicasZero, IInv, AfterWait, Down, Migrated
<1>6. CASE WaitForOperator
  <2> job = "active" /\ operator.version = 1
    BY <1>6, PodOf DEF WaitForOperator
  <2>1. Shape' /\ pod'.step = "list"
    BY <1>6, GotoStep DEF WaitForOperator, Steps
  <2>2. Down
    BY <1>6 DEF WaitForOperator, OperatorGone, IInv, Down, Shape
  <2> QED
    BY <1>6, <2>1, <2>2 DEF WaitForOperator, IInv, AfterWait, Down, Migrated
<1> QED
  BY <1>1, <1>2, <1>3, <1>4, <1>5, <1>6

(* The steps of the clean up: what goes has no finalizer.                  *)
LEMMA CleanUpStep ==
  ASSUME IInv, late = FALSE,
         ListCharts \/ (\E c \in Charts : ClearFinalizers(c)) \/ WatchFinalizers
         \/ (\E c \in Charts : DeleteChart(c)) \/ GetConfig \/ UpdateConfig
  PROVE  IInv'
<1> Shape /\ pod \in [step : Steps, pending : SUBSET Charts,
                      stale : SUBSET (Charts \cup {ClusterConfig})]
  BY DEF IInv, Shape
<1> USE DEF PodAt, k0s
<1>1. CASE ListCharts
  <2> job = "active" /\ operator.version = 1
    BY <1>1, PodOf DEF ListCharts
  <2>1. pod'.step \in {"watch", "clear"}
    BY <1>1 DEF ListCharts
  <2>2. Shape'
    BY ZenonT(60), <1>1 DEF ListCharts, Shape, Steps
  <2> QED
    BY <1>1, <2>1, <2>2 DEF ListCharts, IInv, AfterWait, Down, Migrated
<1>2. ASSUME NEW c \in Charts, ClearFinalizers(c) PROVE IInv'
  <2> job = "active" /\ operator.version = 1
    BY ZenonT(60), <1>2, PodOf DEF ClearFinalizers
  <2>1. pod'.step \in {"watch", "clear"} /\ pod.step = "clear"
    BY <1>2 DEF ClearFinalizers
  <2>2. UNCHANGED <<crs, deleting>> /\ finalizers' = finalizers \ {c}
    BY ZenonT(60), <1>2 DEF ClearFinalizers, Clear, IInv
  <2>3. Shape'
    BY <1>2, <2>2 DEF ClearFinalizers, Shape, Steps
  <2> QED
    BY ZenonT(60), <1>2, <2>1, <2>2, <2>3 DEF ClearFinalizers, IInv, AfterWait, Down, Migrated
<1>3. CASE WatchFinalizers
  <2> job = "active" /\ operator.version = 1
    BY <1>3, PodOf DEF WatchFinalizers
  <2>1. /\ pod'.step = IF crs = {} THEN "get config" ELSE "delete"
        /\ pod'.pending = crs
    BY <1>3 DEF WatchFinalizers
  <2>2. Shape'
    BY ZenonT(60), <1>3 DEF WatchFinalizers, Shape, Steps
  <2> QED
    BY <1>3, <2>1, <2>2 DEF WatchFinalizers, IInv, AfterWait, Down, Migrated
<1>4. ASSUME NEW c \in Charts, DeleteChart(c) PROVE IInv'
  <2> job = "active" /\ operator.version = 1
    BY ZenonT(60), <1>4, PodOf DEF DeleteChart
  <2>1. /\ c \notin finalizers
        /\ crs' = crs \ {c} /\ UNCHANGED <<deleting, finalizers>>
    BY <1>4 DEF DeleteChart, IInv
  <2>2. /\ pod'.step = IF pod.pending = {c} THEN "get config" ELSE "delete"
        /\ pod'.pending = pod.pending \ {c} /\ pod.step = "delete"
    BY ZenonT(60), <1>4 DEF DeleteChart
  <2>3. Shape'
    BY <1>4, <2>1 DEF DeleteChart, Shape, Steps
  <2>4. pod.pending = {c} => crs' = {}
    BY <2>1, <2>2 DEF IInv
  <2> QED
    BY ZenonT(60), <1>4, <2>1, <2>2, <2>3, <2>4 DEF DeleteChart, IInv, AfterWait, Down, Migrated
<1>5. CASE GetConfig
  <2> job = "active" /\ operator.version = 1
    BY <1>5, PodOf DEF GetConfig
  <2>1. pod'.step = "update config"
    BY <1>5 DEF GetConfig
  <2>2. Shape'
    BY <1>5 DEF GetConfig, Shape, Steps
  <2> QED
    BY <1>5, <2>1, <2>2 DEF GetConfig, IInv, AfterWait, Down, Migrated
<1>6. CASE UpdateConfig
  <2> job = "active" /\ operator.version = 1
    BY <1>6, PodOf DEF UpdateConfig
  <2>1. /\ config' = {} /\ crs = {} /\ finalizers = {}
        /\ crs' = {} /\ finalizers' = {} /\ UNCHANGED <<deleting, applied>>
    BY <1>6 DEF UpdateConfig, Change, Follow, IInv, Shape
  <2>2. pod'.step = "complete" /\ pod'.pending = pod.pending
    BY <1>6, GotoStep DEF UpdateConfig, Steps
  <2>3. Shape'
    BY <1>6, <2>1 DEF UpdateConfig, Goto, Shape, Steps
  <2> QED
    BY <1>6, <2>1, <2>2, <2>3 DEF UpdateConfig, IInv, AfterWait, Down, Migrated
<1> QED
  BY <1>1, <1>2, <1>3, <1>4, <1>5, <1>6

(* The end of the pod, however it ends.                                    *)
LEMMA EndOfPod ==
  ASSUME IInv, pod # NoPod, EndPod,
         UNCHANGED <<config, crs, finalizers, deleting, releases, applied, operator>>,
         condition' = condition \/ condition' = "failed"
  PROVE  IInv'
<1>1. pod' = NoPod /\ pod'.step = "none"
  BY DEF EndPod, NoPod
<1>2. job = "active" /\ job' \in {"active", "failed"}
  BY DEF EndPod, IInv
<1>3. Shape'
  BY <1>1, <1>2, NoPodShape DEF IInv, Shape
<1> QED
  BY <1>1, <1>2, <1>3 DEF IInv, AfterWait, Down, Migrated

(* The last steps, and the failures.                                       *)
LEMMA EndStep ==
  ASSUME IInv, SetComplete \/ RunUpgrade \/ SetFailed \/ Conflict \/ RequestFails \/ Kill
  PROVE  IInv'
<1> Shape
  BY DEF IInv
<1> USE DEF PodAt, k0s
<1> NoPod.step = "none"
  BY DEF NoPod
<1>1. CASE SetComplete
  <2>1. Shape' /\ pod'.step = "upgrade"
    BY <1>1, GotoStep DEF SetComplete, Steps
  <2>2. job = "active" /\ operator.version = 1
    BY <1>1, PodOf DEF SetComplete
  <2> QED
    BY <1>1, <2>1, <2>2 DEF SetComplete, IInv, AfterWait, Down, Migrated
<1>2. CASE RunUpgrade
  <2>1. pod' = NoPod /\ job' = "succeeded"
    BY <1>2 DEF RunUpgrade
  <2> operator \in [replicas : 0..1, pod : BOOLEAN, version : 1..2]
    BY DEF Shape
  <2>2. operator' \in [replicas : 0..1, pod : BOOLEAN, version : 1..2]
        /\ operator'.version = 2
    <3>1. operator' = [operator EXCEPT !.replicas = 1, !.version = 2]
      BY <1>2 DEF RunUpgrade
    <3>2. operator' = [replicas |-> 1, pod |-> operator.pod, version |-> 2]
      BY <3>1
    <3>3. 1 \in 0..1 /\ 2 \in 1..2 /\ operator.pod \in BOOLEAN
      OBVIOUS
    <3> QED
      BY <3>2, <3>3
  <2>3. Shape'
    BY <1>2, <2>1, <2>2, NoPodShape DEF RunUpgrade, Shape
  <2> QED
    BY <1>2, <2>1, <2>2, <2>3 DEF RunUpgrade, IInv, AfterWait, Down, Migrated
<1>3. CASE SetFailed
  BY <1>3, EndOfPod DEF SetFailed
<1>4. ASSUME pod # NoPod, Err, UNCHANGED <<k0s, operator, condition>> PROVE IInv'
  <2>1. CASE pod.step \in ReportsFailure
    <3>1. Shape' /\ pod'.step = "failed"
      BY <1>4, <2>1, GotoStep DEF Err, Steps
    <3>2. job = "active" /\ operator.version = 1 /\ job' = job
      BY <1>4, <2>1, PodOf DEF Err, ReportsFailure
    <3> QED
      BY <1>4, <3>1, <3>2 DEF IInv, AfterWait, Down, Migrated
  <2>2. CASE pod.step \notin ReportsFailure
    BY <1>4, <2>2, EndOfPod DEF Err
  <2> QED
    BY <2>1, <2>2
<1>5. CASE Conflict
  BY <1>4, <1>5 DEF Conflict
<1>6. CASE RequestFails
  BY <1>4, <1>6 DEF RequestFails
<1>7. CASE Kill
  BY <1>7, EndOfPod DEF Kill
<1> QED
  BY <1>1, <1>2, <1>3, <1>5, <1>6, <1>7

(* The operator of v1 writes what k0s has already: it runs only as long as *)
(* nothing was taken away.                                                 *)
LEMMA OtherStep ==
  ASSUME IInv, late = FALSE,
         Reconcile \/ OperatorStops \/ OperatorStarts \/ K0sApplies
         \/ \E c \in Charts : K0sUninstalls(c)
  PROVE  IInv'
<1> Shape /\ operator \in [replicas : 0..1, pod : BOOLEAN, version : 1..2]
  BY DEF IInv, Shape
<1> USE DEF k0s
<1>1. CASE Reconcile
  <2>1. ~Down
    BY <1>1 DEF Reconcile, Down
  <2>2. config = Charts /\ crs = Charts /\ finalizers = Charts /\ deleting = {}
    BY <2>1 DEF IInv
  <2>3. UNCHANGED <<config, crs, finalizers, deleting, applied>>
    BY <1>1, <2>2 DEF Reconcile, Change, Follow
  <2>4. pod' \in [step : Steps, pending : SUBSET Charts,
                 stale : SUBSET (Charts \cup {ClusterConfig})]
        /\ pod'.step = pod.step /\ pod'.pending = pod.pending
        /\ (pod = NoPod => pod' = NoPod)
    BY <1>1 DEF Reconcile, Outdates, Shape
  <2>5. Shape'
    BY <1>1, <2>3, <2>4 DEF Reconcile, Shape
  <2> QED
    BY <1>1, <2>3, <2>4, <2>5 DEF Reconcile, IInv, AfterWait, Down, Migrated
<1>2. CASE OperatorStops
  <2>1. operator' \in [replicas : 0..1, pod : BOOLEAN, version : 1..2]
        /\ operator'.version = operator.version /\ operator'.replicas = operator.replicas
        /\ ~operator'.pod
    BY <1>2 DEF OperatorStops
  <2>2. Shape'
    BY <1>2, <2>1 DEF OperatorStops, Shape
  <2> QED
    BY <1>2, <2>1, <2>2 DEF OperatorStops, IInv, AfterWait, Down, Migrated
<1>3. CASE OperatorStarts
  <2>1. operator' \in [replicas : 0..1, pod : BOOLEAN, version : 1..2]
        /\ operator'.version = operator.version /\ operator'.replicas = operator.replicas
        /\ operator.replicas # 0
    <3>1. operator' = [operator EXCEPT !.pod = TRUE] /\ operator.replicas = 1
      BY <1>3 DEF OperatorStarts
    <3>2. operator' = [replicas |-> operator.replicas, pod |-> TRUE,
                       version |-> operator.version]
      BY <3>1
    <3>3. operator.replicas \in 0..1 /\ operator.version \in 1..2
      OBVIOUS
    <3>4. operator'.replicas = operator.replicas /\ operator'.pod
          /\ operator'.version = operator.version
      BY <3>2
    <3>5. operator' \in [replicas : 0..1, pod : BOOLEAN, version : 1..2]
      BY <3>2, <3>3
    <3> QED
      BY <3>1, <3>4, <3>5
  <2>2. Shape'
    BY <1>3, <2>1 DEF OperatorStarts, Shape
  <2>3. Down => Down'
    BY <2>1 DEF Down
  <2> QED
    BY <1>3, <2>1, <2>2, <2>3 DEF OperatorStarts, IInv, AfterWait, Migrated
<1>4. CASE K0sApplies
  BY <1>4 DEF K0sApplies, Shape
<1>5. ASSUME NEW c \in Charts, K0sUninstalls(c) PROVE IInv'
  BY <1>5 DEF K0sUninstalls, IInv
<1> QED
  BY <1>1, <1>2, <1>3, <1>4, <1>5

LEMMA IInvStep == ASSUME IInv, late = FALSE, [MigrationNext]_migrationVars PROVE IInv'
<1>1. CASE UNCHANGED migrationVars
  BY <1>1 DEF migrationVars, core, k0s, counters, IInv, Shape, AfterWait, Down, Migrated
<1> QED
  BY <1>1, BeforeStep, CleanUpStep, EndStep, OtherStep DEF MigrationNext, Migrate, Cluster

(* In a cluster whose k0s follows at once the strengthening holds.         *)
LEMMA Inductive == MigrationSpec => [](late = FALSE => IInv)
<1>1. MigrationInit => (late = FALSE => IInv)
  BY IInvInit
<1>2. (late = FALSE => IInv) /\ [MigrationNext]_migrationVars => (late = FALSE => IInv)'
  <2>1. [MigrationNext]_migrationVars => late' = late
    BY DEF MigrationNext, migrationVars
  <2> QED
    BY <2>1, IInvStep
<1> QED
  BY <1>1, <1>2, PTL DEF MigrationSpec

(* However the pod, its successors and the operator interleave, and        *)
(* whenever one of them fails, no release is uninstalled.                  *)
THEOREM KeepsReleases == MigrationSpec => []NothingUninstalled
<1>1. (late = FALSE => IInv) => NothingUninstalled
  BY DEF IInv, NothingUninstalled
<1> QED
  BY <1>1, Inductive, PTL

(* A migration that is reported as complete, and one whose Job succeeded,  *)
(* has left no chart to k0s, and none comes back.                          *)
THEOREM Completes == MigrationSpec => []MigrationIsComplete
<1>1. (late = FALSE => IInv) => MigrationIsComplete
  BY DEF IInv, MigrationIsComplete
<1> QED
  BY <1>1, Inductive, PTL

(* The two together: the charts leave k0s, and the cluster keeps them.     *)
THEOREM MigrationStaysSafe == MigrationSpec => []MigrationIsSafe
<1>1. NothingUninstalled /\ MigrationIsComplete => MigrationIsSafe
  BY DEF MigrationIsSafe
<1> QED
  BY KeepsReleases, Completes, <1>1, PTL
-----------------------------------------------------------------------------
(* The types, also when k0s follows the ClusterConfig with a delay.        *)

Pods == [step : Steps, pending : SUBSET Charts,
         stale : SUBSET (Charts \cup {ClusterConfig})]

(* The Job has a pod only while it is active, and is active only as long   *)
(* as it may replace one that fails.                                       *)
TInv == /\ MigrationTypeOK
        /\ job = "active" => failed <= BackoffLimit
        /\ pod # NoPod => job = "active"

(* The objects of the cluster and the charts of k0s.                       *)
Objects == /\ config \subseteq Charts /\ crs \subseteq Charts
           /\ finalizers \subseteq crs /\ deleting \subseteq finalizers
           /\ releases \subseteq Charts /\ applied \in BOOLEAN
           /\ operator \in [replicas : 0..1, pod : BOOLEAN, version : 1..2]
           /\ condition \in {"none", "in progress", "complete", "failed"}

(* The pod, the Job and what is counted.                                   *)
JobOK == /\ pod \in Pods /\ job \in {"active", "succeeded", "failed"}
         /\ failed \in 0..BackoffLimit + 1 /\ errors \in 0..MaxErrors
         /\ writes \in 0..MaxWrites
         /\ job = "active" => failed <= BackoffLimit
         /\ pod # NoPod => job = "active"

LEMMA Parts == TInv <=> Objects /\ JobOK /\ late \in Delays
  BY DEF TInv, MigrationTypeOK, Objects, JobOK, Pods

(* A change of the ClusterConfig keeps finalizers on resources alone.      *)
LEMMA ChangeKeeps ==
  ASSUME Objects, NEW c \in SUBSET Charts,
         Change(c) \/ (Follow(c) /\ config' = config /\ applied' = TRUE),
         UNCHANGED <<releases, operator, condition>>
  PROVE  Objects'
<1>1. /\ config' \subseteq Charts /\ crs' \subseteq Charts
      /\ finalizers' \subseteq crs' /\ deleting' \subseteq finalizers'
  BY DEF Objects, Change, Follow
<1>2. applied' \in BOOLEAN
  BY DEF Objects, Change
<1> QED
  BY <1>1, <1>2 DEF Objects

(* A change of the deployment of the operator.                             *)
LEMMA OperatorTyped ==
  ASSUME Objects, NEW n \in 0..1, NEW v \in 1..2
  PROVE  /\ [operator EXCEPT !.replicas = n] \in [replicas : 0..1, pod : BOOLEAN, version : 1..2]
         /\ [operator EXCEPT !.replicas = n, !.version = v]
            \in [replicas : 0..1, pod : BOOLEAN, version : 1..2]
<1>1. operator \in [replicas : 0..1, pod : BOOLEAN, version : 1..2]
  BY DEF Objects
<1> QED
  BY <1>1

(* A pod that takes a step is there, and the Job is active.                *)
LEMMA PodRuns ==
  ASSUME JobOK, pod.step # "none"
  PROVE  pod # NoPod /\ job = "active" /\ failed \in 0..BackoffLimit
<1>1. pod # NoPod
  BY DEF NoPod
<1> QED
  BY <1>1, BoundsAssumption DEF JobOK

(* A step of the pod, and its end.                                         *)
LEMMA PodGoesOn ==
  ASSUME JobOK, job = "active", pod' \in Pods, UNCHANGED <<job, counters>>
  PROVE  JobOK'
  BY DEF JobOK, counters

LEMMA PodEnds ==
  ASSUME JobOK, pod # NoPod, EndPod, writes' = writes, errors' \in 0..MaxErrors
  PROVE  JobOK'
<1>1. pod' \in Pods
  BY NoPodShape DEF EndPod, Pods
<1>2. failed \in 0..BackoffLimit /\ job = "active"
  BY BoundsAssumption DEF JobOK
<1>3. /\ failed' \in 0..BackoffLimit + 1
      /\ job' = "active" => failed' <= BackoffLimit
  BY <1>2, BoundsAssumption DEF EndPod
<1> QED
  BY <1>1, <1>2, <1>3 DEF EndPod, JobOK

LEMMA PodErrs ==
  ASSUME JobOK, pod # NoPod, Err, writes' = writes, errors' \in 0..MaxErrors
  PROVE  JobOK'
<1>1. CASE pod.step \in ReportsFailure
  <2>1. pod' \in Pods
    BY <1>1 DEF Err, Goto, JobOK, Pods, Steps
  <2> QED
    BY <1>1, <2>1 DEF Err, JobOK
<1>2. CASE pod.step \notin ReportsFailure
  BY <1>2, PodEnds DEF Err
<1> QED
  BY <1>1, <1>2

(* The steps of the pod that change nothing but what the pod knows.        *)
LEMMA PodSteps ==
  ASSUME TInv,
         \/ StartPod \/ CheckCharts \/ CheckClusterConfig \/ SetInProgress \/ SetReplicasZero
         \/ WaitForOperator \/ ListCharts \/ WatchFinalizers \/ GetConfig \/ SetComplete
  PROVE  Objects' /\ JobOK'
<1>1. Objects /\ JobOK /\ pod \in Pods
  BY Parts DEF JobOK
<1>2. UNCHANGED k0s /\ UNCHANGED <<job, counters>>
  BY DEF StartPod, CheckCharts, CheckClusterConfig, SetInProgress, SetReplicasZero, WaitForOperator,
     ListCharts, WatchFinalizers, GetConfig, SetComplete
<1>3. job = "active"
  BY <1>1, PodRuns DEF StartPod, CheckCharts, CheckClusterConfig, SetInProgress, SetReplicasZero,
     WaitForOperator, ListCharts, WatchFinalizers, GetConfig, SetComplete, PodAt
<1>4. pod' \in Pods
  <2>1. CASE StartPod \/ CheckCharts \/ CheckClusterConfig \/ SetInProgress \/ SetReplicasZero
    BY <1>1, <2>1 DEF StartPod, CheckCharts, CheckClusterConfig, SetInProgress, SetReplicasZero,
       Goto, Pods, Steps
  <2>2. CASE WaitForOperator \/ SetComplete
    BY <1>1, <2>2 DEF WaitForOperator, SetComplete, Goto, Pods, Steps
  <2>3. CASE ListCharts \/ WatchFinalizers \/ GetConfig
    <3>1. crs \in SUBSET Charts
      BY <1>1 DEF Objects
    <3>2. CASE ListCharts
      BY ZenonT(60), <1>1, <3>1, <3>2 DEF ListCharts, Pods, Steps
    <3>3. CASE WatchFinalizers
      BY ZenonT(60), <1>1, <3>1, <3>3 DEF WatchFinalizers, Pods, Steps
    <3>4. CASE GetConfig
      BY ZenonT(60), <1>1, <3>4 DEF GetConfig, Pods, Steps
    <3> QED
      BY <2>3, <3>2, <3>3, <3>4
  <2> QED
    BY <2>1, <2>2, <2>3
<1>5. /\ operator' \in [replicas : 0..1, pod : BOOLEAN, version : 1..2]
      /\ condition' \in {"none", "in progress", "complete", "failed"}
  <2>1. CASE SetReplicasZero
    <3>1. operator' = [operator EXCEPT !.replicas = 0] /\ condition' = condition
      BY <2>1 DEF SetReplicasZero
    <3>2. 0 \in 0..1 /\ 1 \in 1..2
      OBVIOUS
    <3> QED
      BY <1>1, <3>1, <3>2, OperatorTyped DEF Objects
  <2>2. CASE ~SetReplicasZero
    BY <1>1, <2>2 DEF StartPod, CheckCharts, CheckClusterConfig, SetInProgress, WaitForOperator,
       ListCharts, WatchFinalizers, GetConfig, SetComplete, Objects
  <2> QED
    BY <2>1, <2>2
<1> QED
  BY <1>1, <1>2, <1>3, <1>4, <1>5, PodGoesOn DEF Objects, k0s

(* The steps of the pod that change the charts of k0s, and the last one.   *)
LEMMA PodCleans ==
  ASSUME TInv,
         \/ \E c \in Charts : ClearFinalizers(c) \/ DeleteChart(c)
         \/ UpdateConfig \/ RunUpgrade
  PROVE  Objects' /\ JobOK'
<1>1. Objects /\ JobOK /\ pod \in Pods
  BY Parts DEF JobOK
<1>2. ASSUME NEW c \in Charts, ClearFinalizers(c)
      PROVE  Objects' /\ JobOK'
  <2>1. pod' \in Pods
    BY ZenonT(60), <1>1, <1>2 DEF ClearFinalizers, Pods, Steps
  <2>2. job = "active" /\ UNCHANGED <<job, counters>>
    BY <1>1, <1>2, PodRuns DEF ClearFinalizers, PodAt
  <2>3. /\ UNCHANGED <<config, releases, applied, operator, condition>>
        /\ finalizers' = finalizers \ {c}
        /\ \/ crs' = crs \ {c} /\ deleting' = deleting \ {c}
           \/ c \notin deleting /\ crs' = crs /\ deleting' = deleting
    BY <1>2 DEF ClearFinalizers, Clear
  <2>4. Objects'
    BY <1>1, <2>3 DEF Objects
  <2> QED
    BY <1>1, <2>1, <2>2, <2>4, PodGoesOn
<1>3. ASSUME NEW c \in Charts, DeleteChart(c)
      PROVE  Objects' /\ JobOK'
  <2>1. pod' \in Pods
    BY ZenonT(60), <1>1, <1>3 DEF DeleteChart, Pods, Steps
  <2>2. job = "active" /\ UNCHANGED <<job, counters>>
    BY <1>1, <1>3, PodRuns DEF DeleteChart, PodAt
  <2>3. /\ UNCHANGED <<config, finalizers, releases, applied, operator, condition>>
        /\ \/ c \in finalizers /\ crs' = crs /\ deleting' = deleting \cup {c}
           \/ c \notin finalizers /\ crs' = crs \ {c} /\ deleting' = deleting
    BY <1>3 DEF DeleteChart
  <2>4. Objects'
    <3>1. crs' \subseteq Charts /\ finalizers' \subseteq crs' /\ deleting' \subseteq finalizers'
      BY <1>1, <2>3 DEF Objects
    <3> QED
      BY <1>1, <2>3, <3>1 DEF Objects
  <2> QED
    BY <1>1, <2>1, <2>2, <2>4, PodGoesOn
<1>4. CASE UpdateConfig
  <2>1. pod' \in Pods
    BY <1>1, <1>4 DEF UpdateConfig, Goto, Pods, Steps
  <2>2. job = "active" /\ UNCHANGED <<job, counters>>
    BY <1>1, <1>4, PodRuns DEF UpdateConfig, PodAt
  <2>3. Objects'
    <3>1. Change({}) /\ {} \in SUBSET Charts /\ UNCHANGED <<releases, operator, condition>>
      BY <1>4 DEF UpdateConfig
    <3> QED
      BY <1>1, <3>1, ChangeKeeps
  <2> QED
    BY <1>1, <2>1, <2>2, <2>3, PodGoesOn
<1>5. CASE RunUpgrade
  <2>1. pod' \in Pods /\ job' = "succeeded" /\ pod' = NoPod /\ UNCHANGED counters
    BY <1>5, NoPodShape DEF RunUpgrade, Pods
  <2>2. operator' \in [replicas : 0..1, pod : BOOLEAN, version : 1..2]
    <3>1. operator' = [operator EXCEPT !.replicas = 1, !.version = 2]
      BY <1>5 DEF RunUpgrade
    <3>2. 1 \in 0..1 /\ 2 \in 1..2
      OBVIOUS
    <3> QED
      BY <1>1, <3>1, <3>2, OperatorTyped
  <2>3. Objects'
    BY <1>1, <1>5, <2>2 DEF RunUpgrade, Objects, k0s
  <2> QED
    BY <1>1, <2>1, <2>3 DEF JobOK, counters
<1> QED
  BY <1>2, <1>3, <1>4, <1>5

(* The pod fails, in the end or on the way.                                *)
LEMMA PodFails ==
  ASSUME TInv, SetFailed \/ Conflict \/ RequestFails \/ Kill
  PROVE  Objects' /\ JobOK'
<1>1. Objects /\ JobOK /\ pod \in Pods /\ errors \in 0..MaxErrors
  BY Parts DEF JobOK
<1>2. pod # NoPod
  <2>1. CASE SetFailed \/ Conflict
    BY <1>1, <2>1, PodRuns DEF SetFailed, Conflict, PodAt
  <2>2. CASE RequestFails \/ Kill
    BY <2>2 DEF RequestFails, Kill
  <2> QED
    BY <2>1, <2>2
<1>3. writes' = writes /\ errors' \in 0..MaxErrors
  <2>1. CASE SetFailed \/ Conflict
    BY <1>1, <2>1 DEF SetFailed, Conflict
  <2>2. CASE RequestFails \/ Kill
    BY <1>1, <2>2, BoundsAssumption DEF RequestFails, Kill
  <2> QED
    BY <2>1, <2>2
<1>4. JobOK'
  BY <1>1, <1>2, <1>3, PodEnds, PodErrs DEF SetFailed, Conflict, RequestFails, Kill
<1>5. Objects'
  BY <1>1 DEF SetFailed, Conflict, RequestFails, Kill, Objects, k0s
<1> QED
  BY <1>4, <1>5

(* The operator, the kubelet and k0s.                                      *)
LEMMA OthersStep ==
  ASSUME TInv,
         \/ Reconcile \/ OperatorStops \/ OperatorStarts \/ K0sApplies
         \/ \E c \in Charts : K0sUninstalls(c)
  PROVE  Objects' /\ JobOK'
<1>1. Objects /\ JobOK /\ pod \in Pods /\ writes \in 0..MaxWrites
  BY Parts DEF JobOK
<1>2. ASSUME NEW objects \in SUBSET (Charts \cup {ClusterConfig}), Outdates(objects)
      PROVE  pod' \in Pods /\ (pod = NoPod => pod' = NoPod)
  BY <1>1, <1>2 DEF Outdates, Pods
<1>3. CASE Reconcile
  <2>1. Objects'
    BY <1>1, <1>3, ChangeKeeps DEF Reconcile
  <2>2. pod' \in Pods /\ (pod = NoPod => pod' = NoPod)
    <3>1. {ClusterConfig} \cup (IF late THEN {} ELSE Charts) \in SUBSET (Charts \cup {ClusterConfig})
      OBVIOUS
    <3> QED
      BY <1>2, <1>3, <3>1 DEF Reconcile
  <2>3. writes' \in 0..MaxWrites /\ UNCHANGED <<job, failed, errors>>
    BY <1>1, <1>3, BoundsAssumption DEF Reconcile
  <2> QED
    BY <1>1, <2>1, <2>2, <2>3 DEF JobOK
<1>4. CASE OperatorStops \/ OperatorStarts
  <2>1. /\ operator' \in [replicas : 0..1, pod : BOOLEAN, version : 1..2]
        /\ UNCHANGED k0s /\ UNCHANGED <<condition, pod, job, counters>>
    BY <1>1, <1>4 DEF OperatorStops, OperatorStarts, Objects
  <2> QED
    BY <1>1, <2>1 DEF Objects, JobOK, k0s, counters
<1>5. CASE K0sApplies
  <2>1. Objects'
    BY <1>1, <1>5, ChangeKeeps DEF K0sApplies, Objects
  <2>2. pod' \in Pods /\ (pod = NoPod => pod' = NoPod)
    BY <1>2, <1>5 DEF K0sApplies
  <2> QED
    BY <1>1, <1>5, <2>1, <2>2 DEF K0sApplies, JobOK, counters
<1>6. ASSUME NEW c \in Charts, K0sUninstalls(c)
      PROVE  Objects' /\ JobOK'
  BY <1>1, <1>6 DEF K0sUninstalls, Objects, JobOK, counters
<1> QED
  BY <1>3, <1>4, <1>5, <1>6

(* Every variable keeps its type, with and without a delay: a chart that   *)
(* is being deleted still has its finalizer, only a chart that exists has  *)
(* one, and the Job replaces no more pods than its limit allows.           *)
THEOREM MigrationTypeCorrect == MigrationSpec => []MigrationTypeOK
<1>1. MigrationInit => TInv
  <2> SUFFICES ASSUME MigrationInit
               PROVE  Objects /\ JobOK /\ late \in Delays
    BY Parts
  <2>1. Objects
    BY DEF MigrationInit, Objects
  <2>2. JobOK
    BY NoPodShape, BoundsAssumption DEF MigrationInit, JobOK, Pods
  <2> QED
    BY <2>1, <2>2 DEF MigrationInit
<1>2. TInv /\ [MigrationNext]_migrationVars => TInv'
  <2> SUFFICES ASSUME TInv, [MigrationNext]_migrationVars
               PROVE  TInv'
    OBVIOUS
  <2>1. Objects /\ JobOK /\ late \in Delays
    BY Parts
  <2>2. CASE UNCHANGED migrationVars
    BY <2>1, <2>2 DEF migrationVars, core, k0s, counters, TInv, MigrationTypeOK, Objects, JobOK, Pods
  <2>3. ASSUME MigrationNext
        PROVE  Objects' /\ JobOK' /\ late' \in Delays
    BY <2>1, <2>3, PodSteps, PodCleans, PodFails, OthersStep DEF MigrationNext, Migrate, Cluster
  <2>4. Objects' /\ JobOK' /\ late' \in Delays => TInv'
    BY DEF TInv, MigrationTypeOK, Objects, JobOK, Pods
  <2> QED
    BY <2>2, <2>3, <2>4
<1>3. TInv => MigrationTypeOK
  BY DEF TInv
<1> QED
  BY <1>1, <1>2, <1>3, PTL DEF MigrationSpec
=============================================================================
