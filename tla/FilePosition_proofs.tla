------------------------ MODULE FilePosition_proofs -------------------------
(***************************************************************************)
(* Facts about positions for every geometry that satisfies                 *)
(* GeometryAssumption, and about least elements of sets of numbers.        *)
(***************************************************************************)
EXTENDS FilePosition, FiniteSetsExt, FiniteSetTheorems, TLAPS

(* The directory and block scans stop at the first hit: a nonempty set of  *)
(* naturals has a least element.  The initial segments of the naturals are *)
(* well-founded under strict inclusion, and the least of the segments that *)
(* end in an element of S ends in the least element of S.                  *)
LEMMA Least ==
    ASSUME NEW S, S \subseteq Nat, S # {}
    PROVE  \E x \in S : \A y \in S : x <= y
  <1>1. PICK n \in S : TRUE
    OBVIOUS
  <1> DEFINE Seg(k) == 0 .. k
             Ord == StrictSubsetOrdering(Nat)
             Segs == {Seg(k) : k \in S}
  <1>2. IsWellFoundedOn(Ord, FiniteSubsetsOf(Nat))
    BY FS_StrictSubsetOrderingWellFounded
  <1>3. Segs \subseteq FiniteSubsetsOf(Nat) /\ Segs # {}
    <2>1. ASSUME NEW k \in S PROVE Seg(k) \in FiniteSubsetsOf(Nat)
      <3>1. k \in Nat /\ IsFiniteSet(0 .. k)
        BY FS_Interval
      <3> QED BY <3>1 DEF FiniteSubsetsOf
    <2> QED BY <1>1, <2>1
  <1>4. \E t \in Segs : \A u \in Segs : ~ (<<u, t>> \in Ord)
    <2> HIDE DEF Ord, Segs
    <2> QED BY <1>2, <1>3, WFMin
  <1>5. PICK k \in S : \A u \in Segs : ~ (<<u, Seg(k)>> \in Ord)
    BY <1>4
  <1>6. ASSUME NEW m \in S, m < k PROVE FALSE
    <2>1. m \in Nat /\ k \in Nat
      OBVIOUS
    <2>2. Seg(m) \subseteq Seg(k)
      BY <1>6, <2>1, SMT
    <2>3. Seg(m) # Seg(k)
      <3>1. k \in Seg(k) /\ k \notin Seg(m)
        BY <1>6, <2>1, SMT
      <3> QED BY <3>1
    <2>4. Seg(m) \in SUBSET Nat /\ Seg(k) \in SUBSET Nat
      BY <2>1, SMT
    <2>5. <<Seg(m), Seg(k)>> \in Ord
      <3> HIDE DEF Seg
      <3> QED BY <2>2, <2>3, <2>4 DEF StrictSubsetOrdering
    <2> QED BY <1>5, <2>5
  <1>7. \A y \in S : k <= y
    BY <1>6, SMT
  <1> QED BY <1>7

\* The least element of a set of naturals is in it.
LEMMA MinIn ==
    ASSUME NEW S, S \subseteq Nat, S # {}
    PROVE  Min(S) \in S
  BY Least DEF Min

\* The larger of two naturals is one of them and bounds both.
LEMMA MaxOfTwo ==
    ASSUME NEW a \in Nat, NEW b \in Nat
    PROVE  Max({a, b}) \in {a, b} /\ a <= Max({a, b}) /\ b <= Max({a, b})
  <1>1. \E x \in {a, b} : \A y \in {a, b} : x >= y
    <2>1. CASE a >= b
      BY <2>1, SMT
    <2>2. CASE b >= a
      BY <2>2, SMT
    <2> QED BY <2>1, <2>2, SMT
  <1> QED BY <1>1 DEF Max

-----------------------------------------------------------------------------
\* Division with remainder.
LEMMA DivMod ==
    ASSUME NEW n \in Nat, NEW d \in Nat \ {0}
    PROVE  /\ n \div d \in Nat /\ n % d \in 0 .. d - 1
           /\ n = d * (n \div d) + (n % d)
  BY SMT

\* Products grow with a factor.
LEMMA Monotone ==
    ASSUME NEW a \in Nat, NEW b \in Nat, NEW d \in Nat, a <= b
    PROVE  a * d <= b * d /\ d * a <= d * b
  BY SMT

\* A quotient is below k if the number is below k times the divisor.
LEMMA QuotientBelow ==
    ASSUME NEW n \in Nat, NEW d \in Nat \ {0}, NEW k \in Nat, n < d * k
    PROVE  n \div d < k
  <1> DEFINE q == n \div d
  <1>1. q \in Nat /\ n >= d * q
    BY DivMod, SMT
  <1> HIDE DEF q
  <1>2. ~ (k <= q)
    <2> SUFFICES ASSUME k <= q PROVE FALSE
      OBVIOUS
    <2>1. d * k <= d * q
      BY <1>1, Monotone
    <2> QED BY <1>1, <2>1, SMT
  <1>3. q < k
    BY <1>1, <1>2, SMT
  <1> QED BY <1>3 DEF q

\* Products of naturals are naturals.
LEMMA MulNat ==
    ASSUME NEW a \in Nat, NEW b \in Nat
    PROVE  a * b \in Nat
  BY SMT

(* UB_RDECODE yields fields in their ranges, and they denote the record.   *)
THEOREM DecodeExact ==
    ASSUME NEW r \in Records
    PROVE  /\ Decode(r) \in [ex : Extents, s2 : Modules, cr : 0 .. RPE - 1]
           /\ ExtRec(Decode(r).s2, Decode(r).ex, Decode(r).cr) = r
  <1> USE GeometryAssumption
  <1> DEFINE x == r \div RPE
             s == x \div NEX
  <1>1. r \in Nat /\ r < NS2 * NEX * RPE
    <2>1. NS2 * NEX \in Nat /\ NS2 * NEX * RPE \in Nat
      BY MulNat
    <2> QED BY <2>1, SMT DEF Records
  <1>2. x \in Nat /\ r % RPE \in 0 .. RPE - 1 /\ r = RPE * x + (r % RPE)
    BY <1>1, DivMod
  <1>3. s \in Nat /\ x % NEX \in 0 .. NEX - 1 /\ x = NEX * s + (x % NEX)
    BY <1>2, DivMod
  <1>4. RPE * NEX \in Nat \ {0} /\ NS2 * NEX * RPE = (RPE * NEX) * NS2
    BY SMT
  <1>5. r \div (RPE * NEX) < NS2 /\ r \div (RPE * NEX) \in Nat
    BY <1>1, <1>4, QuotientBelow, DivMod
  <1>6. r \div (RPE * NEX) = s
    <2> DEFINE D == RPE * NEX
               q == r \div D
               a == r % RPE
               b == x % NEX
    <2>1. q \in Nat /\ r % D \in 0 .. D - 1 /\ r = D * q + (r % D)
      BY <1>1, <1>4, DivMod
    <2>2. RPE * x = RPE * (NEX * s) + RPE * b
      BY <1>2, <1>3, SMT
    <2>3. RPE * (NEX * s) = D * s
      BY <1>3, SMT
    <2>4. RPE * b \in Nat /\ RPE * b + a < D
      <3>1. RPE * b <= RPE * (NEX - 1) /\ RPE * b \in Nat
        <4>1. b \in Nat /\ NEX - 1 \in Nat /\ b <= NEX - 1 /\ RPE \in Nat
          <5>1. b \in 0 .. NEX - 1
            BY <1>3
          <5> HIDE DEF b
          <5> QED BY <5>1, SMT
        <4> HIDE DEF b
        <4> QED BY <4>1, Monotone, MulNat
      <3>2. RPE * (NEX - 1) = D - RPE
        BY SMT
      <3>3. a \in Nat /\ a < RPE /\ D \in Nat
        <4>1. a \in 0 .. RPE - 1 /\ D \in Nat
          BY <1>2, <1>4
        <4> HIDE DEF a, D
        <4> QED BY <4>1, SMT
      <3> HIDE DEF D, a, b
      <3> QED BY <3>1, <3>2, <3>3, SMT
    <2>5. r = D * s + (RPE * b + a)
      <3>1. a \in Nat /\ r = RPE * x + a
        BY <1>2, SMT
      <3>2. D * s \in Nat
        BY <1>3, <1>4, MulNat
      <3>3. RPE * x = D * s + RPE * b
        BY <2>2, <2>3
      <3> HIDE DEF D, a, b, s, x
      <3> QED BY <2>4, <3>1, <3>2, <3>3, SMT
    <2>6. D \in Nat \ {0}
      BY <1>4
    <2>7. ASSUME NEW p \in Nat, NEW u \in 0 .. D - 1, NEW t \in Nat, NEW v \in Nat, v < D,
                 D * p + u = D * t + v
          PROVE  p = t
      <3> HIDE DEF D
      <3>1. ~ (p < t)
        <4> SUFFICES ASSUME p < t PROVE FALSE
          OBVIOUS
        <4>1. D * (p + 1) <= D * t /\ D * (p + 1) = D * p + D
          <5>1. p + 1 \in Nat /\ p + 1 <= t
            BY SMT
          <5> QED BY <2>6, <5>1, Monotone, SMT
        <4> QED BY <2>6, <2>7, <4>1, MulNat, SMT
      <3>2. ~ (t < p)
        <4> SUFFICES ASSUME t < p PROVE FALSE
          OBVIOUS
        <4>1. D * (t + 1) <= D * p /\ D * (t + 1) = D * t + D
          <5>1. t + 1 \in Nat /\ t + 1 <= p
            BY SMT
          <5> QED BY <2>6, <5>1, Monotone, SMT
        <4> QED BY <2>6, <2>7, <4>1, MulNat, SMT
      <3> QED BY <3>1, <3>2, SMT
    <2>8. RPE * b + a \in Nat /\ RPE * b + a < D /\ s \in Nat
      <3>1. a \in Nat
        BY <1>2, SMT
      <3> HIDE DEF D, a, b
      <3> QED BY <1>3, <2>4, <3>1, SMT
    <2> HIDE DEF D, q, a, b
    <2>9. q = s
      BY <2>1, <2>5, <2>7, <2>8
    <2> QED BY <2>9 DEF q, D
  <1>7. Decode(r) = [ex |-> x % NEX, s2 |-> s, cr |-> r % RPE]
    BY <1>6 DEF Decode
  <1>8. Decode(r) \in [ex : Extents, s2 : Modules, cr : 0 .. RPE - 1]
    <2>1. s \in Modules
      BY <1>3, <1>5, <1>6, SMT DEF Modules
    <2> QED BY <1>2, <1>3, <1>7, <2>1 DEF Extents
  <1>9. ExtRec(s, x % NEX, r % RPE) = r
    <2>1. s * NEX + (x % NEX) = x
      BY <1>3, SMT
    <2>2. x * RPE = RPE * x
      BY <1>2, SMT
    <2> HIDE DEF x, s
    <2> QED BY <1>2, <2>1, <2>2 DEF ExtRec
  <1> QED BY <1>7, <1>8, <1>9

\* UB_NXCALC stays in range, except for S2=64 after the last extent of all.
LEMMA NextInRange ==
    ASSUME NEW s \in Modules, NEW e \in Extents
    PROVE  /\ NextExtent(s, e).ex \in Extents
           /\ NextExtent(s, e).s2 \in 0 .. NS2
           /\ NextExtent(s, e).s2 # NS2 => NextExtent(s, e).s2 \in Modules
  BY GeometryAssumption, SMT DEF Modules, Extents, NextExtent

\* UB_ACTIVATE derives a record count in range.
LEMMA ActiveRCInRange ==
    ASSUME NEW last \in Extents, NEW rc \in 0 .. RPE, NEW e \in Extents
    PROVE  ActiveRC(last, rc, e) \in 0 .. RPE
  BY GeometryAssumption, SMT DEF Extents, ActiveRC

(* UB_RECMAP stays inside the allocation map of the entry.                 *)
LEMMA IndexInRange ==
    ASSUME NEW e \in Extents, NEW c \in 0 .. RPE - 1
    PROVE  MapIndex(e, c) \in Indexes /\ BlockOffset(e, c) \in 0 .. BLK - 1
  <1> DEFINE G == EXM + 1
             n == GroupRecord(e, c)
  <1>1. G \in Nat \ {0} /\ e \in Nat /\ c \in Nat /\ c < RPE
    BY GeometryAssumption, SMT DEF Extents
  <1>2. e % G \in Nat /\ e % G <= EXM
    <2>1. e % G \in 0 .. G - 1 /\ G - 1 = EXM
      BY <1>1, DivMod, GeometryAssumption, SMT
    <2> HIDE DEF G
    <2> QED BY <2>1, GeometryAssumption, SMT
  <1>3. n = (e % G) * RPE + c
    BY DEF GroupRecord
  <1>4. n \in Nat /\ n < G * RPE /\ G * RPE \in Nat
    <2>1. (e % G) * RPE <= EXM * RPE /\ (e % G) * RPE \in Nat
      BY <1>2, Monotone, MulNat, GeometryAssumption
    <2>2. G * RPE = EXM * RPE + RPE /\ EXM * RPE \in Nat
      BY GeometryAssumption, MulNat, SMT
    <2> HIDE DEF G, n
    <2> QED BY <1>1, <1>3, <2>1, <2>2, GeometryAssumption, SMT
  <1>5. BLK \in Nat \ {0} /\ (G * RPE) % BLK = 0
    BY GeometryAssumption
  <1>6. G * RPE = BLK * MapLen /\ MapLen \in Nat
    <2>1. /\ (G * RPE) \div BLK \in Nat
          /\ G * RPE = BLK * ((G * RPE) \div BLK) + ((G * RPE) % BLK)
      BY <1>4, <1>5, DivMod
    <2>2. MapLen = (G * RPE) \div BLK
      BY DEF MapLen
    <2>3. BLK * MapLen \in Nat
      BY <1>5, <2>1, <2>2, MulNat
    <2> HIDE DEF G
    <2> QED BY <1>5, <2>1, <2>2, <2>3, SMT
  <1> HIDE DEF G, n
  <1>7. n \div BLK \in Nat /\ n \div BLK < MapLen /\ n % BLK \in 0 .. BLK - 1
    BY <1>4, <1>5, <1>6, DivMod, QuotientBelow
  <1>8. MapIndex(e, c) \in Indexes
    BY <1>6, <1>7, SMT DEF MapIndex, Indexes, n
  <1> QED BY <1>7, <1>8 DEF BlockOffset, n

\* A number below d does not change the multiple of d it is added to.
LEMMA SameQuotient ==
    ASSUME NEW a \in Nat, NEW b \in Nat, NEW c \in Nat, NEW k \in Nat, NEW d \in Nat,
           c < d, k < d, a * d + c = b * d + k
    PROVE  a = b /\ c = k
  <1>1. ASSUME NEW x \in Nat, NEW y \in Nat, NEW u \in Nat, NEW v \in Nat,
               u < d, v < d, x * d + u = y * d + v, x < y
        PROVE  FALSE
    <2>1. (x + 1) * d <= y * d
      BY <1>1, Monotone
    <2>2. (x + 1) * d = x * d + d
      BY SMT
    <2>3. x * d \in Nat /\ y * d \in Nat
      BY MulNat
    <2> QED BY <1>1, <2>1, <2>2, <2>3, SMT
  <1>2. ~ (a < b) /\ ~ (b < a)
    BY <1>1
  <1>3. a = b
    BY <1>2, SMT
  <1>4. a * d \in Nat
    BY MulNat
  <1> QED BY <1>3, <1>4, SMT

(* Two records of one extent group, which share a directory entry and its  *)
(* map, never share a place.                                               *)
THEOREM OneRecordPerPlace ==
    ASSUME NEW e \in Extents, NEW f \in Extents, Group(e) = Group(f),
           NEW c \in 0 .. RPE - 1, NEW d \in 0 .. RPE - 1,
           MapIndex(e, c) = MapIndex(f, d), BlockOffset(e, c) = BlockOffset(f, d)
    PROVE  e = f /\ c = d
  <1> DEFINE G == EXM + 1
             x == e % G
             y == f % G
             n == x * RPE + c
             k == y * RPE + d
  <1>1. e \in Nat /\ f \in Nat /\ G \in Nat \ {0} /\ RPE \in Nat /\ BLK \in Nat \ {0}
    BY GeometryAssumption, SMT DEF Extents
  <1>2. c \in Nat /\ d \in Nat /\ c < RPE /\ d < RPE
    BY <1>1, SMT
  <1>3. n \div BLK = k \div BLK /\ n % BLK = k % BLK
    BY DEF MapIndex, BlockOffset, GroupRecord
  <1>4. e \div G = f \div G
    BY DEF Group
  <1> HIDE DEF G
  <1>5. /\ x \in 0 .. G - 1 /\ y \in 0 .. G - 1
        /\ e = G * (e \div G) + x /\ f = G * (f \div G) + y
    BY <1>1, DivMod
  <1> HIDE DEF x, y
  <1>6. x \in Nat /\ y \in Nat
    BY <1>1, <1>5, SMT
  <1>7. n \in Nat /\ k \in Nat
    <2>1. x * RPE \in Nat /\ y * RPE \in Nat
      BY <1>1, <1>6, MulNat
    <2> QED BY <1>2, <2>1, SMT
  <1> HIDE DEF n, k
  <1>8. n = BLK * (n \div BLK) + (n % BLK) /\ k = BLK * (k \div BLK) + (k % BLK)
    BY <1>1, <1>7, DivMod
  <1>9. n = k
    BY <1>3, <1>8
  <1>10. x = y /\ c = d
    BY <1>1, <1>2, <1>6, <1>9, SameQuotient DEF n, k
  <1> QED BY <1>4, <1>5, <1>10
=============================================================================
