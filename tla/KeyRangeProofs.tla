--------------------------- MODULE KeyRangeProofs ---------------------------
(***************************************************************************)
(* Facts about the segment arithmetic, for every integer width, and about  *)
(* sums over finite sets.                                                  *)
(***************************************************************************)
EXTENDS KeyRange, FiniteSetTheorems, TLAPS

(* A set of natural numbers has a smallest member. *)
LEMMA LeastNat ==
  ASSUME NEW T, T \subseteq Nat, T # {}
  PROVE  \E m \in T : \A y \in T : m <= y
<1>1. PICK m \in T : \A y \in T : ~ (<<y, m>> \in OpToRel(<, Nat))
  BY WFMin, NatLessThanWellFounded
<1>2. ASSUME NEW y \in T PROVE m <= y
  <2>1. <<y, m>> \notin OpToRel(<, Nat)
    BY <1>1
  <2>2. y \in Nat /\ m \in Nat
    OBVIOUS
  <2>3. ~ (y < m)
    BY <2>1, <2>2 DEF OpToRel
  <2> QED
    BY <2>2, <2>3
<1> QED
  BY <1>2

(* A set of keys has a smallest member, and Min is it. *)
LEMMA MinInt64 ==
  ASSUME NEW S \in SUBSET Int64, S # {}
  PROVE  Min(S) \in S /\ \A y \in S : Min(S) <= y
<1> DEFINE T == {x + MaxInt + 1 : x \in S}
<1>1. \A x \in S : x \in Int /\ x + MaxInt + 1 \in Nat
  BY MaxIntAssumption DEF Int64
<1>2. T \subseteq Nat /\ T # {}
  BY <1>1
<1>3. PICK m \in T : \A y \in T : m <= y
  BY <1>2, LeastNat
<1>4. PICK x \in S : m = x + MaxInt + 1
  OBVIOUS
<1>5. ASSUME NEW y \in S PROVE x =< y
  <2>1. m <= y + MaxInt + 1
    BY <1>3
  <2> QED
    BY <2>1, <1>1, <1>4, MaxIntAssumption
<1> QED
  BY <1>5 DEF Min

(* ... and a largest one, and Max is it. *)
LEMMA MaxInt64 ==
  ASSUME NEW S \in SUBSET Int64, S # {}
  PROVE  Max(S) \in S /\ \A y \in S : y <= Max(S)
<1> DEFINE T == {MaxInt - x : x \in S}
<1>1. \A x \in S : x \in Int /\ MaxInt - x \in Nat
  BY MaxIntAssumption DEF Int64
<1>2. T \subseteq Nat /\ T # {}
  BY <1>1
<1>3. PICK m \in T : \A y \in T : m <= y
  BY <1>2, LeastNat
<1>4. PICK x \in S : m = MaxInt - x
  OBVIOUS
<1>5. ASSUME NEW y \in S PROVE x >= y
  <2>1. m <= MaxInt - y
    BY <1>3
  <2> QED
    BY <2>1, <1>1, <1>4, MaxIntAssumption
<1>6. Max(S) \in S /\ \A y \in S : Max(S) >= y
  BY <1>5 DEF Max
<1> QED
  BY <1>1, <1>6

LEMMA MinOfTwo ==
  ASSUME NEW i \in Int, NEW j \in Int
  PROVE  Min({i, j}) = IF i <= j THEN i ELSE j
<1>1. \E x \in {i, j} : \A y \in {i, j} : x =< y
  OBVIOUS
<1> QED
  BY <1>1 DEF Min

LEMMA MaxOfTwo ==
  ASSUME NEW i \in Int, NEW j \in Int
  PROVE  Max({i, j}) = IF i <= j THEN j ELSE i
<1>1. \E x \in {i, j} : \A y \in {i, j} : x >= y
  OBVIOUS
<1> QED
  BY <1>1 DEF Max

(* Wrapping lands in the type, and changes nothing that fits. *)
LEMMA WrapType ==
  ASSUME NEW x \in Int
  PROVE  Wrap(x) \in Int64
BY MaxIntAssumption DEF Wrap, Modulus, Int64

LEMMA WrapFits ==
  ASSUME NEW x \in Int64
  PROVE  Wrap(x) = x
BY MaxIntAssumption DEF Wrap, Modulus, Int64

LEMMA SpanType ==
  ASSUME NEW lo \in Int64, NEW hi \in Int64
  PROVE  Span(lo, hi) \in Nat
<1>1. Wrap(hi - lo) \in Int
  BY WrapType DEF Int64
<1>2. Modulus * Modulus \in Nat \ {0}
  BY MaxIntAssumption DEF Modulus
<1> QED
  BY <1>1, <1>2 DEF Span

LEMMA PiecesType ==
  ASSUME NEW lo \in Int64, NEW hi \in Int64, NEW n \in Nat
  PROVE  Pieces(lo, hi, n) \in Nat \ {0}
<1> DEFINE s == Span(lo, hi) % Modulus
<1>1. s \in Int
  BY SpanType, MaxIntAssumption DEF Modulus
<1>2. Min({n, s}) \in Int
  BY <1>1, MinOfTwo
<1> QED
  BY <1>2, MaxOfTwo DEF Pieces

LEMMA BoundType ==
  ASSUME NEW lo \in Int64, NEW hi \in Int64, NEW m \in Nat \ {0}, NEW i \in Int
  PROVE  Bound(lo, hi, m, i) \in Int64
<1>1. Span(lo, hi) \div m \in Int
  BY SpanType
<1>2. Wrap((Span(lo, hi) \div m) * i) \in Int64
  BY <1>1, WrapType
<1>3. lo + Wrap((Span(lo, hi) \div m) * i) \in Int
  BY <1>2, MaxIntAssumption DEF Int64
<1> QED
  BY <1>3, WrapType DEF Bound

LEMMA CursorType ==
  ASSUME NEW lo \in Int64, NEW hi \in Int64, NEW m \in Nat \ {0}, NEW i \in Int
  PROVE  /\ Cursor(lo, hi, m, i) \in Int64
         /\ lo <= Cursor(lo, hi, m, i)
         /\ \A j \in 1 .. i - 1 : Bound(lo, hi, m, j) <= Cursor(lo, hi, m, i)
<1> DEFINE C == {lo} \cup {Bound(lo, hi, m, j) : j \in 1 .. i - 1}
<1>1. C \in SUBSET Int64 /\ C # {}
  BY BoundType
<1> HIDE DEF C
<1>2. Max(C) \in C /\ \A y \in C : y <= Max(C)
  BY <1>1, MaxInt64
<1> QED
  BY <1>1, <1>2 DEF C, Cursor

(* Every segment is made of two keys, the first below the second. *)
LEMMA SplitRangeType ==
  ASSUME NEW lo \in Int64, NEW hi \in Int64, NEW n \in Nat
  PROVE  SplitRange(lo, hi, n) \subseteq {p \in Int64 \X Int64 : p[1] < p[2]}
<1>1. CASE hi <= lo \/ n = 0
  BY <1>1 DEF SplitRange
<1>2. CASE ~(hi <= lo \/ n = 0)
  <2> DEFINE m == Pieces(lo, hi, n)
  <2>1. m \in Nat \ {0}
    BY PiecesType
  <2>2. \A i \in 1 .. m : Cursor(lo, hi, m, i) \in Int64 /\ Bound(lo, hi, m, i) \in Int64
    BY <2>1, BoundType, CursorType
  <2>3. \A i \in 1 .. m : Bound(lo, hi, m, i) > Cursor(lo, hi, m, i) <=>
                          Cursor(lo, hi, m, i) < Bound(lo, hi, m, i)
    BY <2>2 DEF Int64
  <2> QED
    BY <1>2, <2>2, <2>3 DEF SplitRange
<1> QED
  BY <1>1, <1>2

(* No key of the domain falls between two segments, whatever hi - lo does: *)
(* the piece whose bound is the first beyond the key holds it              *)
(* (split_range, hash_diff.rs:733-754).                                    *)
THEOREM SplitRangeCovers ==
  ASSUME NEW lo \in Int64, NEW hi \in Int64, NEW n \in Nat \ {0},
         NEW k \in Int, lo <= k, k < hi
  PROVE  \E p \in SplitRange(lo, hi, n) : p[1] <= k /\ k < p[2]
<1> DEFINE m == Pieces(lo, hi, n)
           B(i) == Bound(lo, hi, m, i)
           C(i) == Cursor(lo, hi, m, i)
           I == {i \in 1 .. m : k < B(i)}
<1>1. m \in Nat \ {0}
  BY PiecesType
<1>2. I \subseteq Nat /\ m \in I
  BY <1>1 DEF Bound
<1> HIDE DEF m
<1>3. PICK i \in I : \A j \in I : i <= j
  BY <1>2, LeastNat
<1>4. i \in 1 .. m /\ k < B(i)
  BY <1>1
<1>5. C(i) <= k
  <2> DEFINE S == {lo} \cup {B(j) : j \in 1 .. i - 1}
  <2>1. \A j \in 1 .. i - 1 : B(j) \in Int64 /\ B(j) <= k
    <3> SUFFICES ASSUME NEW j \in 1 .. i - 1 PROVE B(j) \in Int64 /\ B(j) <= k
      OBVIOUS
    <3>1. j \in 1 .. m /\ j < i
      BY <1>1, <1>4
    <3>2. B(j) \in Int64
      BY <1>1, <3>1, BoundType
    <3>3. ~ (k < B(j))
      BY <1>3, <1>4, <3>1
    <3> QED
      BY <3>2, <3>3 DEF Int64
  <2> HIDE DEF B
  <2>2. S \in SUBSET Int64 /\ S # {}
    BY <2>1
  <2>3. C(i) = Max(S)
    BY DEF Cursor, B
  <2>4. C(i) \in S
    BY <2>2, <2>3, MaxInt64
  <2> QED
    BY <2>1, <2>4
<1>6. B(i) > C(i)
  <2>1. B(i) \in Int /\ C(i) \in Int /\ k < B(i)
    BY <1>1, <1>4, BoundType, CursorType DEF Int64
  <2> QED
    BY <2>1, <1>5
<1>7. <<C(i), B(i)>> \in SplitRange(lo, hi, n)
  <2>1. ~(hi <= lo \/ n = 0)
    BY DEF Int64
  <2> QED
    BY <2>1, <1>4, <1>6 DEF SplitRange, m
<1> QED
  BY <1>4, <1>5, <1>7

(* No key lies in two segments: the later of two pieces starts no earlier  *)
(* than the earlier one ends.                                              *)
THEOREM SplitRangeDisjoint ==
  ASSUME NEW lo \in Int64, NEW hi \in Int64, NEW n \in Nat,
         NEW p \in SplitRange(lo, hi, n), NEW q \in SplitRange(lo, hi, n), p # q
  PROVE  p[2] <= q[1] \/ q[2] <= p[1]
<1> DEFINE m == Pieces(lo, hi, n)
<1>1. m \in Nat \ {0}
  BY PiecesType
<1>2. ~(hi <= lo \/ n = 0)
  BY DEF SplitRange
<1> HIDE DEF m
<1>3. \A r \in SplitRange(lo, hi, n) : \E i \in 1 .. m :
         r = <<Cursor(lo, hi, m, i), Bound(lo, hi, m, i)>>
  BY <1>2 DEF SplitRange, m
<1>4. PICK i \in 1 .. m : p = <<Cursor(lo, hi, m, i), Bound(lo, hi, m, i)>>
  BY <1>3
<1>5. PICK j \in 1 .. m : q = <<Cursor(lo, hi, m, j), Bound(lo, hi, m, j)>>
  BY <1>3
<1>6. i # j
  BY <1>4, <1>5
<1>7. CASE i < j
  <2>1. i \in 1 .. j - 1
    BY <1>1, <1>7
  <2>2. Bound(lo, hi, m, i) <= Cursor(lo, hi, m, j)
    BY <1>1, <2>1, CursorType
  <2> QED
    BY <1>4, <1>5, <2>2
<1>8. CASE j < i
  <2>1. j \in 1 .. i - 1
    BY <1>1, <1>8
  <2>2. Bound(lo, hi, m, j) <= Cursor(lo, hi, m, i)
    BY <1>1, <2>1, CursorType
  <2> QED
    BY <1>4, <1>5, <2>2
<1> QED
  BY <1>1, <1>6, <1>7, <1>8
(* A shorter domain than half the integers has no wrapped bound: every     *)
(* piece lies within it.  (A longer one is never cut a second time, for    *)
(* its length wraps to a negative number, hash_diff.rs:472-481.)           *)
LEMMA BoundWithin ==
  ASSUME NEW lo \in Int64, NEW hi \in Int64, lo < hi, hi - lo <= MaxInt,
         NEW m \in Nat \ {0}, NEW i \in 1 .. m
  PROVE  Bound(lo, hi, m, i) <= hi
<1>1. lo \in Int /\ hi \in Int
  BY DEF Int64
<1>2. PICK d \in Nat : d = hi - lo /\ d \in 1 .. MaxInt
  BY <1>1, MaxIntAssumption
<1>3. \A x \in 0 .. MaxInt : x \in Int64
  BY MaxIntAssumption DEF Int64
<1>4. Span(lo, hi) = d
  <2>1. Wrap(hi - lo) = d
    BY <1>2, <1>3, WrapFits
  <2>2. \A x \in 0 .. MaxInt : x < Modulus /\ Modulus \in Nat \ {0}
    BY MaxIntAssumption DEF Modulus
  <2>3. d < Modulus /\ Modulus \in Nat \ {0}
    BY <1>2, <2>2
  <2>4. d < Modulus * Modulus /\ Modulus * Modulus \in Nat \ {0}
    BY <1>2, <2>3
  <2>5. \A x \in Nat \ {0} : d < x => d % x = d
    BY <1>2
  <2> QED BY <2>1, <2>4, <2>5 DEF Span
<1>5. PICK q \in Nat : q = d \div m /\ q * m <= d
  BY <1>2
<1>6. PICK z \in Nat : z = q * i
  OBVIOUS
<1>7. z <= d
  <2>1. q * i <= q * m
    <3>1. PICK r \in Nat : m = i + r
      <4>1. m - i \in Nat /\ m = i + (m - i)
        OBVIOUS
      <4> QED BY <4>1
    <3>2. \A x, y, w \in Nat : w * (x + y) = w * x + w * y /\ w * y \in Nat /\ w * x \in Nat
      OBVIOUS
    <3>3. i \in Nat
      OBVIOUS
    <3>4. q * m = q * i + q * r /\ q * r \in Nat /\ q * i \in Nat
      BY <3>1, <3>2, <3>3
    <3> QED BY <3>4
  <2> QED BY <1>5, <1>6, <2>1
<1>8. CASE i = m
  BY <1>1, <1>8 DEF Bound
<1>9. CASE i # m
  <2>1. Wrap(z) = z
    <3>1. z \in 0 .. MaxInt
      BY <1>2, <1>7, MaxIntAssumption
    <3>2. z \in Int64
      BY <1>3, <3>1
    <3> QED BY <3>2, WrapFits
  <2>2. lo + z \in Int64 /\ lo + z <= hi
    <3>1. -MaxInt - 1 <= lo /\ hi <= MaxInt /\ MaxInt \in Nat
      BY MaxIntAssumption DEF Int64
    <3>2. lo + z <= hi /\ lo <= lo + z /\ lo + z \in Int
      BY <1>1, <1>2, <1>7
    <3>3. -MaxInt - 1 <= lo + z /\ lo + z <= MaxInt
      BY <1>1, <3>1, <3>2
    <3> QED BY <3>2, <3>3 DEF Int64
  <2>3. Wrap(lo + z) = lo + z
    BY <2>2, WrapFits
  <2>4. Bound(lo, hi, m, i) = Wrap(lo + Wrap(z))
    BY <1>4, <1>5, <1>6, <1>9 DEF Bound
  <2> QED BY <2>1, <2>2, <2>3, <2>4
<1> QED BY <1>8, <1>9

LEMMA SplitRangeWithin ==
  ASSUME NEW lo \in Int64, NEW hi \in Int64, hi - lo <= MaxInt, NEW n \in Nat,
         NEW p \in SplitRange(lo, hi, n)
  PROVE  lo <= p[1] /\ p[2] <= hi
<1> DEFINE m == Pieces(lo, hi, n)
<1>1. m \in Nat \ {0}
  BY PiecesType
<1>2. ~(hi <= lo \/ n = 0)
  BY DEF SplitRange
<1> HIDE DEF m
<1>3. \E i \in 1 .. m : p = <<Cursor(lo, hi, m, i), Bound(lo, hi, m, i)>>
  BY <1>2 DEF SplitRange, m
<1>4. PICK i \in 1 .. m : p = <<Cursor(lo, hi, m, i), Bound(lo, hi, m, i)>>
  BY <1>3
<1>5. lo < hi
  BY <1>2 DEF Int64
<1>6. lo <= Cursor(lo, hi, m, i)
  BY <1>1, CursorType
<1>7. Bound(lo, hi, m, i) <= hi
  BY <1>1, <1>5, BoundWithin
<1> QED BY <1>4, <1>6, <1>7

-----------------------------------------------------------------------------
(***************************************************************************)
(* Folds and sums.  The community modules fold by a recursive function on  *)
(* the subsets; Folds says that f is that function, and exists.  Sums is   *)
(* the one of MapThenSumSet for the weights w; it is unique, and does not  *)
(* depend on the order.                                                    *)
(***************************************************************************)
Pick(s) == CHOOSE x \in s : TRUE

(* f sums the weights w over each subset of S. *)
Sums(f, w, S) ==
  f = [s \in SUBSET S |-> IF s = {} THEN 0 ELSE w[Pick(s)] + f[s \ {Pick(s)}]]

Total(w, S) == MapThenSumSet(LAMBDA x : w[x], S)

LEMMA PickIn == ASSUME NEW s, s # {} PROVE Pick(s) \in s
BY DEF Pick

LEMMA TotalSums ==
  ASSUME NEW w, NEW S, NEW f, Sums(f, w, S)
  PROVE \E g : Sums(g, w, S) /\ Total(w, S) = g[S]
BY DEF Total, MapThenSumSet, MapThenFoldSet, Sums, Pick

LEMMA Fewer ==
  ASSUME NEW s, IsFiniteSet(s), NEW x \in s
  PROVE  IsFiniteSet(s \ {x}) /\ Cardinality(s) \in Nat /\ Cardinality(s \ {x}) \in Nat
         /\ Cardinality(s \ {x}) = Cardinality(s) - 1
BY FS_RemoveElement, FS_CardinalityType

(* f folds g over each subset of S, from base on, the members in the order  *)
(* in which pick takes the last of them.                                   *)
Folds(f, S, base, g, pick) ==
  f = [s \in SUBSET S |-> IF s = {} THEN base ELSE g[pick[s]][f[s \ {pick[s]}]]]
Picking(pick, S) == \A s \in SUBSET S : s # {} => pick[s] \in s

LEMMA FoldsExist ==
  ASSUME NEW S, IsFiniteSet(S), NEW Values, NEW base \in Values, NEW g \in [S -> [Values -> Values]],
         NEW pick, Picking(pick, S)
  PROVE  \E f \in [SUBSET S -> Values] : Folds(f, S, base, g, pick)
<1> DEFINE Upto(n) == {s \in SUBSET S : Cardinality(s) <= n}
           Good(f, n) == f = [s \in Upto(n) |-> IF s = {} THEN base ELSE g[pick[s]][f[s \ {pick[s]}]]]
           Has(n) == \E f \in [Upto(n) -> Values] : Good(f, n)
           Bad == {n \in Nat : ~Has(n)}
<1>0. \A s \in SUBSET S : IsFiniteSet(s) /\ Cardinality(s) \in Nat
  BY FS_Subset, FS_CardinalityType
<1>1. Has(0)
  <2>1. \A s \in Upto(0) : s = {}
    BY <1>0, FS_EmptySet
  <2> DEFINE f == [s \in Upto(0) |-> base]
  <2>2. f \in [Upto(0) -> Values] /\ Good(f, 0)
    BY <2>1
  <2> QED BY <2>2
<1>2. ASSUME NEW n \in Nat, Has(n) PROVE Has(n + 1)
  <2>1. PICK f \in [Upto(n) -> Values] : Good(f, n)
    BY <1>2
  <2> DEFINE h == [s \in Upto(n + 1) |-> IF s = {} THEN base ELSE g[pick[s]][f[s \ {pick[s]}]]]
  <2>2. ASSUME NEW s \in Upto(n + 1), s # {}
        PROVE  s \ {pick[s]} \in Upto(n) /\ s \ {pick[s]} \in Upto(n + 1) /\ pick[s] \in S
    BY <1>0, <2>2, Fewer DEF Picking
  <2>3. h \in [Upto(n + 1) -> Values]
    BY <2>2
  <2>4. ASSUME NEW s \in Upto(n) PROVE s \in Upto(n + 1) /\ h[s] = f[s]
    <3>1. s \in Upto(n + 1)
      BY <1>0
    <3>2. f[s] = IF s = {} THEN base ELSE g[pick[s]][f[s \ {pick[s]}]]
      BY <2>1
    <3> QED BY <3>1, <3>2
  <2>5. ASSUME NEW s \in Upto(n + 1)
        PROVE  h[s] = IF s = {} THEN base ELSE g[pick[s]][h[s \ {pick[s]}]]
    <3>1. s # {} => h[s \ {pick[s]}] = f[s \ {pick[s]}]
      BY <2>2, <2>4
    <3> QED BY <3>1
  <2> HIDE DEF h
  <2>6. Good(h, n + 1)
    BY <2>3, <2>5
  <2> QED BY <2>3, <2>6
<1> HIDE DEF Has
<1>3. \A n \in Nat : Has(n)
  <2> SUFFICES ASSUME Bad # {} PROVE FALSE
    OBVIOUS
  <2>1. PICK m \in Bad : \A y \in Bad : m <= y
    BY LeastNat
  <2>2. m \in Nat /\ m # 0
    BY <1>1
  <2>3. m - 1 \in Nat /\ ~(m <= m - 1)
    BY <2>2
  <2>4. Has(m - 1)
    BY <2>1, <2>3
  <2>5. Has((m - 1) + 1)
    BY <2>3, <2>4, <1>2
  <2>6. (m - 1) + 1 = m
    BY <2>2
  <2> QED BY <2>5, <2>6, <2>1
<1>4. Has(Cardinality(S))
  BY <1>0, <1>3
<1>5. Upto(Cardinality(S)) = SUBSET S
  BY FS_Subset
<1>6. PICK f \in [Upto(Cardinality(S)) -> Values] : Good(f, Cardinality(S))
  BY <1>4 DEF Has
<1>7. f \in [SUBSET S -> Values]
  BY <1>5, <1>6
<1>8. Folds(f, S, base, g, pick)
  BY <1>5, <1>6 DEF Folds
<1> QED BY <1>7, <1>8

LEMMA SumsExist ==
  ASSUME NEW S, IsFiniteSet(S), NEW w, \A x \in S : w[x] \in Int
  PROVE  \E f \in [SUBSET S -> Int] : Sums(f, w, S)
<1> DEFINE g == [x \in S |-> [v \in Int |-> w[x] + v]]
           pick == [s \in SUBSET S |-> Pick(s)]
<1>1. g \in [S -> [Int -> Int]] /\ Picking(pick, S) /\ 0 \in Int
  BY PickIn DEF Picking
<1>2. PICK f \in [SUBSET S -> Int] : Folds(f, S, 0, g, pick)
  <2> HIDE DEF g, pick
  <2> QED BY <1>1, FoldsExist
<1>3. ASSUME NEW s \in SUBSET S
      PROVE  f[s] = IF s = {} THEN 0 ELSE w[Pick(s)] + f[s \ {Pick(s)}]
  <2>1. f[s] = IF s = {} THEN 0 ELSE g[pick[s]][f[s \ {pick[s]}]]
    BY <1>2 DEF Folds
  <2>2. pick[s] = Pick(s) /\ (s # {} => Pick(s) \in S) /\ f[s \ {Pick(s)}] \in Int
    BY PickIn
  <2> QED BY <2>1, <2>2
<1> QED BY <1>3 DEF Sums

LEMMA SumsUnique ==
  ASSUME NEW S, IsFiniteSet(S), NEW T \in SUBSET S, NEW w, NEW v,
         \A x \in T : w[x] = v[x],
         NEW f, Sums(f, w, S), NEW g, Sums(g, v, T)
  PROVE  f[T] = g[T]
<1> DEFINE Bad == {n \in Nat : \E s \in SUBSET T : Cardinality(s) = n /\ f[s] # g[s]}
<1>0. \A s \in SUBSET T : IsFiniteSet(s) /\ Cardinality(s) \in Nat /\ s \in SUBSET S
  BY FS_Subset, FS_CardinalityType
<1>1. SUFFICES ASSUME Bad # {} PROVE FALSE
  BY <1>0
<1>b. Bad \subseteq Nat
  OBVIOUS
<1>2. PICK m \in Bad : \A y \in Bad : m <= y
  <2> HIDE DEF Bad
  <2> QED BY <1>1, <1>b, LeastNat
<1>3. PICK s \in SUBSET T : Cardinality(s) = m /\ f[s] # g[s]
  OBVIOUS
<1>4. /\ f[s] = IF s = {} THEN 0 ELSE w[Pick(s)] + f[s \ {Pick(s)}]
      /\ g[s] = IF s = {} THEN 0 ELSE v[Pick(s)] + g[s \ {Pick(s)}]
  BY <1>0 DEF Sums
<1>5. s # {}
  BY <1>3, <1>4
<1>6. Pick(s) \in s /\ w[Pick(s)] = v[Pick(s)]
  BY <1>5, PickIn
<1>7. Cardinality(s \ {Pick(s)}) \in Nat /\ Cardinality(s \ {Pick(s)}) = m - 1
  BY <1>0, <1>3, <1>6, Fewer
<1>8. ~(m <= m - 1) /\ m \in Nat
  OBVIOUS
<1>9. f[s \ {Pick(s)}] = g[s \ {Pick(s)}]
  BY <1>2, <1>7, <1>8
<1> QED BY <1>3, <1>4, <1>5, <1>6, <1>9

LEMMA TotalIs ==
  ASSUME NEW S, IsFiniteSet(S), NEW w, \A x \in S : w[x] \in Int, NEW T \in SUBSET S,
         NEW f, Sums(f, w, S)
  PROVE  Total(w, T) = f[T]
<1>1. IsFiniteSet(T) /\ \A x \in T : w[x] \in Int
  BY FS_Subset
<1>2. PICK g : Sums(g, w, T)
  BY <1>1, SumsExist
<1>3. PICK h : Sums(h, w, T) /\ Total(w, T) = h[T]
  BY <1>2, TotalSums
<1> QED BY <1>3, SumsUnique

LEMMA TotalEmpty == ASSUME NEW w PROVE Total(w, {}) = 0
<1>1. IsFiniteSet({}) /\ \A x \in {} : w[x] \in Int
  BY FS_EmptySet
<1>2. PICK f : Sums(f, w, {})
  BY <1>1, SumsExist
<1>3. f[{}] = 0
  BY <1>2 DEF Sums
<1>4. {} \in SUBSET {}
  OBVIOUS
<1>5. Total(w, {}) = f[{}]
  BY <1>1, <1>2, <1>4, TotalIs
<1> QED BY <1>3, <1>5

LEMMA TotalInt ==
  ASSUME NEW S, IsFiniteSet(S), NEW w, \A x \in S : w[x] \in Int
  PROVE  Total(w, S) \in Int
<1>1. PICK f \in [SUBSET S -> Int] : Sums(f, w, S)
  BY SumsExist
<1>2. S \in SUBSET S
  OBVIOUS
<1> QED BY <1>1, <1>2, TotalIs

LEMMA TotalAgree ==
  ASSUME NEW S, IsFiniteSet(S), NEW w, NEW v, \A x \in S : w[x] \in Int /\ w[x] = v[x]
  PROVE  Total(w, S) = Total(v, S)
<1>1. PICK f : Sums(f, w, S)
  BY SumsExist
<1>2. PICK g : Sums(g, v, S)
  BY SumsExist
<1>3. Total(w, S) = f[S] /\ Total(v, S) = g[S]
  BY <1>1, <1>2, TotalIs
<1> QED BY <1>1, <1>2, <1>3, SumsUnique

LEMMA TotalPick ==
  ASSUME NEW S, IsFiniteSet(S), NEW w, \A x \in S : w[x] \in Int, S # {}
  PROVE  Total(w, S) = w[Pick(S)] + Total(w, S \ {Pick(S)})
<1>1. PICK f : Sums(f, w, S)
  BY SumsExist
<1>2. f[S] = w[Pick(S)] + f[S \ {Pick(S)}]
  BY <1>1 DEF Sums
<1> QED BY <1>1, <1>2, TotalIs

(* Any member may be taken first. *)
LEMMA TotalRemove ==
  ASSUME NEW S, IsFiniteSet(S), NEW w, \A x \in S : w[x] \in Int, NEW x \in S
  PROVE  Total(w, S) = w[x] + Total(w, S \ {x})
<1> DEFINE Holds(T, y) == Total(w, T) = w[y] + Total(w, T \ {y})
           Bad == {n \in Nat : \E T \in SUBSET S : Cardinality(T) = n /\ \E y \in T : ~Holds(T, y)}
<1>0. \A T \in SUBSET S : IsFiniteSet(T) /\ Cardinality(T) \in Nat
  BY FS_Subset, FS_CardinalityType
<1>1. SUFFICES ASSUME Bad # {} PROVE FALSE
  BY <1>0
<1>b. Bad \subseteq Nat
  OBVIOUS
<1>2. PICK m \in Bad : \A y \in Bad : m <= y
  <2> HIDE DEF Bad
  <2> QED BY <1>1, <1>b, LeastNat
<1>3a. PICK T \in SUBSET S : Cardinality(T) = m /\ \E y \in T : ~Holds(T, y)
  OBVIOUS
<1>3. PICK y \in T : Cardinality(T) = m /\ ~Holds(T, y)
  BY <1>3a
<1> DEFINE p == Pick(T)
<1>4. p \in T
  BY <1>3, PickIn
<1>5. Total(w, T) = w[p] + Total(w, T \ {p})
  BY <1>0, <1>3, TotalPick
<1>6. p # y
  BY <1>3, <1>5
<1>7. y \in T \ {p} /\ p \in T \ {y}
  BY <1>3, <1>4, <1>6
<1>8. /\ Cardinality(T \ {p}) \in Nat /\ Cardinality(T \ {p}) = m - 1
      /\ Cardinality(T \ {y}) \in Nat /\ Cardinality(T \ {y}) = m - 1
  BY <1>0, <1>3, <1>4, Fewer
<1>9. ~(m <= m - 1) /\ m \in Nat
  OBVIOUS
<1> HIDE DEF p
<1>10. Holds(T \ {p}, y) /\ Holds(T \ {y}, p)
  <2>1. T \ {p} \in SUBSET S /\ T \ {y} \in SUBSET S
    OBVIOUS
  <2> HIDE DEF Holds
  <2> QED BY <1>2, <1>7, <1>8, <1>9, <2>1
<1>11. (T \ {p}) \ {y} = (T \ {y}) \ {p}
  OBVIOUS
<1> DEFINE core == Total(w, (T \ {y}) \ {p})
           lessP == Total(w, T \ {p})
           lessY == Total(w, T \ {y})
           all == Total(w, T)
<1>12. lessP = w[y] + core /\ lessY = w[p] + core /\ all = w[p] + lessP
  BY <1>5, <1>10, <1>11
<1>13. core \in Int /\ w[p] \in Int /\ w[y] \in Int
  <2>1. IsFiniteSet((T \ {y}) \ {p}) /\ (T \ {y}) \ {p} \in SUBSET S
    BY <1>0
  <2> QED BY <2>1, <1>4, TotalInt
<1>14. all # w[y] + lessY
  BY <1>3
<1> HIDE DEF core, lessP, lessY, all
<1> QED BY <1>12, <1>13, <1>14

(* What holds of the empty set, and of a set when it holds with one of its *)
(* members taken out, holds of every finite set.                           *)
LEMMA SubsetInduction ==
  ASSUME NEW S, IsFiniteSet(S), NEW Good, {} \in Good,
         \A T \in SUBSET S : \A x \in T : T \ {x} \in Good => T \in Good
  PROVE  S \in Good
<1> DEFINE Bad == {n \in Nat : \E T \in SUBSET S : Cardinality(T) = n /\ T \notin Good}
<1>0. \A T \in SUBSET S : IsFiniteSet(T) /\ Cardinality(T) \in Nat
  BY FS_Subset, FS_CardinalityType
<1>1. SUFFICES ASSUME Bad # {} PROVE FALSE
  BY <1>0
<1>b. Bad \subseteq Nat
  OBVIOUS
<1>2. PICK m \in Bad : \A y \in Bad : m <= y
  <2> HIDE DEF Bad
  <2> QED BY <1>1, <1>b, LeastNat
<1>3. PICK T \in SUBSET S : Cardinality(T) = m /\ T \notin Good
  OBVIOUS
<1>4. PICK x : x \in T
  BY <1>3
<1>5. Cardinality(T \ {x}) \in Nat /\ Cardinality(T \ {x}) = m - 1 /\ T \ {x} \in SUBSET S
  BY <1>0, <1>3, <1>4, Fewer
<1>6. ~(m <= m - 1) /\ m \in Nat
  OBVIOUS
<1>7. T \ {x} \in Good
  BY <1>2, <1>5, <1>6
<1> QED BY <1>3, <1>4, <1>7

LEMMA TotalLe ==
  ASSUME NEW S, IsFiniteSet(S), NEW w, NEW v,
         \A x \in S : w[x] \in Int /\ v[x] \in Int /\ w[x] <= v[x]
  PROVE  Total(w, S) <= Total(v, S)
<1> DEFINE Good == {T \in SUBSET S : Total(w, T) <= Total(v, T)}
<1>0. \A T \in SUBSET S : IsFiniteSet(T)
  BY FS_Subset
<1>1. {} \in Good
  BY TotalEmpty
<1>2. ASSUME NEW T \in SUBSET S, NEW x \in T, T \ {x} \in Good PROVE T \in Good
  <2>1. Total(w, T) = w[x] + Total(w, T \ {x}) /\ Total(v, T) = v[x] + Total(v, T \ {x})
    BY <1>0, TotalRemove
  <2>2. Total(w, T \ {x}) \in Int /\ Total(v, T \ {x}) \in Int
    <3>1. T \ {x} \in SUBSET S
      OBVIOUS
    <3> QED BY <1>0, <3>1, TotalInt
  <2>3. Total(w, T \ {x}) <= Total(v, T \ {x})
    BY <1>2
  <2> DEFINE a == Total(w, T)
             b == Total(v, T)
             c == Total(w, T \ {x})
             d == Total(v, T \ {x})
  <2>4. a <= b
    <3>1. a = w[x] + c /\ b = v[x] + d /\ c \in Int /\ d \in Int /\ c <= d
      BY <2>1, <2>2, <2>3
    <3>2. w[x] \in Int /\ v[x] \in Int /\ w[x] <= v[x]
      OBVIOUS
    <3> HIDE DEF a, b, c, d
    <3> QED BY <3>1, <3>2
  <2> QED BY <2>4
<1> HIDE DEF Good
<1>3. S \in Good
  BY <1>1, <1>2, SubsetInduction
<1> QED BY <1>3 DEF Good

LEMMA TotalAdd ==
  ASSUME NEW S, IsFiniteSet(S), NEW w, NEW v, NEW u,
         \A x \in S : w[x] \in Int /\ v[x] \in Int /\ u[x] = w[x] + v[x]
  PROVE  Total(u, S) = Total(w, S) + Total(v, S)
<1> DEFINE Good == {T \in SUBSET S : Total(u, T) = Total(w, T) + Total(v, T)}
<1>0. \A T \in SUBSET S : IsFiniteSet(T)
  BY FS_Subset
<1>i. \A x \in S : u[x] \in Int
  OBVIOUS
<1>1. {} \in Good
  BY TotalEmpty
<1>2. ASSUME NEW T \in SUBSET S, NEW x \in T, T \ {x} \in Good PROVE T \in Good
  <2>1. /\ Total(w, T) = w[x] + Total(w, T \ {x}) /\ Total(v, T) = v[x] + Total(v, T \ {x})
        /\ Total(u, T) = u[x] + Total(u, T \ {x})
    BY <1>0, <1>i, TotalRemove
  <2>2. Total(w, T \ {x}) \in Int /\ Total(v, T \ {x}) \in Int
    <3>1. T \ {x} \in SUBSET S
      OBVIOUS
    <3> QED BY <1>0, <3>1, TotalInt
  <2>3. Total(u, T \ {x}) = Total(w, T \ {x}) + Total(v, T \ {x})
    BY <1>2
  <2> DEFINE a == Total(w, T)
             b == Total(v, T)
             c == Total(w, T \ {x})
             d == Total(v, T \ {x})
             e == Total(u, T)
             f == Total(u, T \ {x})
  <2>4. e = a + b
    <3>1. a = w[x] + c /\ b = v[x] + d /\ c \in Int /\ d \in Int /\ e = u[x] + f /\ f = c + d
      BY <2>1, <2>2, <2>3
    <3>2. w[x] \in Int /\ v[x] \in Int /\ u[x] = w[x] + v[x]
      OBVIOUS
    <3> HIDE DEF a, b, c, d, e, f
    <3> QED BY <3>1, <3>2
  <2> QED BY <2>4
<1> HIDE DEF Good
<1>3. S \in Good
  BY <1>1, <1>2, SubsetInduction
<1> QED BY <1>3 DEF Good

(* Members that weigh nothing may be left out. *)
LEMMA TotalSub ==
  ASSUME NEW S, IsFiniteSet(S), NEW w, NEW P \in SUBSET S, \A x \in S : w[x] \in Int,
         \A x \in S \ P : w[x] = 0
  PROVE  Total(w, S) = Total(w, P)
<1> DEFINE Good == {T \in SUBSET S : Total(w, T) = Total(w, T \cap P)}
<1>0. \A T \in SUBSET S : IsFiniteSet(T)
  BY FS_Subset
<1>1. {} \in Good
  BY TotalEmpty
<1>2. ASSUME NEW T \in SUBSET S, NEW x \in T, T \ {x} \in Good PROVE T \in Good
  <2>1. Total(w, T) = w[x] + Total(w, T \ {x})
    BY <1>0, TotalRemove
  <2>2. Total(w, T \ {x}) = Total(w, (T \ {x}) \cap P)
    BY <1>2
  <2>3. CASE x \in P
    <3>1. T \cap P \in SUBSET S /\ (T \cap P) \ {x} = (T \ {x}) \cap P /\ x \in T \cap P
      BY <2>3
    <3>2. Total(w, T \cap P) = w[x] + Total(w, (T \cap P) \ {x})
      BY <1>0, <3>1, TotalRemove
    <3> QED BY <2>1, <2>2, <3>1, <3>2
  <2>4. CASE x \notin P
    <3>1. T \cap P = (T \ {x}) \cap P /\ w[x] = 0
      BY <2>4
    <3>2. Total(w, T \ {x}) \in Int
      <4>1. T \ {x} \in SUBSET S
        OBVIOUS
      <4> QED BY <1>0, <4>1, TotalInt
    <3>3. Total(w, T) = Total(w, T \ {x})
      BY <2>1, <3>1, <3>2
    <3> QED BY <2>2, <3>1, <3>3
  <2> QED BY <2>3, <2>4
<1> HIDE DEF Good
<1>3. S \in Good
  BY <1>1, <1>2, SubsetInduction
<1>4. S \cap P = P
  OBVIOUS
<1> QED BY <1>3, <1>4 DEF Good

LEMMA TotalNat ==
  ASSUME NEW S, IsFiniteSet(S), NEW w, \A x \in S : w[x] \in Nat
  PROVE  Total(w, S) \in Nat
<1> DEFINE z == [x \in S |-> 0]
<1>1. Total(z, S) = Total(z, {})
  BY TotalSub
<1>2. Total(z, S) = 0
  BY <1>1, TotalEmpty
<1>3. Total(z, S) <= Total(w, S)
  <2>1. \A x \in S : z[x] \in Int /\ w[x] \in Int /\ z[x] <= w[x]
    OBVIOUS
  <2> QED BY <2>1, TotalLe
<1>4. Total(w, S) \in Int
  BY TotalInt
<1> QED BY <1>2, <1>3, <1>4

(* As many members weigh at least one as all weigh together, at most.      *)
LEMMA TotalCounts ==
  ASSUME NEW S, IsFiniteSet(S), NEW w, \A x \in S : w[x] \in Nat
  PROVE  Cardinality({x \in S : w[x] > 0}) <= Total(w, S)
<1> DEFINE P == {x \in S : w[x] > 0}
           one == [x \in S |-> 1]
           Good == {T \in SUBSET P : Cardinality(T) <= Total(w, T)}
<1>0. \A T \in SUBSET P : IsFiniteSet(T) /\ T \in SUBSET S
  BY FS_Subset
<1>1. {} \in Good
  BY TotalEmpty, FS_EmptySet
<1>2. ASSUME NEW T \in SUBSET P, NEW x \in T, T \ {x} \in Good PROVE T \in Good
  <2>1. Total(w, T) = w[x] + Total(w, T \ {x})
    BY <1>0, TotalRemove
  <2>2. /\ Cardinality(T) \in Nat /\ Cardinality(T \ {x}) \in Nat
        /\ Cardinality(T \ {x}) = Cardinality(T) - 1
    BY <1>0, Fewer
  <2>3. Total(w, T \ {x}) \in Int
    <3>1. T \ {x} \in SUBSET P
      OBVIOUS
    <3> QED BY <1>0, <3>1, TotalInt
  <2>4. Cardinality(T \ {x}) <= Total(w, T \ {x})
    BY <1>2
  <2>5. w[x] \in Nat /\ w[x] >= 1
    OBVIOUS
  <2> DEFINE a == Total(w, T)
             c == Total(w, T \ {x})
             p == Cardinality(T)
             q == Cardinality(T \ {x})
  <2>6. p <= a
    <3>1. a = w[x] + c /\ c \in Int /\ p \in Nat /\ q \in Nat /\ q = p - 1 /\ q <= c
      BY <2>1, <2>2, <2>3, <2>4
    <3> HIDE DEF a, c, p, q
    <3> QED BY <2>5, <3>1
  <2> QED BY <2>6
<1> HIDE DEF Good
<1>f. IsFiniteSet(P)
  BY <1>0
<1>3. P \in Good
  <2> HIDE DEF P
  <2> QED BY <1>1, <1>2, <1>f, SubsetInduction
<1>4. Total(w, S) = Total(w, P)
  <2>1. P \in SUBSET S /\ \A x \in S \ P : w[x] = 0
    OBVIOUS
  <2> HIDE DEF P
  <2> QED BY <2>1, TotalSub
<1> QED BY <1>3, <1>4 DEF Good

(* A finite set of integers has a smallest and a greatest member. *)
LEMMA MinFinite ==
  ASSUME NEW S \in SUBSET Int, IsFiniteSet(S), S # {}
  PROVE  Min(S) \in S /\ \A y \in S : Min(S) <= y
<1> DEFINE Good == {T \in SUBSET S : T # {} => \E m \in T : \A y \in T : m <= y}
<1>1. {} \in Good
  OBVIOUS
<1>2. ASSUME NEW T \in SUBSET S, NEW x \in T, T \ {x} \in Good PROVE T \in Good
  <2>1. CASE T \ {x} = {}
    <3>1. \A y \in T : x <= y
      BY <2>1
    <3> QED BY <3>1
  <2>2. CASE T \ {x} # {}
    <3>1. PICK m \in T \ {x} : \A y \in T \ {x} : m <= y
      BY <1>2, <2>2
    <3>2. \E k \in T : \A y \in T : k <= y
      <4>1. CASE x <= m
        BY <3>1, <4>1
      <4>2. CASE ~(x <= m)
        BY <3>1, <4>2
      <4> QED BY <4>1, <4>2
    <3> QED BY <3>2
  <2> QED BY <2>1, <2>2
<1>3. S \in Good
  <2> HIDE DEF Good
  <2> QED BY <1>1, <1>2, SubsetInduction
<1>4. \E m \in S : \A y \in S : m <= y
  BY <1>3
<1> QED BY <1>4 DEF Min

LEMMA MaxFinite ==
  ASSUME NEW S \in SUBSET Int, IsFiniteSet(S), S # {}
  PROVE  Max(S) \in S /\ \A y \in S : y <= Max(S)
<1> DEFINE Good == {T \in SUBSET S : T # {} => \E m \in T : \A y \in T : y <= m}
<1>1. {} \in Good
  OBVIOUS
<1>2. ASSUME NEW T \in SUBSET S, NEW x \in T, T \ {x} \in Good PROVE T \in Good
  <2>1. CASE T \ {x} = {}
    <3>1. \A y \in T : y <= x
      BY <2>1
    <3> QED BY <3>1
  <2>2. CASE T \ {x} # {}
    <3>1. PICK m \in T \ {x} : \A y \in T \ {x} : y <= m
      BY <1>2, <2>2
    <3>2. \E k \in T : \A y \in T : y <= k
      <4>1. CASE m <= x
        BY <3>1, <4>1
      <4>2. CASE ~(m <= x)
        BY <3>1, <4>2
      <4> QED BY <4>1, <4>2
    <3> QED BY <3>2
  <2> QED BY <2>1, <2>2
<1>3. S \in Good
  <2> HIDE DEF Good
  <2> QED BY <1>1, <1>2, SubsetInduction
<1>4. \E m \in S : \A y \in S : y <= m
  BY <1>3
<1> QED BY <1>4 DEF Max

(* What holds of 0, and of a number when it holds of the one before it.    *)
LEMMA UptoInduction ==
  ASSUME NEW n \in Nat, NEW Good, 0 \in Good, \A k \in 1 .. n : k - 1 \in Good => k \in Good
  PROVE  \A k \in 0 .. n : k \in Good
<1> DEFINE Bad == {k \in 0 .. n : k \notin Good}
<1>1. SUFFICES ASSUME Bad # {} PROVE FALSE
  OBVIOUS
<1>2. Bad \subseteq Nat
  OBVIOUS
<1>3. PICK m \in Bad : \A y \in Bad : m <= y
  <2> HIDE DEF Bad
  <2> QED BY <1>1, <1>2, LeastNat
<1>4. m \in 1 .. n /\ m - 1 \in 0 .. n /\ ~(m <= m - 1)
  OBVIOUS
<1>5. m - 1 \in Good
  BY <1>3, <1>4
<1> QED BY <1>4, <1>5

(* A fold over 1 .. n, the last number last, is the last of n steps.       *)
LEMMA PrefixMax ==
  ASSUME NEW n \in Nat, NEW k \in 1 .. n
  PROVE  /\ 1 .. k \in SUBSET (1 .. n) /\ 1 .. k # {} /\ Max(1 .. k) = k
         /\ (1 .. k) \ {k} = 1 .. k - 1 /\ 1 .. k - 1 \in SUBSET (1 .. n)
<1>1. Max(1 .. k) \in 1 .. k /\ \A y \in 1 .. k : y <= Max(1 .. k)
  <2>1. 1 .. k \in SUBSET Int /\ IsFiniteSet(1 .. k) /\ 1 .. k # {}
    <3>1. 1 \in Int /\ k \in Int /\ 1 \in 1 .. k
      OBVIOUS
    <3>2. IsFiniteSet(1 .. k)
      BY <3>1, FS_Interval
    <3> QED BY <3>1, <3>2
  <2> QED BY <2>1, MaxFinite
<1>2. k \in 1 .. k
  OBVIOUS
<1>3. Max(1 .. k) = k
  BY <1>1, <1>2
<1> QED BY <1>3

FoldsInOrder(f, n, base, g) ==
  f = [s \in SUBSET (1 .. n) |-> IF s = {} THEN base ELSE g[Max(s)][f[s \ {Max(s)}]]]

LEMMA FoldsUpto ==
  ASSUME NEW n \in Nat, NEW Values, NEW base \in Values, NEW g \in [1 .. n -> [Values -> Values]]
  PROVE  \E f \in [SUBSET (1 .. n) -> Values] : FoldsInOrder(f, n, base, g)
<1> DEFINE S == 1 .. n
           pick == [s \in SUBSET S |-> Max(s)]
<1>1. IsFiniteSet(S) /\ S \subseteq Int
  BY FS_Interval
<1>2. ASSUME NEW s \in SUBSET S, s # {} PROVE pick[s] \in s
  <2>1. IsFiniteSet(s) /\ s \in SUBSET Int
    BY <1>1, FS_Subset
  <2>2. Max(s) \in s
    BY <1>2, <2>1, MaxFinite
  <2> QED BY <2>2
<1>3. g \in [S -> [Values -> Values]]
  OBVIOUS
<1>4. PICK f \in [SUBSET S -> Values] : Folds(f, S, base, g, pick)
  <2>1. Picking(pick, S)
    BY <1>2 DEF Picking
  <2> HIDE DEF pick, S
  <2> QED BY <1>1, <1>3, <2>1, FoldsExist
<1>5. \A s \in SUBSET S : pick[s] = Max(s)
  OBVIOUS
<1>6. f = [s \in SUBSET S |-> IF s = {} THEN base ELSE g[Max(s)][f[s \ {Max(s)}]]]
  <2> HIDE DEF pick, S
  <2>1. ASSUME NEW s \in SUBSET S
        PROVE  f[s] = IF s = {} THEN base ELSE g[Max(s)][f[s \ {Max(s)}]]
    BY <1>4, <1>5 DEF Folds
  <2> QED BY <1>4, <2>1
<1> QED BY <1>6 DEF FoldsInOrder

(* A recursive function on 0 .. n, each value made from the one before it.  *)
Steps(f, n, base, g) == f = [i \in 0 .. n |-> IF i = 0 THEN base ELSE g[i][f[i - 1]]]

LEMMA StepsExist ==
  ASSUME NEW n \in Nat, NEW Values, NEW base \in Values, NEW g \in [1 .. n -> [Values -> Values]]
  PROVE  \E f \in [0 .. n -> Values] : Steps(f, n, base, g)
<1>1. PICK h \in [SUBSET (1 .. n) -> Values] : FoldsInOrder(h, n, base, g)
  BY FoldsUpto
<1> DEFINE f == [i \in 0 .. n |-> h[1 .. i]]
<1>2. f \in [0 .. n -> Values]
  OBVIOUS
<1>3. f[0] = base
  <2>1. h[1 .. 0] = base
    <3>1. 1 .. 0 = {} /\ {} \in SUBSET (1 .. n)
      OBVIOUS
    <3> QED BY <1>1, <3>1 DEF FoldsInOrder
  <2> QED BY <2>1
<1>4. ASSUME NEW i \in 1 .. n PROVE f[i] = g[i][f[i - 1]]
  <2>1. h[1 .. i] = g[Max(1 .. i)][h[(1 .. i) \ {Max(1 .. i)}]]
    BY <1>1, PrefixMax DEF FoldsInOrder
  <2>2. h[1 .. i] = g[i][h[1 .. i - 1]]
    BY <2>1, PrefixMax
  <2>3. i \in 0 .. n /\ i - 1 \in 0 .. n
    OBVIOUS
  <2> QED BY <2>2, <2>3
<1> HIDE DEF f
<1>5. ASSUME NEW i \in 0 .. n PROVE f[i] = IF i = 0 THEN base ELSE g[i][f[i - 1]]
  BY <1>3, <1>4
<1>6. Steps(f, n, base, g)
  BY <1>2, <1>5 DEF Steps
<1> QED BY <1>2, <1>6
=============================================================================
