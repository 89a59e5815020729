-------------------------- MODULE KeyedDiffProofs --------------------------
(***************************************************************************)
(* What keyeddiff, minusdiff and joindiff report while applications write, *)
(* for every set of keys, every pair of tables and every threshold, page,  *)
(* chunk and bucket size.                                                  *)
(*                                                                         *)
(*   KeyedInv   types, what is known in each phase, the two cursors.       *)
(*   StableInv  what has been read tells of the rows nobody wrote to, and  *)
(*              every difference among them is reported or still ahead.    *)
(*   ExactInv   the same of the snapshots, with no key set aside, and the  *)
(*              totals are the sizes of the snapshots.                     *)
(*   SumsInv    what a comparison that ends without a warning has read     *)
(*              fits what it has counted.                                  *)
(*                                                                         *)
(* StableInv and ExactInv are one argument, True(T, H): T is the pair of   *)
(* tables the statements are read against and H the keys set aside, the    *)
(* tables now and the keys written for the one, the snapshots and no key   *)
(* for the other.                                                          *)
(***************************************************************************)
EXTENDS KeyedDiff, Integers, FiniteSetTheorems, TLAPS

Row == Keys \X Values
RowSet == {R \in SUBSET Row : \A r, q \in R : r[1] = q[1] => r = q}
AtMostOne(S) == \A x, y \in S : x = y
Pair == [Side -> Table]

(* Before the first COUNT, while counting, the phases of joindiff, and     *)
(* those in which the report is written or a join's rows are.              *)
Opening == {"probe", "anchor", "snapLeft", "snapRight"}
Counting == {"count", "minusLeft", "minusRight"}
Joining == {"join", "joinLeft", "joinRight"}
Ended == {"joinLeft", "joinRight", "commit", "done"}

KeyedType ==
  /\ mode \in ModeType /\ tab \in Pair /\ touched \in SUBSET Keys
  /\ pc \in Opening \cup Counting \cup Joining \cup Ended
            \cup {"sums", "bucket", "merge", "small", "hits", "minus", "except"}
  /\ snap \in [Side -> SUBSET Table] /\ base \in [Side -> SUBSET Table]
  /\ total \in [Side -> SUBSET Nat] /\ sums \in [Side -> SUBSET RowSet]
  /\ \A s \in Side : AtMostOne(snap[s]) /\ AtMostOne(base[s])
                     /\ AtMostOne(total[s]) /\ AtMostOne(sums[s])
  /\ todo \in SUBSET Nat /\ scope \in SUBSET Keys /\ expected \in [Side -> Nat]
  /\ seen \in [Side -> SUBSET Row] /\ pos \in [Side -> Nat] /\ exhausted \in [Side -> BOOLEAN]
  /\ asked \in SUBSET Keys /\ missingBig \in Nat /\ warned \in BOOLEAN

(* What the comparison knows and has reported in each of its phases. *)
Phase ==
  /\ pc \in Opening \cup {"join", "joinLeft"} => total = Both({})
  /\ pc \in {"minusRight", "joinRight"} => total["left"] # {}
  /\ pc \in {"minus", "sums", "bucket", "merge", "small", "hits", "except"} =>
       \A s \in Side : total[s] # {}
  /\ pc \in Opening \cup Counting \cup Joining => sums = Both({})
  /\ pc = "minus" /\ OverBudget => sums = Both({})
  /\ pc = "bucket" => Summed
  /\ pc \in {"sums", "bucket", "merge"} => Larger > 0
  /\ pc \in Opening \cup Counting \cup Joining \cup {"minus", "except"} => path = "none"
  /\ pc = "sums" => path \in {"shared", "bucket"}
  /\ pc = "bucket" => path = "bucket"
  /\ pc = "merge" => path \in {"all", "shared", "bucket"} /\ (path # "all" => Summed)
  /\ pc \in {"small", "hits"} => path = "point"
  /\ pc \notin {"commit", "done"} => missingBig = 0
  /\ pc \notin {"merge", "bucket"} \cup Ended => found = {}
  /\ pc = "merge" /\ path # "bucket" => found = {}
  /\ pc \notin {"merge", "bucket", "hits", "except"} \cup Ended => warned = FALSE
  /\ pc \in Joining => mode.way = "join"
  /\ pc \notin {"hits"} \cup Ended => asked = {}
  /\ exit # "none" => pc = "done"

(* The two cursors, and the look-ups in the big side. *)
Cursors ==
  /\ \A s \in Side : seen[s] \in RowSet
  /\ pc \in {"merge", "small"} =>
       \A s \in Side : \A r \in seen[s] : r[1] \in scope /\ r[1] <= pos[s]
  /\ pc \in {"small", "hits"} =>
       /\ scope = Keys /\ exhausted[Big]
       /\ PathOf = "point" /\ expected[Small] = Total(Small)
       /\ KeysOf(seen[Big]) \subseteq asked
       /\ asked \subseteq KeysOf(seen[Small])
  /\ pc = "hits" =>
       /\ exhausted = Both(TRUE)
       /\ warned \/ Fetched(Small) = expected[Small]

(* Rows R, read at some time, are those table t holds under the keys ks,   *)
(* the keys in H set aside.                                                *)
Tells(R, t, ks, H) ==
  \A r \in Row : r[1] \notin H => (r \in R <=> r[1] \in ks /\ t[r[1]] = r[2])

Differs(T, k) == T["left"][k] # T["right"][k]
DiffOf(T, k) ==
  [key |-> k, status |-> IF T["right"][k] = Absent THEN "missing_right"
                         ELSE IF T["left"][k] = Absent THEN "missing_left" ELSE "modified"]

(* The keys a side has been read for.                                     *)
Read(s) ==
  IF path = "point" /\ s = Big THEN asked
  ELSE {k \in scope : exhausted[s] \/ k <= pos[s]}

(* Checksums, counts, pages and the report say what is true of T.          *)
SumsTell(T, H) == \A s \in Side : \A x \in sums[s] : Tells(x, T[s], Keys, H)
EmptyTell(T, H) == \A s \in Side : 0 \in total[s] => \A k \in Keys \ H : T[s][k] = Absent
SeenTell(T, H) ==
  pc \in {"merge", "small", "hits"} => \A s \in Side : Tells(seen[s], T[s], Read(s), H)
Sound(T, H) ==
  \A d \in found : /\ d.key \in Keys
                   /\ d.key \notin H => Differs(T, d.key) /\ d = DiffOf(T, d.key)

(* Differences still ahead, and what a report tells of one.                *)
Waiting == UNION {KeysIn(b) : b \in todo}
Told(T, k) ==
  IF missingBig = 0 THEN warned \/ DiffOf(T, k) \in found
  ELSE T[Small][k] # Absent => DiffOf(T, k) \in found

Pending ==
  CASE pc = "merge" /\ path = "bucket" -> scope \cup Waiting
    [] pc = "merge" /\ path # "bucket" -> scope
    [] pc = "bucket" -> Waiting
    [] OTHER -> {}

Complete(T, H) ==
  \A k \in Keys \ H : Differs(T, k) =>
    /\ pc \in {"merge", "bucket"} => DiffOf(T, k) \in found \/ k \in Pending
    /\ pc \in Ended /\ exit # "error" => Told(T, k)

True(T, H) ==
  SumsTell(T, H) /\ EmptyTell(T, H) /\ SeenTell(T, H) /\ Sound(T, H) /\ Complete(T, H)

(* A snapshot shows the rows nobody wrote to as they are.                  *)
SnapTrue == \A s \in Side : \A t \in snap[s] : \A k \in Keys \ touched : t[k] = tab[s][k]

StableInv == SnapTrue /\ True(tab, touched)

(* The snapshots opened last, and the rows of one that the other lacks.    *)
Base == [s \in Side |-> CHOOSE t \in base[s] : TRUE]
Size(s) == Cardinality(RowsOf(Base[s], Keys))
OnlyIn(T, s) == {k \in Keys : T[Other(s)][k] = Absent /\ T[s][k] # Absent}

(* A comparison of snapshots that has not failed.                          *)
Anchored == mode.snapshot /\ mode.way # "join" /\ exit # "error"

Counts ==
  /\ \A s \in Side : total[s] \subseteq {Size(s)}
  /\ pc = "merge" => \A s \in Side : expected[s] = Cardinality(RowsOf(Base[s], scope))
  /\ ~warned
  /\ pc \in {"commit", "done"} => \A s \in Side : total[s] # {}
  /\ missingBig # 0 => /\ missingBig = Cardinality(OnlyIn(Base, Big))
                       /\ \A d \in found : Base[Small][d.key] # Absent

ExactInv ==
  Anchored =>
    /\ pc = "snapRight" => snap["left"] = base["left"] /\ base["left"] # {}
    /\ pc \notin Opening =>
         /\ \A s \in Side : base[s] # {}
         /\ pc # "done" => snap = base
         /\ True(Base, {}) /\ Counts

(* Where minusdiff is under way, and what the cursors should fetch.        *)
Minusing ==
  pc \in {"probe", "anchor", "minusLeft", "minusRight", "minus", "except"} => mode.way = "minus"
ExpectedAll == pc = "merge" /\ path = "all" => \A s \in Side : expected[s] = Total(s)
TotalsKnown == pc \in {"commit", "done"} /\ exit # "error" => \A s \in Side : total[s] # {}

(* What a comparison that read both sides, looked keys up, or found both   *)
(* sides empty has read when it ends without a warning.                    *)
EndAll ==
  /\ found = DiffRows(seen["left"], seen["right"]) /\ missingBig = 0
  /\ \A s \in Side : Fetched(s) = Total(s)
EndPoint ==
  /\ found = DiffRows(seen["left"], seen["right"]) /\ missingBig = Missing
  /\ KeysOf(seen[Big]) \subseteq KeysOf(seen[Small])
  /\ Fetched(Small) = Total(Small) /\ Fetched(Big) <= Total(Big)
EndNothing == found = {} /\ missingBig = 0 /\ Larger = 0
EndsWell ==
  pc \in {"commit", "done"} /\ exit # "error" /\ ~warned =>
    /\ path = "all" => EndAll
    /\ path = "point" => EndPoint
    /\ path = "none" /\ mode.way = "keyed" => EndNothing

SumsInv == Minusing /\ ExpectedAll /\ TotalsKnown /\ EndsWell

-----------------------------------------------------------------------------
(* Numbers, sets of rows and the operators that pick one of two sides.     *)

LEMMA OneOf ==
  ASSUME NEW S, AtMostOne(S), NEW x \in S
  PROVE  (CHOOSE y \in S : TRUE) = x
BY DEF AtMostOne

LEMMA SomeOf ==
  ASSUME NEW S, S # {}
  PROVE  (CHOOSE y \in S : TRUE) \in S
OBVIOUS

LEMMA MaxOfTwo ==
  ASSUME NEW a \in Nat, NEW b \in Nat
  PROVE  Max({a, b}) = IF a >= b THEN a ELSE b
<1> DEFINE m == IF a >= b THEN a ELSE b
<1>1. m \in {a, b} /\ \A x \in {a, b} : x <= m
  OBVIOUS
<1>2. \A y \in {a, b} : (\A x \in {a, b} : x <= y) => y = m
  OBVIOUS
<1> QED BY <1>1, <1>2 DEF Max

LEMMA MinOfTwo ==
  ASSUME NEW a \in Nat, NEW b \in Nat
  PROVE  Min({a, b}) = IF a <= b THEN a ELSE b
<1> DEFINE m == IF a <= b THEN a ELSE b
<1>1. m \in {a, b} /\ \A x \in {a, b} : m <= x
  OBVIOUS
<1>2. \A y \in {a, b} : (\A x \in {a, b} : y <= x) => y = m
  OBVIOUS
<1> QED BY <1>1, <1>2 DEF Min

LEMMA SubsetSize ==
  ASSUME NEW S, IsFiniteSet(S), NEW U \in SUBSET S
  PROVE  IsFiniteSet(U) /\ Cardinality(U) \in Nat /\ Cardinality(U) <= Cardinality(S)
BY FS_Subset, FS_CardinalityType

LEMMA LeastNat ==
  ASSUME NEW S, S \subseteq Nat, S # {}
  PROVE  \E m \in S : \A y \in S : m <= y
<1>1. PICK m \in S : \A y \in S : ~ (<<y, m>> \in OpToRel(<, Nat))
  BY WFMin, NatLessThanWellFounded
<1>2. ASSUME NEW y \in S PROVE m <= y
  <2>1. <<y, m>> \notin OpToRel(<, Nat)
    BY <1>1
  <2>2. ~ (y < m)
    BY <2>1 DEF OpToRel
  <2> QED BY <2>2
<1> QED BY <1>2

LEMMA MinOfNats ==
  ASSUME NEW S, S \subseteq Nat, S # {}
  PROVE  Min(S) \in S
<1>1. \E m \in S : \A y \in S : m <= y
  BY LeastNat
<1> QED BY <1>1 DEF Min

(* A finite set of numbers has a largest: no subset without one is the      *)
(* smallest such.                                                          *)
HasMax(S) == \E m \in S : \A x \in S : x <= m

LEMMA MaxOfNats ==
  ASSUME NEW S, S \subseteq Nat, S # {}, IsFiniteSet(S)
  PROVE  Max(S) \in S /\ \A x \in S : x <= Max(S)
<1> DEFINE Bad == {U \in SUBSET S : U # {} /\ ~HasMax(U)}
           Sizes == {Cardinality(U) : U \in Bad}
<1>1. ASSUME Bad # {} PROVE FALSE
  <2>0. \A U \in Bad : Cardinality(U) \in Nat
    BY FS_Subset, FS_CardinalityType
  <2>1. Sizes \subseteq Nat /\ Sizes # {}
    BY <1>1, <2>0
  <2>2. PICK U \in Bad : \A V \in Bad : Cardinality(U) <= Cardinality(V)
    <3>1. PICK n \in Sizes : \A y \in Sizes : n <= y
      BY <2>1, LeastNat
    <3> QED BY <3>1
  <2>3. PICK x \in U : TRUE
    OBVIOUS
  <2> DEFINE V == U \ {x}
  <2>4. IsFiniteSet(U) /\ Cardinality(U) \in Nat
    BY FS_Subset, FS_CardinalityType
  <2>5. Cardinality(V) < Cardinality(U)
    <3>1. Cardinality(V) = Cardinality(U) - 1
      BY <2>3, <2>4, FS_RemoveElement
    <3> QED BY <2>4, <3>1
  <2>6. V \notin Bad
    <3>1. ASSUME V \in Bad PROVE FALSE
      <4>1. Cardinality(U) <= Cardinality(V) /\ Cardinality(V) \in Nat
        BY <2>2, <2>1, <3>1
      <4> HIDE DEF V
      <4> QED BY <2>4, <2>5, <4>1
    <3> QED BY <3>1
  <2>7. CASE V = {}
    <3>1. U = {x} /\ x \in Nat
      BY <2>3, <2>7
    <3> QED BY <3>1 DEF HasMax
  <2>8. CASE V # {}
    <3>1. PICK m \in V : \A y \in V : y <= m
      BY <2>6, <2>8 DEF HasMax
    <3>2. m \in Nat /\ x \in Nat /\ U \subseteq Nat /\ m \in U
      OBVIOUS
    <3>3. CASE x <= m
      BY <3>1, <3>2, <3>3 DEF HasMax
    <3>4. CASE m < x
      <4>1. \A y \in U : y <= x
        BY <3>1, <3>2, <3>4
      <4> QED BY <2>3, <4>1 DEF HasMax
    <3> QED BY <3>2, <3>3, <3>4
  <2> QED BY <2>7, <2>8
<1>2. S \in SUBSET S
  OBVIOUS
<1>3. HasMax(S)
  BY <1>1, <1>2
<1> QED BY <1>3 DEF Max, HasMax

(* A set of rows that has no key twice is as large as its set of keys. *)
LEMMA RowSetSize ==
  ASSUME NEW R \in RowSet
  PROVE  /\ IsFiniteSet(R) /\ IsFiniteSet(KeysOf(R)) /\ KeysOf(R) \subseteq Keys
         /\ Cardinality(R) \in Nat /\ Cardinality(KeysOf(R)) = Cardinality(R)
<1>1. KeysOf(R) \subseteq Keys /\ IsFiniteSet(Keys)
  BY KeyedAssumption DEF RowSet, Row, KeysOf
<1>2. IsFiniteSet(KeysOf(R))
  BY <1>1, FS_Subset
<1> DEFINE f == [r \in R |-> r[1]]
<1>3. f \in [R -> KeysOf(R)] /\ \A r, q \in R : f[r] = f[q] => r = q
  BY DEF RowSet, KeysOf
<1>4. f \in Injection(R, KeysOf(R)) /\ f \in Surjection(R, KeysOf(R))
  <2>1. \A k \in KeysOf(R) : \E r \in R : f[r] = k
    BY DEF KeysOf
  <2> QED BY <1>3, <2>1 DEF Injection, Surjection, IsInjective
<1>5. IsFiniteSet(R) /\ Cardinality(R) = Cardinality(KeysOf(R))
  BY <1>2, <1>4, FS_Injection
<1> QED BY <1>1, <1>2, <1>5, FS_CardinalityType

LEMMA RowsOfSet ==
  ASSUME NEW t \in Table, NEW ks \in SUBSET Keys
  PROVE  /\ RowsOf(t, ks) \in RowSet
         /\ KeysOf(RowsOf(t, ks)) = {k \in ks : t[k] # Absent}
<1>1. \A k \in ks : t[k] # Absent => t[k] \in Values
  BY DEF Table, RowImage
<1>2. RowsOf(t, ks) \subseteq Row
  BY <1>1 DEF RowsOf, Row
<1>3. \A r \in RowsOf(t, ks) : r[1] \in ks /\ r = <<r[1], t[r[1]]>> /\ t[r[1]] # Absent
  BY DEF RowsOf
<1>4. \A k \in ks : t[k] # Absent => <<k, t[k]>> \in RowsOf(t, ks) /\ <<k, t[k]>>[1] = k
  BY DEF RowsOf
<1>5. RowsOf(t, ks) \in RowSet
  BY <1>2, <1>3 DEF RowSet
<1>6. \A k : k \in KeysOf(RowsOf(t, ks)) <=> \E r \in RowsOf(t, ks) : k = r[1]
  BY DEF KeysOf
<1>7. \A k \in KeysOf(RowsOf(t, ks)) : k \in ks /\ t[k] # Absent
  BY <1>3, <1>6
<1>8. \A k \in ks : t[k] # Absent => k \in KeysOf(RowsOf(t, ks))
  <2> SUFFICES ASSUME NEW k \in ks, t[k] # Absent PROVE \E r \in RowsOf(t, ks) : k = r[1]
    BY <1>6
  <2> QED BY <1>4
<1> QED BY <1>5, <1>7, <1>8

LEMMA ViewTable ==
  ASSUME KeyedType, NEW s \in Side
  PROVE  View(s) \in Table /\ (snap[s] = {} => View(s) = tab[s])
         /\ (snap[s] # {} => View(s) \in snap[s]) /\ Rows(s) \in RowSet
<1>1. tab[s] \in Table /\ snap[s] \subseteq Table
  BY DEF KeyedType, Pair
<1>2. View(s) \in Table
  BY <1>1, SomeOf DEF View
<1> QED BY <1>1, <1>2, SomeOf, RowsOfSet DEF View, Rows

LEMMA Sides ==
  ASSUME KeyedType, \A s \in Side : total[s] # {}
  PROVE  /\ \A s \in Side : Total(s) \in Nat /\ total[s] = {Total(s)}
         /\ Larger \in Nat /\ Smaller \in Nat /\ Smaller <= Larger
         /\ Total(Big) = Larger /\ Total(Small) = Smaller
         /\ Big \in Side /\ Small \in Side /\ Small # Big
         /\ \A s \in Side : s = Big \/ s = Small
<1>1. \A s \in Side : Total(s) \in Nat /\ total[s] = {Total(s)}
  BY OneOf, SomeOf DEF KeyedType, Total, AtMostOne
<1>2. Total("left") \in Nat /\ Total("right") \in Nat
  BY <1>1 DEF Side
<1>3. Larger = IF Total("left") >= Total("right") THEN Total("left") ELSE Total("right")
  BY <1>2, MaxOfTwo DEF Larger
<1>4. Smaller = IF Total("left") <= Total("right") THEN Total("left") ELSE Total("right")
  BY <1>2, MinOfTwo DEF Smaller
<1> QED BY <1>1, <1>2, <1>3, <1>4 DEF Big, Small, Other, Side

LEMMA SumIs ==
  ASSUME KeyedType, NEW s \in Side, sums[s] # {}
  PROVE  Sum(s) \in RowSet /\ sums[s] = {Sum(s)}
         /\ \A b : InBucket(s, b) = {r \in Sum(s) : r[1] \in KeysIn(b)}
<1>1. Sum(s) \in sums[s]
  BY SomeOf DEF Sum
<1>2. sums[s] = {Sum(s)} /\ Sum(s) \in RowSet
  BY <1>1 DEF KeyedType, AtMostOne
<1> QED BY <1>2 DEF InBucket, Sum

LEMMA BucketNumbers ==
  ASSUME KeyedType, \A s \in Side : total[s] # {}
  PROVE  Buckets \in Nat /\ (Larger > 0 => Buckets > 0)
<1> DEFINE n == (Larger + PerBucket - 1) \div PerBucket
<1>1. Larger \in Nat /\ PerBucket \in Nat \ {0} /\ MaxBuckets \in Nat \ {0}
  BY Sides, KeyedAssumption
<1>2. n \in Nat /\ (Larger > 0 => n > 0)
  <2> HIDE DEF n
  <2> DEFINE l == Larger p == PerBucket
  <2>1. l \in Nat /\ p \in Nat /\ p > 0 /\ n = (l + p - 1) \div p
    BY <1>1 DEF n
  <2> HIDE DEF l, p
  <2>2. l + p - 1 \in Nat /\ (l > 0 => l + p - 1 >= p)
    BY <2>1
  <2>3. n \in Nat /\ (l + p - 1 >= p => n > 0)
    BY <2>1, <2>2
  <2> QED BY <2>2, <2>3 DEF l
<1> HIDE DEF n
<1>3. Buckets = IF MaxBuckets <= n THEN MaxBuckets ELSE n
  BY <1>1, <1>2, MinOfTwo DEF Buckets, n
<1> QED BY <1>1, <1>2, <1>3

LEMMA DiffBucketNumbers ==
  ASSUME KeyedType, \A s \in Side : total[s] # {}
  PROVE  DiffBuckets \subseteq Nat
BY BucketNumbers DEF DiffBuckets

LEMMA CountOfType ==
  ASSUME KeyedType, Summed, NEW bs
  PROVE  /\ CountOf(bs) \in [Side -> Nat]
         /\ \A s \in Side : UNION {InBucket(s, b) : b \in bs}
              = {r \in Sum(s) : \E b \in bs : r[1] \in KeysIn(b)}
<1>1. ASSUME NEW s \in Side
      PROVE  /\ UNION {InBucket(s, b) : b \in bs}
                  = {r \in Sum(s) : \E b \in bs : r[1] \in KeysIn(b)}
             /\ Cardinality(UNION {InBucket(s, b) : b \in bs}) \in Nat
  <2>1. /\ Sum(s) \in RowSet
        /\ \A b : InBucket(s, b) = {r \in Sum(s) : r[1] \in KeysIn(b)}
    BY SumIs DEF Summed
  <2>2. \A r : r \in UNION {InBucket(s, b) : b \in bs} <=> \E b \in bs : r \in InBucket(s, b)
    OBVIOUS
  <2>3. UNION {InBucket(s, b) : b \in bs} = {r \in Sum(s) : \E b \in bs : r[1] \in KeysIn(b)}
    BY <2>1, <2>2
  <2>4. IsFiniteSet(Sum(s))
    BY <2>1, RowSetSize
  <2> QED BY <2>3, <2>4, FS_Subset, FS_CardinalityType
<1> QED BY <1>1 DEF CountOf

LEMMA MissingNat ==
  ASSUME KeyedType, \A s \in Side : total[s] # {}
  PROVE  Missing \in Nat
<1>1. Total(Big) \in Nat /\ Big \in Side /\ Small \in Side
  BY Sides
<1>2. seen[Small] \subseteq Row
  BY <1>1 DEF KeyedType
<1>3. KeysOf(seen[Small]) \subseteq Keys
  BY <1>2 DEF KeysOf, Row
<1>4. KeysOf(seen[Small]) \cap KeysOf(seen[Big]) \in SUBSET Keys
  BY <1>3
<1>5. Cardinality(KeysOf(seen[Small]) \cap KeysOf(seen[Big])) \in Nat
  BY <1>4, KeyedAssumption, FS_Subset, FS_CardinalityType
<1> QED BY <1>1, <1>5 DEF Missing, LessOf

(* A page: the first keys ahead, and all of them when it is short. *)
LEMMA PageIsFirst ==
  ASSUME NEW ahead \in SUBSET Keys, NEW page, NEW n \in Nat \ {0}, IsFirst(page, ahead, n)
  PROVE  /\ page \subseteq ahead /\ page \subseteq Nat /\ IsFiniteSet(page)
         /\ page = {} => ahead = {}
         /\ Cardinality(page) < n => page = ahead
         /\ page # {} => /\ Max(page) \in page
                         /\ \A k \in page : k <= Max(page)
                         /\ \A k \in ahead : k <= Max(page) => k \in page
<1>1. /\ page \subseteq ahead /\ ahead \subseteq Nat
      /\ Cardinality(page) = Min({n, Cardinality(ahead)})
      /\ \A i \in page, j \in ahead \ page : i < j
  BY KeyedAssumption DEF IsFirst
<1>2. IsFiniteSet(ahead) /\ IsFiniteSet(page)
  BY <1>1, KeyedAssumption, FS_Subset
<1>3. Cardinality(ahead) \in Nat /\ Cardinality(page) \in Nat
  BY <1>2, FS_CardinalityType
<1>4. Cardinality(page) = IF n <= Cardinality(ahead) THEN n ELSE Cardinality(ahead)
  BY <1>1, <1>3, MinOfTwo
<1>5. Cardinality(page) < n => page = ahead
  <2>1. Cardinality(page) < n => Cardinality(page) = Cardinality(ahead)
    BY <1>3, <1>4
  <2> QED BY <1>1, <1>2, <2>1, FS_Subset
<1>6. page = {} => ahead = {}
  <2>1. page = {} => Cardinality(page) = 0
    BY FS_EmptySet
  <2> QED BY <1>5, <2>1
<1>7. page # {} => Max(page) \in page /\ \A k \in page : k <= Max(page)
  BY <1>1, <1>2, MaxOfNats
<1>8. ASSUME page # {}, NEW k \in ahead, k <= Max(page) PROVE k \in page
  <2>1. Max(page) \in Nat /\ k \in Nat
    BY <1>1, <1>7, <1>8
  <2> QED BY <1>1, <1>7, <1>8, <2>1
<1> QED BY <1>1, <1>2, <1>5, <1>6, <1>7, <1>8

-----------------------------------------------------------------------------
(* Types. *)

Actions == KeyedStep \/ MinusStep \/ JoinStep \/ Finish \/ Fail
AnyWrite == \E s \in Side, k \in Keys, r \in RowImage : Write(s, k, r)

LEMMA TypeInit == Init => KeyedType /\ Phase /\ Cursors
<1> SUFFICES ASSUME Init PROVE KeyedType /\ Phase /\ Cursors
  OBVIOUS
<1>1. mode \in ModeType /\ tab \in Pair
  BY KeyedAssumption DEF Init, Pair
<1>2. pc \in Opening \cup {"count", "join"}
  BY <1>1 DEF Init, KeyedStart, ModeType, Opening
<1>3. KeyedType
  BY <1>1, <1>2 DEF Init, KeyedType, Both, Opening, Counting, Joining, Ended, AtMostOne
<1>4. pc = "join" => mode.way = "join"
  BY <1>1 DEF Init, KeyedStart, ModeType
<1>5. Phase
  BY <1>2, <1>4 DEF Init, Phase, Both, Opening, Counting, Joining, Ended
<1>6. Cursors
  BY <1>2 DEF Init, Cursors, Both, Opening, RowSet
<1> QED BY <1>3, <1>5, <1>6

LEMMA CountRowsType ==
  ASSUME KeyedType, NEW s \in Side, CountRows(s)
  PROVE  total' \in [Side -> SUBSET Nat] /\ \A z \in Side : AtMostOne(total'[z])
<1>1. Cardinality(Rows(s)) \in Nat
  BY ViewTable, RowSetSize
<1> QED BY <1>1 DEF CountRows, KeyedType, AtMostOne

LEMMA SumsType ==
  ASSUME KeyedType, NEW s \in Side, sums' = [sums EXCEPT ![s] = {Rows(s)}]
  PROVE  sums' \in [Side -> SUBSET RowSet] /\ \A z \in Side : AtMostOne(sums'[z])
BY ViewTable DEF KeyedType, AtMostOne

LEMMA MergingType ==
  ASSUME NEW ks \in SUBSET Keys, NEW rows \in [Side -> Nat], NEW skip, Merging(ks, rows, skip)
  PROVE  /\ scope' \in SUBSET Keys /\ expected' \in [Side -> Nat]
         /\ seen' \in [Side -> SUBSET Row] /\ pos' \in [Side -> Nat]
         /\ exhausted' \in [Side -> BOOLEAN]
BY DEF Merging, Both

LEMMA FetchPageType ==
  ASSUME KeyedType, NEW s \in Side, FetchPage(s)
  PROVE  /\ seen' \in [Side -> SUBSET Row] /\ pos' \in [Side -> Nat]
         /\ exhausted' \in [Side -> BOOLEAN]
<1> DEFINE ahead == {k \in scope : k > pos[s] /\ View(s)[k] # Absent}
<1>1. PICK page \in SUBSET ahead :
        /\ IsFirst(page, ahead, PageSize)
        /\ seen' = [seen EXCEPT ![s] = @ \cup RowsOf(View(s), page)]
        /\ pos' = [pos EXCEPT ![s] = IF page = {} THEN @ ELSE Max(page)]
        /\ exhausted' = [exhausted EXCEPT ![s] = Cardinality(page) < PageSize]
  BY DEF FetchPage
<1>2. ahead \in SUBSET Keys /\ PageSize \in Nat \ {0}
  BY KeyedAssumption DEF KeyedType
<1>3. page \subseteq Keys /\ (page # {} => Max(page) \in Nat)
  BY <1>1, <1>2, PageIsFirst, KeyedAssumption
<1>4. RowsOf(View(s), page) \subseteq Row
  BY <1>3, ViewTable, RowsOfSet DEF RowSet
<1> QED BY <1>1, <1>3, <1>4 DEF KeyedType

LEMMA TypeStep ==
  ASSUME KeyedType, Phase, [Next]_vars
  PROVE  KeyedType'
<1> USE DEF Opening, Counting, Joining, Ended
<1>1. ASSUME NEW s \in Side, OpenSnapshot(s) PROVE KeyedType'
  BY <1>1 DEF OpenSnapshot, KeyedType, Pair, AtMostOne, env, merge, cursors, result
<1>2. ASSUME NEW s \in Side, KeyedCount(s) \/ MinusCount(s) \/ JoinCount(s) PROVE KeyedType'
  BY <1>2, CountRowsType
     DEF KeyedCount, MinusCount, JoinCount, CountRows, KeyedType, env, view, merge, cursors, result
<1>3. ASSUME NEW s \in Side, BatchChecksum(s) \/ MinusSum(s) PROVE KeyedType'
  BY <1>3, SumsType DEF BatchChecksum, MinusSum, KeyedType, env, view, merge, cursors, result
<1>4. ASSUME NEW s \in Side, FetchPage(s) PROVE KeyedType'
  BY <1>4, FetchPageType DEF FetchPage, KeyedType, env, view, result
<1>5. CASE ReadAll \/ ReadSmall
  <2>1. [s \in Side |-> Total(s)] \in [Side -> Nat]
    BY <1>5, Sides DEF ReadAll, ReadSmall, Counted
  <2> QED BY <1>5, <2>1, MergingType DEF ReadAll, ReadSmall, KeyedType, env, view, result
<1>6. CASE SharedScan \/ NextBucket
  <2>1. Summed
    BY <1>6 DEF SharedScan, NextBucket, Phase
  <2>2. UNION {KeysIn(b) : b \in DiffBuckets} \in SUBSET Keys /\ KeysIn(Min(todo)) \in SUBSET Keys
    BY DEF KeysIn
  <2> QED BY <1>6, <2>1, <2>2, MergingType, CountOfType
          DEF SharedScan, NextBucket, KeyedType, env, view, result
<1>7. CASE BucketByBucket
  <2>1. DiffBuckets \subseteq Nat
    BY <1>7, DiffBucketNumbers DEF BucketByBucket, Phase
  <2> QED BY <1>7, <2>1 DEF BucketByBucket, KeyedType, env, view, merge, cursors, result
<1>8. CASE PointQuery
  <2> DEFINE rest == KeysOf(seen[Small]) \ asked
  <2>1. PICK ks \in SUBSET rest : /\ asked' = asked \cup ks
                                  /\ seen' = [seen EXCEPT ![Big] = @ \cup RowsOf(View(Big), ks)]
    BY <1>8 DEF PointQuery
  <2>2. Small \in Side /\ Big \in Side
    BY <1>8, Sides DEF PointQuery, Phase
  <2>3. ks \in SUBSET Keys
    BY <2>2 DEF KeyedType, KeysOf, Row
  <2>4. RowsOf(View(Big), ks) \subseteq Row
    BY <2>2, <2>3, ViewTable, RowsOfSet DEF RowSet
  <2>5. asked' \in SUBSET Keys /\ seen' \in [Side -> SUBSET Row]
    BY <2>1, <2>2, <2>3, <2>4 DEF KeyedType
  <2> QED BY <1>8, <2>5 DEF PointQuery, KeyedType, env, view, result
<1>9. CASE MergeHits
  <2>1. Missing \in Nat
    BY <1>9, MissingNat DEF MergeHits, Phase
  <2> QED BY <1>9, <2>1 DEF MergeHits, KeyedType, env, view, merge, cursors
<1>10. CASE FallBack /\ (Unsupported \/ OverCells)
  BY <1>10 DEF FallBack, KeyedStart, KeyedType, Both, AtMostOne, env, merge, cursors, result
<1>11. CASE Anchor
  BY <1>11 DEF Anchor, KeyedType, Pair, AtMostOne, env, merge, cursors, result
<1>12. CASE MinusEqual \/ MinusDiffer
  <2>1. Recounted \in [Side -> SUBSET Nat] /\ \A s \in Side : AtMostOne(Recounted[s])
    <3>1. \A s \in Side : Cardinality(Sum(s)) \in Nat
      BY <1>12, SumIs, RowSetSize DEF MinusEqual, MinusDiffer, Summed
    <3> QED BY <3>1 DEF Recounted, AtMostOne
  <2> QED BY <1>12, <2>1
          DEF MinusEqual, MinusDiffer, Report, KeyedType, env, view, merge, cursors
<1>13. CASE CountOneSide
  <2>1. Larger \in Nat
    BY <1>13, Sides DEF CountOneSide, Phase
  <2> QED BY <1>13, <2>1 DEF CountOneSide, KeyedType, env, view, merge, cursors
<1>14. CASE Finish \/ Fail
  BY <1>14 DEF Finish, Fail, KeyedType, Both, AtMostOne, env, merge, cursors
<1>15. ASSUME NEW s \in Side, NEW k \in Keys, NEW r \in RowImage, Write(s, k, r) PROVE KeyedType'
  BY <1>15 DEF Write, KeyedType, Pair, Table, view, merge, cursors, result
<1>16. CASE \/ BothEmpty \/ ChecksumBuckets \/ BucketsAgree \/ BucketsDone \/ Merged \/ SmallRead
            \/ Supported \/ MinusNothing \/ ReadOneSide \/ SetDifference \/ OuterJoin
  BY <1>16 DEF BothEmpty, ChecksumBuckets, BucketsAgree, BucketsDone, Merged, SmallRead,
       Supported, MinusNothing, ReadOneSide, SetDifference, OuterJoin, Report, FetchMismatch,
       KeyedType, env, view, merge, cursors, result
<1>17. CASE UNCHANGED vars
  BY <1>17 DEF vars, KeyedType, env, view, merge, cursors, result
<1> QED BY <1>1, <1>2, <1>3, <1>4, <1>5, <1>6, <1>7, <1>8, <1>9, <1>10, <1>11, <1>12, <1>13,
           <1>14, <1>15, <1>16, <1>17
        DEF Next, KeyedStep, MinusStep, JoinStep, Unsupported, OverCells

LEMMA SameTotals ==
  ASSUME UNCHANGED total
  PROVE  /\ UNCHANGED <<Larger, Smaller, Big, Small, OverBudget, Buckets>>
         /\ \A s \in Side : UNCHANGED Total(s)
BY DEF Larger, Smaller, Big, Small, OverBudget, Buckets, Total, Side

LEMMA PhaseStep ==
  ASSUME KeyedType, Phase, Cursors, [Next]_vars
  PROVE  Phase'
<1> USE DEF Opening, Counting, Joining, Ended
<1>1. ASSUME NEW s \in Side, OpenSnapshot(s) PROVE Phase'
  BY <1>1 DEF OpenSnapshot, Phase, Side, env, merge, cursors, result
<1>2. ASSUME NEW s \in Side, KeyedCount(s) PROVE Phase'
  BY <1>2 DEF KeyedCount, CountRows, Phase, Side, env, view, merge, cursors, result
<1>3. ASSUME NEW s \in Side, MinusCount(s) \/ JoinCount(s) PROVE Phase'
  BY <1>3 DEF MinusCount, JoinCount, CountRows, KeyedType, Phase, Side, env, view, merge, cursors,
              result
<1>4. ASSUME NEW s \in Side, BatchChecksum(s) \/ MinusSum(s) PROVE Phase'
  BY <1>4, SameTotals DEF BatchChecksum, MinusSum, Phase, env, view, merge, cursors, result
<1>5. CASE ReadAll \/ ReadSmall
  BY <1>5, SameTotals DEF ReadAll, ReadSmall, Counted, Phase, Side, env, view, result
<1>6. CASE SharedScan \/ NextBucket \/ BucketByBucket
  BY <1>6, SameTotals DEF SharedScan, NextBucket, BucketByBucket, Summed, Phase, env, view, merge,
                          cursors, result
<1>7. CASE ChecksumBuckets
  <2>1. Larger > 0
    BY <1>7, Sides, KeyedAssumption DEF ChecksumBuckets, Counted, PathOf
  <2> QED BY <1>7, <2>1, SameTotals DEF ChecksumBuckets, Counted, Phase, Side, env, view, merge,
                                        cursors, result
<1>8. ASSUME UNCHANGED pc, UNCHANGED <<total, sums, path, missingBig, found, warned, mode, exit>>,
             pc \notin {"hits"} \cup Ended => UNCHANGED asked
      PROVE  Phase'
  BY <1>8, SameTotals DEF Phase, Summed
<1>9. CASE (\E s \in Side : FetchPage(s)) \/ PointQuery
  BY <1>8, <1>9 DEF FetchPage, PointQuery, env, view, result
<1>10. CASE AnyWrite \/ UNCHANGED vars
  BY <1>8, <1>10 DEF AnyWrite, Write, vars, env, view, merge, cursors, result
<1>11. CASE FallBack /\ (Unsupported \/ OverCells)
  BY <1>11 DEF FallBack, Unsupported, OverCells, KeyedStart, KeyedType, Both, Phase, env, merge,
               cursors, result
<1>12. CASE Anchor \/ Supported
  BY <1>12 DEF Anchor, Supported, Both, Phase, Side, env, view, merge, cursors, result
<1>13. CASE Merged
  BY <1>13, SameTotals DEF Merged, Summed, Phase, env, view, merge, cursors
<1>18. CASE SmallRead
  BY <1>18, SameTotals DEF SmallRead, Phase, env, view, merge, cursors
<1>19. CASE BucketsDone \/ BucketsAgree \/ BothEmpty
  BY <1>19, SameTotals DEF BucketsDone, BucketsAgree, BothEmpty, Counted, Phase, env, view, merge,
     cursors, result
<1>20. CASE MergeHits
  BY <1>20 DEF MergeHits, Phase, env, view, merge, cursors
<1>14. CASE MinusDiffer
  <2>1. \A s \in Side : total'[s] # {}
    BY <1>14 DEF MinusDiffer, Recounted
  <2> QED BY <1>14, <2>1 DEF MinusDiffer, Phase, env, view, merge, cursors, result
<1>15. CASE MinusEqual \/ CountOneSide \/ MinusNothing \/ ReadOneSide \/ SetDifference
  BY <1>15 DEF MinusEqual, CountOneSide, MinusNothing, ReadOneSide, SetDifference, Report,
               Phase, env, view, merge, cursors, result
<1>16. CASE OuterJoin
  BY <1>16 DEF OuterJoin, Phase, env, view, merge, cursors, result
<1>17. CASE Finish \/ Fail
  BY <1>17 DEF Finish, Fail, Phase, env, merge, cursors
<1> QED BY <1>1, <1>2, <1>3, <1>4, <1>5, <1>6, <1>7, <1>9, <1>10, <1>11, <1>12, <1>13,
           <1>14, <1>15, <1>16, <1>17, <1>18, <1>19, <1>20
        DEF Next, KeyedStep, MinusStep, JoinStep, Unsupported, OverCells, AnyWrite

-----------------------------------------------------------------------------
(* Cursors. *)

(* Page ps of side s, read through its view, takes the cursor to its end.  *)
PageRead(s, ps) ==
  /\ ps \in SUBSET scope /\ ~exhausted[s]
  /\ seen' = [seen EXCEPT ![s] = @ \cup RowsOf(View(s), ps)]
  /\ \A k \in ps : k > pos[s] /\ k <= pos'[s] /\ View(s)[k] # Absent
  /\ pos[s] <= pos'[s]
  /\ \A k \in scope : k > pos[s] /\ View(s)[k] # Absent /\ (exhausted'[s] \/ k <= pos'[s])
                        => k \in ps
  /\ \A z \in Side : z # s => pos'[z] = pos[z] /\ exhausted'[z] = exhausted[z]
  /\ pc \in {"merge", "small"}
  /\ UNCHANGED <<env, view, pc, total, sums, path, todo, scope, expected, asked, result>>

LEMMA FetchReads ==
  ASSUME KeyedType, NEW s \in Side, FetchPage(s)
  PROVE  \E ps : PageRead(s, ps)
<1> DEFINE ahead == {k \in scope : k > pos[s] /\ View(s)[k] # Absent}
<1>1. PICK page \in SUBSET ahead :
        /\ IsFirst(page, ahead, PageSize)
        /\ seen' = [seen EXCEPT ![s] = @ \cup RowsOf(View(s), page)]
        /\ pos' = [pos EXCEPT ![s] = IF page = {} THEN @ ELSE Max(page)]
        /\ exhausted' = [exhausted EXCEPT ![s] = Cardinality(page) < PageSize]
  BY DEF FetchPage
<1>2. ahead \in SUBSET Keys /\ PageSize \in Nat \ {0} /\ Keys \subseteq Nat /\ scope \subseteq Keys
  BY KeyedAssumption DEF KeyedType
<1>3. /\ page \subseteq ahead /\ page \subseteq Nat
      /\ page = {} => ahead = {}
      /\ Cardinality(page) < PageSize => page = ahead
      /\ page # {} => /\ Max(page) \in page /\ \A k \in page : k <= Max(page)
                      /\ \A k \in ahead : k <= Max(page) => k \in page
  BY <1>1, <1>2, PageIsFirst
<1>4. pos[s] \in Nat /\ pos'[s] = (IF page = {} THEN pos[s] ELSE Max(page))
      /\ exhausted'[s] = (Cardinality(page) < PageSize)
      /\ \A z \in Side : z # s => pos'[z] = pos[z] /\ exhausted'[z] = exhausted[z]
  BY <1>1 DEF KeyedType
<1>5. \A k \in page : k > pos[s] /\ View(s)[k] # Absent
  BY <1>3
<1>6. \A k \in page : k <= pos'[s]
  BY <1>3, <1>4
<1>7. pos[s] <= pos'[s]
  <2>1. CASE page = {}
    BY <1>4, <2>1
  <2>2. CASE page # {}
    <3>1. Max(page) \in Nat /\ pos[s] < Max(page)
      BY <1>3, <1>5, <2>2
    <3> HIDE DEF ahead
    <3> QED BY <1>4, <2>2, <3>1
  <2> QED BY <2>1, <2>2
<1>8. ASSUME NEW k \in scope, k > pos[s], View(s)[k] # Absent, exhausted'[s] \/ k <= pos'[s]
      PROVE  k \in page
  <2>1. k \in ahead
    BY <1>8
  <2> QED BY <1>3, <1>4, <1>8, <2>1
<1>9. page \in SUBSET scope
  BY <1>3
<1>10. PageRead(s, page)
  BY <1>1, <1>4, <1>5, <1>6, <1>7, <1>8, <1>9 DEF PageRead, FetchPage, Starved
<1> QED BY <1>10

(* Rows under other keys may be added to a set that has no key twice. *)
LEMMA AddRows ==
  ASSUME NEW R \in RowSet, NEW Q \in RowSet, \A r \in R, q \in Q : r[1] # q[1]
  PROVE  R \cup Q \in RowSet
BY DEF RowSet

LEMMA SamePath ==
  ASSUME UNCHANGED <<mode, total>>
  PROVE  UNCHANGED PathOf
BY SameTotals DEF PathOf, IsSkewed

LEMMA FetchCursors ==
  ASSUME KeyedType, Phase, Cursors, NEW s \in Side, FetchPage(s)
  PROVE  Cursors'
<1>1. PICK ps : PageRead(s, ps)
  BY FetchReads
<1>2. ps \in SUBSET Keys /\ View(s) \in Table /\ \A k \in Keys : k \in Nat
  BY <1>1, ViewTable, KeyedAssumption DEF PageRead, KeyedType
<1> DEFINE Q == RowsOf(View(s), ps)
<1>3. Q \in RowSet /\ \A q \in Q : q[1] \in ps
  <2>1. Q \in RowSet /\ KeysOf(Q) = {k \in ps : View(s)[k] # Absent}
    BY <1>2, RowsOfSet
  <2> QED BY <2>1 DEF KeysOf
<1> HIDE DEF Q
<1>4. /\ seen[s] \in RowSet /\ pos[s] \in Nat /\ pos'[s] \in Nat
      /\ \A r \in seen[s] : r[1] \in scope /\ r[1] <= pos[s] /\ r[1] \in Nat
  <2>1. pos' \in [Side -> Nat]
    BY FetchPageType
  <2> QED BY <1>1, <1>2, <2>1 DEF PageRead, Cursors, KeyedType
<1>5. \A z \in Side : seen'[z] = IF z = s THEN seen[z] \cup Q ELSE seen[z]
  BY <1>1 DEF PageRead, KeyedType, Q
<1>6. seen[s] \cup Q \in RowSet
  <2>1. \A r \in seen[s], q \in Q : r[1] # q[1]
    BY <1>1, <1>2, <1>3, <1>4 DEF PageRead
  <2> QED BY <1>3, <1>4, <2>1, AddRows
<1>7. \A z \in Side : seen'[z] \in RowSet
  BY <1>5, <1>6 DEF Cursors
<1>8. ASSUME NEW z \in Side, NEW r \in seen'[z] PROVE r[1] \in scope' /\ r[1] <= pos'[z]
  <2>1. scope' = scope /\ pc \in {"merge", "small"} /\ ps \subseteq scope
        /\ (z # s => pos'[z] = pos[z]) /\ pos[s] <= pos'[s] /\ \A k \in ps : k <= pos'[s]
    BY <1>1 DEF PageRead
  <2>2. CASE z = s /\ r \in Q
    BY <1>3, <2>1, <2>2
  <2>3. CASE z = s /\ r \in seen[s]
    BY <1>4, <2>1, <2>3
  <2>4. CASE z # s
    BY <1>5, <2>1, <2>4 DEF Cursors
  <2> QED BY <1>5, <2>2, <2>3, <2>4
<1>9. ASSUME pc = "small"
      PROVE  /\ scope' = Keys /\ exhausted'[Big'] /\ PathOf' = "point" /\ expected'[Small'] = Total(Small)'
             /\ KeysOf(seen'[Big']) \subseteq asked' /\ asked' \subseteq KeysOf(seen'[Small'])
  <2>1. UNCHANGED <<total, mode, scope, expected, asked>> /\ ~exhausted[s]
    BY <1>1 DEF PageRead, env
  <2>2. Big' = Big /\ Small' = Small /\ Total(Small)' = Total(Small) /\ PathOf' = PathOf
    BY <2>1, SameTotals, SamePath DEF Total
  <2>3. /\ scope = Keys /\ exhausted[Big] /\ PathOf = "point" /\ expected[Small] = Total(Small)
        /\ KeysOf(seen[Big]) \subseteq asked /\ asked = {}
    BY <1>9 DEF Cursors, Phase, Ended
  <2>4. s # Big /\ Big \in Side
    BY <1>9, <2>1, <2>3, Sides DEF Phase
  <2>5. exhausted'[Big] = exhausted[Big] /\ seen'[Big] = seen[Big]
    BY <1>1, <1>5, <2>4 DEF PageRead
  <2> QED BY <2>1, <2>2, <2>3, <2>5
<1>10. pc' = pc /\ pc \in {"merge", "small"}
  BY <1>1 DEF PageRead
<1> QED BY <1>7, <1>8, <1>9, <1>10 DEF Cursors

LEMMA PointQueryReads ==
  ASSUME KeyedType, Phase, PointQuery
  PROVE  \E ks \in SUBSET (KeysOf(seen[Small]) \ asked) :
           /\ ks \in SUBSET Keys /\ asked' = asked \cup ks
           /\ \A z \in Side :
                seen'[z] = IF z = Big THEN seen[z] \cup RowsOf(View(z), ks) ELSE seen[z]
<1>1. PICK ks \in SUBSET (KeysOf(seen[Small]) \ asked) :
        /\ asked' = asked \cup ks
        /\ seen' = [seen EXCEPT ![Big] = @ \cup RowsOf(View(Big), ks)]
  BY DEF PointQuery
<1>2. Small \in Side /\ Big \in Side
  BY Sides DEF PointQuery, Phase
<1>3. ks \in SUBSET Keys
  BY <1>2 DEF KeyedType, KeysOf, Row
<1> QED BY <1>1, <1>2, <1>3 DEF KeyedType

LEMMA PointQueryCursors ==
  ASSUME KeyedType, Phase, Cursors, PointQuery
  PROVE  Cursors'
<1>1. PICK ks \in SUBSET (KeysOf(seen[Small]) \ asked) :
        /\ ks \in SUBSET Keys /\ asked' = asked \cup ks
        /\ \A z \in Side : seen'[z] = IF z = Big THEN seen[z] \cup RowsOf(View(z), ks) ELSE seen[z]
  BY PointQueryReads
<1>2. /\ UNCHANGED <<total, mode, scope, expected, exhausted, warned, pc>> /\ pc = "hits"
      /\ \A s \in Side : total[s] # {}
  BY DEF PointQuery, Phase, env, result
<1>3. Small \in Side /\ Big \in Side /\ Small # Big
  BY <1>2, Sides
<1>4. /\ Big' = Big /\ Small' = Small /\ Total(Small)' = Total(Small) /\ PathOf' = PathOf
  BY <1>2, SameTotals, SamePath DEF Total
<1> DEFINE Q == RowsOf(View(Big), ks)
<1>5. Q \in RowSet /\ KeysOf(Q) \subseteq ks
  BY <1>1, <1>3, ViewTable, RowsOfSet
<1> HIDE DEF Q
<1>6. seen'[Big] = seen[Big] \cup Q /\ seen'[Small] = seen[Small]
  BY <1>1, <1>3 DEF Q
<1>7. KeysOf(seen[Big]) \subseteq asked
  BY <1>2 DEF Cursors
<1>8. \A s \in Side : seen'[s] \in RowSet
  <2>1. seen[Big] \in RowSet /\ seen[Small] \in RowSet
    BY <1>3 DEF Cursors
  <2>2. \A r \in seen[Big], q \in Q : r[1] # q[1]
    BY <1>1, <1>5, <1>7 DEF KeysOf
  <2>3. seen[Big] \cup Q \in RowSet
    BY <1>5, <2>1, <2>2, AddRows
  <2> QED BY <1>1, <1>6, <2>3 DEF Cursors
<1>9. KeysOf(seen'[Big]) \subseteq asked'
  BY <1>1, <1>5, <1>6, <1>7 DEF KeysOf
<1>10. asked' \subseteq KeysOf(seen'[Small])
  BY <1>1, <1>2, <1>6 DEF Cursors
<1>11. /\ scope = Keys /\ exhausted[Big] /\ PathOf = "point" /\ expected[Small] = Total(Small)
       /\ exhausted = Both(TRUE) /\ (warned \/ Fetched(Small) = expected[Small])
  BY <1>2 DEF Cursors
<1>12. Fetched(Small)' = Fetched(Small)
  BY <1>4, <1>6 DEF Fetched
<1> QED BY <1>2, <1>4, <1>8, <1>9, <1>10, <1>11, <1>12 DEF Cursors, Both

LEMMA CursorsStep ==
  ASSUME KeyedType, Phase, Cursors, [Next]_vars
  PROVE  Cursors'
<1>1. ASSUME NEW s \in Side, FetchPage(s) PROVE Cursors'
  BY <1>1, FetchCursors
<1>2. CASE PointQuery
  BY <1>2, PointQueryCursors
<1>3. CASE ReadAll \/ SharedScan \/ NextBucket
  <2>1. \A s \in Side : seen'[s] = {}
    BY <1>3 DEF ReadAll, SharedScan, NextBucket, Merging, Both
  <2>2. pc' = "merge" /\ {} \in RowSet
    BY <1>3 DEF ReadAll, SharedScan, NextBucket, RowSet
  <2> QED BY <2>1, <2>2 DEF Cursors
<1>4. CASE ReadSmall
  <2>1. /\ \A s \in Side : seen'[s] = {} /\ expected'[s] = Total(s)
        /\ \A s \in Side : exhausted'[s] <=> s = Big
        /\ scope' = Keys
    BY <1>4 DEF ReadSmall, Merging, Both
  <2>2. pc' = "small" /\ {} \in RowSet /\ KeysOf({}) = {} /\ asked' = {} /\ PathOf = "point"
    BY <1>4 DEF ReadSmall, RowSet, KeysOf, Counted, Phase, Counting, Ended
  <2>3. UNCHANGED <<Big, Small, PathOf>> /\ Big \in Side /\ Small \in Side
        /\ Total(Small)' = Total(Small)
    BY <1>4, SameTotals, SamePath, Sides DEF ReadSmall, Counted, env, Total
  <2> QED BY <2>1, <2>2, <2>3 DEF Cursors
<1>5. CASE SmallRead
  <2>1. /\ UNCHANGED <<total, mode, scope, expected, seen, exhausted, asked>> /\ pc' = "hits"
        /\ pc = "small" /\ exhausted = Both(TRUE) /\ warned' = (warned \/ Fetched(Small) # expected[Small])
    BY <1>5 DEF SmallRead, env, merge, cursors
  <2>2. UNCHANGED <<Big, Small, PathOf>> /\ Total(Small)' = Total(Small) /\ Fetched(Small)' = Fetched(Small)
    BY <2>1, SameTotals, SamePath DEF Total, Fetched
  <2> QED BY <2>1, <2>2 DEF Cursors, Both
<1>6. ASSUME UNCHANGED <<pc, total, mode, scope, expected, seen, pos, exhausted, asked, warned>>
      PROVE  Cursors'
  <2>1. UNCHANGED <<Big, Small, PathOf>> /\ Total(Small)' = Total(Small) /\ Fetched(Small)' = Fetched(Small)
    BY <1>6, SameTotals, SamePath DEF Total, Fetched
  <2> QED BY <1>6, <2>1 DEF Cursors, Both
<1>7. CASE AnyWrite \/ UNCHANGED vars
  BY <1>6, <1>7 DEF AnyWrite, Write, vars, env, view, merge, cursors, result
<1>8. ASSUME UNCHANGED seen, pc' \notin {"merge", "small", "hits"} PROVE Cursors'
  BY <1>8 DEF Cursors
<1>9. ASSUME NEW s \in Side, OpenSnapshot(s) \/ KeyedCount(s) \/ BatchChecksum(s) \/ MinusCount(s)
                             \/ MinusSum(s) \/ JoinCount(s)
      PROVE  Cursors'
  BY <1>8, <1>9 DEF OpenSnapshot, KeyedCount, CountRows, BatchChecksum, MinusCount, MinusSum,
     JoinCount,
                    merge, cursors
<1>10. CASE \/ BothEmpty \/ ChecksumBuckets \/ BucketsAgree \/ BucketByBucket \/ BucketsDone \/ Merged
            \/ MergeHits \/ Supported \/ Unsupported \/ Anchor \/ OverCells
  BY <1>8, <1>10 DEF BothEmpty, ChecksumBuckets, BucketsAgree, BucketByBucket, BucketsDone, Merged,
       MergeHits, Supported, Unsupported, Anchor, OverCells, FallBack, KeyedStart, merge, cursors
<1>11. CASE \/ MinusNothing \/ CountOneSide \/ ReadOneSide \/ MinusEqual \/ MinusDiffer \/ SetDifference
            \/ OuterJoin \/ Finish \/ Fail
  BY <1>8, <1>11 DEF MinusNothing, CountOneSide, ReadOneSide, MinusEqual, MinusDiffer,
     SetDifference,
       OuterJoin, Report, Finish, Fail, merge, cursors
<1> QED BY <1>1, <1>2, <1>3, <1>4, <1>5, <1>7, <1>9, <1>10, <1>11
        DEF Next, KeyedStep, MinusStep, JoinStep, AnyWrite

-----------------------------------------------------------------------------
(* What sets of rows tell of the tables T. *)

LEMMA RowsOfTell ==
  ASSUME NEW t \in Table, NEW u, NEW ks \in SUBSET Keys, NEW H, \A k \in ks \ H : u[k] = t[k]
  PROVE  Tells(RowsOf(t, ks), u, ks, H)
<1> SUFFICES ASSUME NEW r \in Row, r[1] \notin H
             PROVE  r \in RowsOf(t, ks) <=> r[1] \in ks /\ u[r[1]] = r[2]
  BY DEF Tells
<1>1. r = <<r[1], r[2]>> /\ r[1] \in Keys /\ r[2] \in Values /\ r[2] # Absent
  BY KeyedAssumption DEF Row
<1>2. r \in RowsOf(t, ks) <=> r[1] \in ks /\ t[r[1]] = r[2]
  BY <1>1 DEF RowsOf
<1> QED BY <1>2

LEMMA TellsAgree ==
  ASSUME NEW R, NEW t \in Table, NEW u \in Table, NEW ks \in SUBSET Keys, NEW H,
         Tells(R, t, ks, H), Tells(R, u, ks, H)
  PROVE  \A k \in ks \ H : t[k] = u[k]
<1> SUFFICES ASSUME NEW k \in ks \ H PROVE t[k] = u[k]
  OBVIOUS
<1>1. \A v \in Values : <<k, v>> \in Row /\ <<k, v>>[1] = k /\ <<k, v>>[2] = v
  BY DEF Row
<1>2. \A v \in Values : t[k] = v <=> u[k] = v
  BY <1>1 DEF Tells
<1>3. t[k] \in Values \cup {Absent} /\ u[k] \in Values \cup {Absent}
  BY DEF Table, RowImage
<1> QED BY <1>2, <1>3

LEMMA TellsKeys ==
  ASSUME NEW R \in SUBSET Row, NEW t \in Table, NEW ks \in SUBSET Keys, NEW H, Tells(R, t, ks, H)
  PROVE  \A k \in Keys \ H : k \in KeysOf(R) <=> k \in ks /\ t[k] # Absent
<1> SUFFICES ASSUME NEW k \in Keys \ H PROVE k \in KeysOf(R) <=> k \in ks /\ t[k] # Absent
  OBVIOUS
<1>1. ASSUME k \in KeysOf(R) PROVE k \in ks /\ t[k] # Absent
  <2>1. PICK r \in R : r[1] = k
    BY <1>1 DEF KeysOf
  <2>2. r \in Row /\ r[2] # Absent
    BY KeyedAssumption DEF Row
  <2> QED BY <2>1, <2>2 DEF Tells
<1>2. ASSUME k \in ks, t[k] # Absent PROVE k \in KeysOf(R)
  <2>1. t[k] \in Values
    BY <1>2 DEF Table, RowImage
  <2>2. <<k, t[k]>> \in Row /\ <<k, t[k]>>[1] = k /\ <<k, t[k]>>[2] = t[k]
    BY <2>1 DEF Row
  <2>3. <<k, t[k]>> \in R
    BY <1>2, <2>2 DEF Tells
  <2> QED BY <2>2, <2>3 DEF KeysOf
<1> QED BY <1>1, <1>2

LEMMA KeysPositive == \A k \in Keys : ~(k <= 0)
<1>1. ASSUME NEW k \in Keys PROVE k \in Nat \ {0}
  BY KeyedAssumption
<1>2. ASSUME NEW k \in Nat \ {0} PROVE ~(k <= 0)
  OBVIOUS
<1> QED BY <1>1, <1>2

LEMMA NothingTold ==
  ASSUME NEW t \in Table, NEW ks \in SUBSET Keys, NEW H
  PROVE  Tells({}, t, ks, H) <=> \A k \in ks \ H : t[k] = Absent
<1>1. ASSUME Tells({}, t, ks, H), NEW k \in ks \ H PROVE t[k] = Absent
  <2>1. KeysOf({}) = {} /\ {} \in SUBSET Row
    BY DEF KeysOf
  <2> QED BY <1>1, <2>1, TellsKeys
<1>2. ASSUME \A k \in ks \ H : t[k] = Absent PROVE Tells({}, t, ks, H)
  <2>1. \A r \in Row : r[2] # Absent
    BY KeyedAssumption DEF Row
  <2> QED BY <1>2, <2>1 DEF Tells
<1> QED BY <1>1, <1>2

(* Sets of rows that tell both tables of the same keys differ as the       *)
(* tables do.                                                              *)
LEMMA DiffRowsTell ==
  ASSUME NEW T \in Pair, NEW H, NEW ks \in SUBSET Keys, NEW l \in SUBSET Row, NEW r \in SUBSET Row,
         Tells(l, T["left"], ks, H), Tells(r, T["right"], ks, H)
  PROVE  /\ \A d \in DiffRows(l, r) :
              /\ d.key \in Keys
              /\ d.key \notin H => d.key \in ks /\ Differs(T, d.key) /\ d = DiffOf(T, d.key)
         /\ \A k \in ks \ H : Differs(T, k) => DiffOf(T, k) \in DiffRows(l, r)
<1> DEFINE a == T["left"]
           b == T["right"]
<1>1. a \in Table /\ b \in Table
  BY DEF Pair, Side
<1>2. Tells(l, a, ks, H) /\ Tells(r, b, ks, H)
  OBVIOUS
<1>3. \A k : Differs(T, k) <=> a[k] # b[k]
  BY DEF Differs
<1>4. \A k : DiffOf(T, k) = [key |-> k, status |-> IF b[k] = Absent THEN "missing_right"
                                ELSE IF a[k] = Absent THEN "missing_left" ELSE "modified"]
  BY DEF DiffOf
<1> HIDE DEF a, b
<1>5. \A k \in Keys \ H : /\ k \in KeysOf(l) <=> k \in ks /\ a[k] # Absent
                          /\ k \in KeysOf(r) <=> k \in ks /\ b[k] # Absent
  BY <1>1, <1>2, TellsKeys
<1>6. KeysOf(l) \subseteq Keys /\ KeysOf(r) \subseteq Keys /\ KeysOf(l \ r) \subseteq KeysOf(l)
  BY DEF KeysOf, Row
<1>7. \A k \in Keys \ H : k \in KeysOf(l \ r) <=> k \in ks /\ a[k] # Absent /\ a[k] # b[k]
  <2> SUFFICES ASSUME NEW k \in Keys \ H
               PROVE  k \in KeysOf(l \ r) <=> k \in ks /\ a[k] # Absent /\ a[k] # b[k]
    OBVIOUS
  <2>1. ASSUME k \in KeysOf(l \ r) PROVE k \in ks /\ a[k] # Absent /\ a[k] # b[k]
    <3>1. PICK q \in l \ r : q[1] = k
      BY <2>1 DEF KeysOf
    <3>2. q \in Row /\ q[2] # Absent
      BY KeyedAssumption DEF Row
    <3> QED BY <1>2, <3>1, <3>2 DEF Tells
  <2>2. ASSUME k \in ks, a[k] # Absent, a[k] # b[k] PROVE k \in KeysOf(l \ r)
    <3>1. a[k] \in Values
      BY <1>1, <2>2 DEF Table, RowImage
    <3>2. <<k, a[k]>> \in Row /\ <<k, a[k]>>[1] = k /\ <<k, a[k]>>[2] = a[k]
      BY <3>1 DEF Row
    <3>3. <<k, a[k]>> \in l /\ <<k, a[k]>> \notin r
      BY <1>2, <2>2, <3>2 DEF Tells
    <3> QED BY <3>2, <3>3 DEF KeysOf
  <2> QED BY <2>1, <2>2
<1> DEFINE mr == [key : KeysOf(l) \ KeysOf(r), status : {"missing_right"}]
           ml == [key : KeysOf(r) \ KeysOf(l), status : {"missing_left"}]
           mo == [key : KeysOf(l \ r) \cap KeysOf(r), status : {"modified"}]
<1>8. DiffRows(l, r) = mr \cup ml \cup mo
  BY DEF DiffRows
<1>9. ASSUME NEW d \in mr
      PROVE  /\ d.key \in Keys
             /\ d.key \notin H => d.key \in ks /\ Differs(T, d.key) /\ d = DiffOf(T, d.key)
  <2>1. d = [key |-> d.key, status |-> "missing_right"] /\ d.key \in KeysOf(l) \ KeysOf(r)
    OBVIOUS
  <2> HIDE DEF mr
  <2> QED BY <1>3, <1>4, <1>5, <1>6, <2>1
<1>10. ASSUME NEW d \in ml
       PROVE  /\ d.key \in Keys
              /\ d.key \notin H => d.key \in ks /\ Differs(T, d.key) /\ d = DiffOf(T, d.key)
  <2>1. d = [key |-> d.key, status |-> "missing_left"] /\ d.key \in KeysOf(r) \ KeysOf(l)
    OBVIOUS
  <2> HIDE DEF ml
  <2> QED BY <1>3, <1>4, <1>5, <1>6, <2>1
<1>11. ASSUME NEW d \in mo
       PROVE  /\ d.key \in Keys
              /\ d.key \notin H => d.key \in ks /\ Differs(T, d.key) /\ d = DiffOf(T, d.key)
  <2>1. d = [key |-> d.key, status |-> "modified"] /\ d.key \in KeysOf(l \ r) \cap KeysOf(r)
    OBVIOUS
  <2> HIDE DEF mo
  <2> QED BY <1>3, <1>4, <1>5, <1>6, <1>7, <2>1
<1>12. ASSUME NEW k \in ks \ H, Differs(T, k) PROVE DiffOf(T, k) \in mr \cup ml \cup mo
  <2>0. a[k] # b[k] /\ k \in Keys \ H
    BY <1>3, <1>12
  <2>1. CASE b[k] = Absent
    <3>1. DiffOf(T, k) = [key |-> k, status |-> "missing_right"] /\ k \in KeysOf(l) \ KeysOf(r)
      BY <1>4, <1>5, <2>0, <2>1
    <3> QED BY <3>1
  <2>2. CASE b[k] # Absent /\ a[k] = Absent
    <3>1. DiffOf(T, k) = [key |-> k, status |-> "missing_left"] /\ k \in KeysOf(r) \ KeysOf(l)
      BY <1>4, <1>5, <2>0, <2>2
    <3> QED BY <3>1
  <2>3. CASE b[k] # Absent /\ a[k] # Absent
    <3>1. DiffOf(T, k) = [key |-> k, status |-> "modified"] /\ k \in KeysOf(l \ r) \cap KeysOf(r)
      BY <1>4, <1>5, <1>7, <2>0, <2>3
    <3> QED BY <3>1
  <2> QED BY <2>1, <2>2, <2>3
<1> HIDE DEF mr, ml, mo
<1> QED BY <1>8, <1>9, <1>10, <1>11, <1>12

-----------------------------------------------------------------------------
(* A step of the comparison, with the tables T and the keys H fixed. *)

Shows(T, H) == \A s \in Side : \A k \in Keys \ H : View(s)[k] = T[s][k]

LEMMA ViewTells ==
  ASSUME KeyedType, NEW T \in Pair, NEW H, Shows(T, H), NEW s \in Side, NEW ks \in SUBSET Keys
  PROVE  Tells(RowsOf(View(s), ks), T[s], ks, H)
<1>1. View(s) \in Table /\ \A k \in ks \ H : T[s][k] = View(s)[k]
  BY ViewTable DEF Shows
<1> QED BY <1>1, RowsOfTell

LEMMA SumsStep ==
  ASSUME KeyedType, NEW T \in Pair, NEW H, Shows(T, H), SumsTell(T, H), Actions
  PROVE  SumsTell(T, H)'
<1>1. ASSUME NEW s \in Side, BatchChecksum(s) \/ MinusSum(s) PROVE SumsTell(T, H)'
  <2>1. sums' = [sums EXCEPT ![s] = {Rows(s)}]
    BY <1>1 DEF BatchChecksum, MinusSum
  <2>2. Tells(Rows(s), T[s], Keys, H)
    BY ViewTells DEF Rows
  <2> QED BY <2>1, <2>2 DEF SumsTell, KeyedType
<1>2. CASE UNCHANGED sums
  BY <1>2 DEF SumsTell
<1>3. (\E s \in Side : BatchChecksum(s) \/ MinusSum(s)) \/ UNCHANGED sums
  BY DEF Actions, KeyedStep, MinusStep, JoinStep, OpenSnapshot, KeyedCount, CountRows, FetchPage,
     BothEmpty, ReadAll, ReadSmall, ChecksumBuckets, BucketsAgree, SharedScan, BucketByBucket,
     NextBucket, BucketsDone, Merged, SmallRead, PointQuery, MergeHits, Supported, Unsupported,
     FallBack, Anchor, OverCells, MinusCount, MinusNothing, CountOneSide, ReadOneSide, Report,
     MinusEqual, MinusDiffer, SetDifference, OuterJoin, JoinCount, Finish, Fail
<1> QED BY <1>1, <1>2, <1>3

LEMMA EmptyRowsTell ==
  ASSUME NEW T \in Pair, NEW H, NEW s \in Side, NEW R \in RowSet, Tells(R, T[s], Keys, H),
         Cardinality(R) = 0
  PROVE  \A k \in Keys \ H : T[s][k] = Absent
<1>1. R = {}
  BY RowSetSize, FS_EmptySet
<1>2. T[s] \in Table
  BY DEF Pair
<1> QED BY <1>1, <1>2, NothingTold

LEMMA EmptyStep ==
  ASSUME KeyedType, NEW T \in Pair, NEW H, Shows(T, H), SumsTell(T, H), EmptyTell(T, H), Actions
  PROVE  EmptyTell(T, H)'
<1>1. ASSUME NEW s \in Side, CountRows(s) PROVE EmptyTell(T, H)'
  <2>1. total' = [total EXCEPT ![s] = {Cardinality(Rows(s))}]
    BY <1>1 DEF CountRows
  <2>2. Tells(Rows(s), T[s], Keys, H) /\ Rows(s) \in RowSet
    BY ViewTells, ViewTable DEF Rows
  <2>3. Cardinality(Rows(s)) = 0 => \A k \in Keys \ H : T[s][k] = Absent
    BY <2>2, EmptyRowsTell
  <2> QED BY <2>1, <2>3 DEF EmptyTell, KeyedType
<1>2. CASE MinusEqual \/ MinusDiffer
  <2>1. \A s \in Side : total'[s] = {Cardinality(Sum(s))} /\ sums[s] # {}
    BY <1>2 DEF MinusEqual, MinusDiffer, Recounted, Summed
  <2>2. ASSUME NEW s \in Side, Cardinality(Sum(s)) = 0 PROVE \A k \in Keys \ H : T[s][k] = Absent
    <3>1. Sum(s) \in RowSet /\ Sum(s) \in sums[s]
      BY <2>1, SumIs
    <3>2. Tells(Sum(s), T[s], Keys, H)
      BY <3>1 DEF SumsTell
    <3> QED BY <2>2, <3>1, <3>2, EmptyRowsTell
  <2> QED BY <2>1, <2>2 DEF EmptyTell
<1>3. CASE UNCHANGED total
  BY <1>3 DEF EmptyTell
<1>4. CASE total' = Both({})
  BY <1>4 DEF EmptyTell, Both
<1>5. (\E s \in Side : CountRows(s)) \/ MinusEqual \/ MinusDiffer \/ UNCHANGED total \/ total' = Both({})
  BY DEF Actions, KeyedStep, MinusStep, JoinStep, OpenSnapshot, KeyedCount, FetchPage,
     BatchChecksum, MinusSum,
     BothEmpty, ReadAll, ReadSmall, ChecksumBuckets, BucketsAgree, SharedScan, BucketByBucket,
     NextBucket, BucketsDone, Merged, SmallRead, PointQuery, MergeHits, Supported, Unsupported,
     FallBack, Anchor, OverCells, MinusCount, MinusNothing, CountOneSide, ReadOneSide,
     SetDifference, OuterJoin, JoinCount, Finish, Fail
<1> QED BY <1>1, <1>2, <1>3, <1>4, <1>5

(* Both sides of a merge that has begun tell nothing yet. *)
LEMMA MergeBegins ==
  ASSUME NEW T \in Pair, NEW H, NEW ks \in SUBSET Keys, NEW rows, NEW skip, Merging(ks, rows, skip),
         \A s \in skip : s \in Side => \A k \in Keys \ H : T[s][k] = Absent,
         path' # "point"
  PROVE  SeenTell(T, H)'
<1>1. ASSUME NEW s \in Side PROVE Tells(seen[s], T[s], Read(s), H)'
  <2>1. seen'[s] = {} /\ pos'[s] = 0 /\ (exhausted'[s] <=> s \in skip) /\ scope' = ks
    BY DEF Merging, Both
  <2>2. Read(s)' = {k \in ks : s \in skip \/ k <= 0}
    BY <2>1 DEF Read
  <2>3. Read(s)' = IF s \in skip THEN ks ELSE {}
    <3>1. \A k \in ks : ~(k <= 0)
      BY KeysPositive
    <3> QED BY <2>2, <3>1
  <2>4. T[s] \in Table /\ \A k \in Read(s)' \ H : T[s][k] = Absent
    BY <2>3 DEF Pair
  <2>5. Tells({}, T[s], Read(s)', H)
    <3>1. Read(s)' \in SUBSET Keys
      BY <2>3
    <3> QED BY <2>4, <3>1, NothingTold
  <2> QED BY <2>1, <2>5
<1> QED BY <1>1 DEF SeenTell

LEMMA FetchTells ==
  ASSUME KeyedType, Phase, Cursors, NEW T \in Pair, NEW H, Shows(T, H), SeenTell(T, H),
         NEW s \in Side, FetchPage(s)
  PROVE  SeenTell(T, H)'
<1>1. PICK ps : PageRead(s, ps)
  BY FetchReads
<1>2. /\ pc \in {"merge", "small"} /\ UNCHANGED <<pc, scope, path, asked, total>>
      /\ ps \in SUBSET scope /\ scope \in SUBSET Keys /\ ~exhausted[s] /\ Keys \subseteq Nat
      /\ pos[s] \in Nat /\ pos'[s] \in Nat /\ pos[s] <= pos'[s]
      /\ \A z \in Side : z # s => pos'[z] = pos[z] /\ exhausted'[z] = exhausted[z]
  <2>1. pos' \in [Side -> Nat]
    BY FetchPageType
  <2> QED BY <1>1, <2>1, KeyedAssumption DEF PageRead, KeyedType
<1>3. path = "point" => s # Big
  BY <1>2 DEF Phase, Cursors
<1>4. Big' = Big
  BY <1>2, SameTotals
<1>5. \A z \in Side : seen'[z] = IF z = s THEN seen[z] \cup RowsOf(View(z), ps) ELSE seen[z]
  BY <1>1 DEF PageRead, KeyedType
<1>6. ASSUME NEW z \in Side, z # s PROVE Tells(seen[z], T[z], Read(z), H)'
  <2>1. Read(z)' = Read(z) /\ seen'[z] = seen[z]
    BY <1>2, <1>4, <1>5, <1>6 DEF Read
  <2> QED BY <1>2, <2>1 DEF SeenTell
<1>7. Tells(seen[s], T[s], Read(s), H)'
  <2> DEFINE Q == RowsOf(View(s), ps)
             before == {k \in scope : k <= pos[s]}
             after == {k \in scope : exhausted'[s] \/ k <= pos'[s]}
  <2>1. Read(s) = before /\ Read(s)' = after
    BY <1>2, <1>3, <1>4 DEF Read
  <2>2. Tells(seen[s], T[s], before, H)
    BY <1>2, <2>1 DEF SeenTell
  <2>3. Tells(Q, T[s], ps, H)
    BY <1>2, ViewTells
  <2>4. /\ ps \subseteq after /\ before \subseteq after
        /\ \A k \in after : k \in before \/ k \in ps \/ View(s)[k] = Absent
    <3>1. /\ \A k \in ps : k > pos[s] /\ k <= pos'[s] /\ View(s)[k] # Absent
          /\ \A k \in scope : k > pos[s] /\ View(s)[k] # Absent /\ (exhausted'[s] \/ k <= pos'[s])
                                => k \in ps
      BY <1>1 DEF PageRead
    <3>2. scope \subseteq Nat
      BY <1>2
    <3>3. ps \subseteq after
      BY <1>2, <3>1
    <3>4. ASSUME NEW k \in scope, k <= pos[s] PROVE k <= pos'[s]
      <4> k \in Nat
        BY <3>2
      <4> QED BY <1>2, <3>4
    <3>5. ASSUME NEW k \in after, k \notin before PROVE k \in ps \/ View(s)[k] = Absent
      <4>1. k \in scope /\ k \in Nat /\ k > pos[s] /\ (exhausted'[s] \/ k <= pos'[s])
        BY <1>2, <3>2, <3>5
      <4> QED BY <3>1, <4>1
    <3> QED BY <3>3, <3>4, <3>5
  <2>5. \A k \in after \ H : View(s)[k] = T[s][k]
    BY <1>2 DEF Shows
  <2>6. seen'[s] = seen[s] \cup Q
    BY <1>5
  <2> HIDE DEF Q, before, after
  <2>7. Tells(seen'[s], T[s], after, H)
    <3> SUFFICES ASSUME NEW r \in Row, r[1] \notin H
                 PROVE  r \in seen[s] \/ r \in Q <=> r[1] \in after /\ T[s][r[1]] = r[2]
      BY <2>6 DEF Tells
    <3>1. r \in seen[s] <=> r[1] \in before /\ T[s][r[1]] = r[2]
      BY <2>2 DEF Tells
    <3>2. r \in Q <=> r[1] \in ps /\ T[s][r[1]] = r[2]
      BY <2>3 DEF Tells
    <3>3. r[2] # Absent
      BY KeyedAssumption DEF Row
    <3> QED BY <2>4, <2>5, <3>1, <3>2, <3>3
  <2> QED BY <2>1, <2>7
<1> QED BY <1>6, <1>7 DEF SeenTell

LEMMA PointQueryTells ==
  ASSUME KeyedType, Phase, Cursors, NEW T \in Pair, NEW H, Shows(T, H), SeenTell(T, H), PointQuery
  PROVE  SeenTell(T, H)'
<1>1. PICK ks \in SUBSET (KeysOf(seen[Small]) \ asked) :
        /\ ks \in SUBSET Keys /\ asked' = asked \cup ks
        /\ \A z \in Side : seen'[z] = IF z = Big THEN seen[z] \cup RowsOf(View(z), ks) ELSE seen[z]
  BY PointQueryReads
<1>2. /\ UNCHANGED <<total, scope, exhausted, path, pos>> /\ pc = "hits" /\ path = "point"
      /\ \A s \in Side : total[s] # {}
  BY DEF PointQuery, Phase, env
<1>3. Big' = Big /\ Big \in Side
  BY <1>2, Sides, SameTotals
<1>4. ASSUME NEW z \in Side, z # Big PROVE Tells(seen[z], T[z], Read(z), H)'
  <2>1. Read(z)' = Read(z) /\ seen'[z] = seen[z]
    BY <1>1, <1>2, <1>3, <1>4 DEF Read
  <2> QED BY <1>2, <2>1 DEF SeenTell
<1>5. ASSUME NEW z \in Side, z = Big PROVE Tells(seen[z], T[z], Read(z), H)'
  <2> DEFINE Q == RowsOf(View(z), ks)
  <2>1. Read(z) = asked /\ Read(z)' = asked \cup ks /\ seen'[z] = seen[z] \cup Q
    BY <1>1, <1>2, <1>3, <1>5 DEF Read
  <2>2. Tells(seen[z], T[z], asked, H)
    BY <1>2, <2>1 DEF SeenTell
  <2>3. Tells(Q, T[z], ks, H)
    BY <1>1, ViewTells
  <2> HIDE DEF Q
  <2>4. Tells(seen[z] \cup Q, T[z], asked \cup ks, H)
    BY <2>2, <2>3 DEF Tells
  <2> QED BY <2>1, <2>4
<1> QED BY <1>4, <1>5 DEF SeenTell

LEMMA SeenStep ==
  ASSUME KeyedType, Phase, Cursors, NEW T \in Pair, NEW H, Shows(T, H), EmptyTell(T, H),
         SeenTell(T, H), Actions
  PROVE  SeenTell(T, H)'
<1>1. ASSUME NEW s \in Side, FetchPage(s) PROVE SeenTell(T, H)'
  BY <1>1, FetchTells
<1>2. CASE PointQuery
  BY <1>2, PointQueryTells
<1>3. CASE ReadAll
  <2>1. /\ Merging(Keys, [s \in Side |-> Total(s)], {s \in Side : Total(s) = 0}) /\ path' = "all"
        /\ \A s \in Side : total[s] # {}
    BY <1>3 DEF ReadAll, Counted
  <2>2. \A s \in Side : Total(s) = 0 => \A k \in Keys \ H : T[s][k] = Absent
    BY <2>1, Sides DEF EmptyTell
  <2> QED BY <2>1, <2>2, MergeBegins
<1>4. CASE SharedScan \/ NextBucket
  <2>1. path' # "point"
    BY <1>4 DEF SharedScan, NextBucket, Phase
  <2>2. \A b : KeysIn(b) \in SUBSET Keys
    BY DEF KeysIn
  <2>3. PICK ks \in SUBSET Keys : \E rows : Merging(ks, rows, {})
    BY <1>4, <2>2 DEF SharedScan, NextBucket
  <2> QED BY <2>1, <2>3, MergeBegins
<1>5. CASE ReadSmall
  <2>1. /\ Merging(Keys, [s \in Side |-> Total(s)], {Big}) /\ path' = "point" /\ asked' = {}
        /\ UNCHANGED total
    BY <1>5 DEF ReadSmall, Counted, Phase, Counting, Ended
  <2>2. ASSUME NEW s \in Side PROVE Tells(seen[s], T[s], Read(s), H)'
    <3>1. seen'[s] = {} /\ pos'[s] = 0 /\ (exhausted'[s] <=> s = Big) /\ scope' = Keys /\ Big' = Big
      BY <2>1, SameTotals DEF Merging, Both
    <3>2. Read(s)' = {}
      BY <2>1, <3>1, KeysPositive DEF Read
    <3>3. T[s] \in Table
      BY DEF Pair
    <3> QED BY <3>1, <3>2, <3>3, NothingTold
  <2> QED BY <2>2 DEF SeenTell
<1>6. CASE SmallRead
  <2>1. UNCHANGED <<total, scope, seen, pos, exhausted, asked, path>> /\ pc = "small"
    BY <1>6 DEF SmallRead, env, merge, cursors
  <2>2. \A s \in Side : Read(s)' = Read(s)
    BY <2>1, SameTotals DEF Read
  <2> QED BY <2>1, <2>2 DEF SeenTell
<1>7. CASE pc' \notin {"merge", "small", "hits"}
  BY <1>7 DEF SeenTell
<1>8. \/ \E s \in Side : FetchPage(s)
      \/ PointQuery \/ ReadAll \/ SharedScan \/ NextBucket \/ ReadSmall \/ SmallRead
      \/ pc' \notin {"merge", "small", "hits"}
  BY DEF Actions, KeyedStep, MinusStep, JoinStep, OpenSnapshot, KeyedCount, BatchChecksum, MinusSum,
     BothEmpty, ChecksumBuckets, BucketsAgree, BucketByBucket, BucketsDone, Merged, MergeHits,
     Supported,
     Unsupported, FallBack, KeyedStart, Anchor, OverCells, MinusCount, MinusNothing, CountOneSide,
     ReadOneSide, Report, MinusEqual, MinusDiffer, SetDifference, OuterJoin, JoinCount, Finish,
     Fail,
     Counted
<1> QED BY <1>1, <1>2, <1>3, <1>4, <1>5, <1>6, <1>7, <1>8

-----------------------------------------------------------------------------
(* What is found. *)

FoundSound(F, T, H) ==
  \A d \in F : /\ d.key \in Keys
               /\ d.key \notin H => Differs(T, d.key) /\ d = DiffOf(T, d.key)
FoundAll(F, T, H, ks) == \A k \in ks \ H : Differs(T, k) => DiffOf(T, k) \in F

LEMMA DiffRowsFound ==
  ASSUME NEW T \in Pair, NEW H, NEW ks \in SUBSET Keys, NEW l \in SUBSET Row, NEW r \in SUBSET Row,
         Tells(l, T["left"], ks, H), Tells(r, T["right"], ks, H)
  PROVE  FoundSound(DiffRows(l, r), T, H) /\ FoundAll(DiffRows(l, r), T, H, ks)
<1> DEFINE F == DiffRows(l, r)
<1>1. /\ \A d \in F : /\ d.key \in Keys
                      /\ d.key \notin H => d.key \in ks /\ Differs(T, d.key) /\ d = DiffOf(T, d.key)
      /\ \A k \in ks \ H : Differs(T, k) => DiffOf(T, k) \in F
  BY DiffRowsTell
<1> HIDE DEF F
<1>2. FoundSound(F, T, H) /\ FoundAll(F, T, H, ks)
  BY <1>1 DEF FoundSound, FoundAll
<1> QED BY <1>2 DEF F

LEMMA SeenFound ==
  ASSUME KeyedType, NEW T \in Pair, NEW H, NEW ks \in SUBSET Keys,
         \A s \in Side : Tells(seen[s], T[s], ks, H)
  PROVE  LET F == DiffRows(seen["left"], seen["right"])
         IN  FoundSound(F, T, H) /\ FoundAll(F, T, H, ks)
<1>1. seen["left"] \in SUBSET Row /\ seen["right"] \in SUBSET Row
  BY DEF KeyedType, Side
<1>2. Tells(seen["left"], T["left"], ks, H) /\ Tells(seen["right"], T["right"], ks, H)
  BY DEF Side
<1> QED BY <1>1, <1>2, DiffRowsFound

LEMMA MergedFinds ==
  ASSUME KeyedType, Phase, NEW T \in Pair, NEW H, SeenTell(T, H), Merged
  PROVE  LET F == DiffRows(seen["left"], seen["right"])
         IN  found' = found \cup F /\ FoundSound(F, T, H) /\ FoundAll(F, T, H, scope)
<1>1. /\ pc = "merge" /\ exhausted = Both(TRUE) /\ path # "point" /\ scope \in SUBSET Keys
      /\ found' = found \cup DiffRows(seen["left"], seen["right"])
  BY DEF Merged, Phase, KeyedType
<1>2. \A s \in Side : Read(s) = scope
  BY <1>1 DEF Read, Both
<1>3. \A s \in Side : Tells(seen[s], T[s], scope, H)
  BY <1>1, <1>2 DEF SeenTell
<1> QED BY <1>1, <1>3, SeenFound

LEMMA HitsFind ==
  ASSUME KeyedType, Phase, Cursors, NEW T \in Pair, NEW H, SeenTell(T, H), MergeHits
  PROVE  /\ FoundSound(found', T, H) /\ FoundAll(found', T, H, asked)
         /\ \A k \in Keys \ H : T[Small][k] # Absent => k \in asked
<1>1. /\ pc = "hits" /\ exhausted = Both(TRUE) /\ path = "point" /\ scope = Keys
      /\ asked \in SUBSET Keys /\ KeysOf(seen[Small]) = asked
      /\ found' = DiffRows(seen["left"], seen["right"])
      /\ \A s \in Side : total[s] # {}
  BY DEF MergeHits, Phase, Cursors, KeyedType
<1>2. Small \in Side /\ Big \in Side /\ Small # Big /\ \A s \in Side : s = Small \/ s = Big
  BY <1>1, Sides
<1>3. Read(Big) = asked /\ Read(Small) = Keys
  BY <1>1, <1>2 DEF Read, Both
<1>4. Tells(seen[Big], T[Big], asked, H) /\ Tells(seen[Small], T[Small], Keys, H)
  BY <1>1, <1>2, <1>3 DEF SeenTell
<1>5. \A k \in Keys \ H : k \in asked <=> T[Small][k] # Absent
  <2>1. seen[Small] \in SUBSET Row /\ T[Small] \in Table
    BY <1>2 DEF KeyedType, Pair
  <2> QED BY <1>1, <1>4, <2>1, TellsKeys
<1>6. Tells(seen[Small], T[Small], asked, H)
  <2>1. \A r \in Row : r[1] \in Keys /\ r[2] # Absent
    BY KeyedAssumption DEF Row
  <2> QED BY <1>4, <1>5, <2>1 DEF Tells
<1>7. \A s \in Side : Tells(seen[s], T[s], asked, H)
  BY <1>2, <1>4, <1>6
<1> QED BY <1>1, <1>5, <1>7, SeenFound

LEMMA WholeFinds ==
  ASSUME KeyedType, Phase, NEW T \in Pair, NEW H, Shows(T, H), EmptyTell(T, H),
         OuterJoin \/ SetDifference \/ ReadOneSide
  PROVE  FoundSound(found', T, H) /\ FoundAll(found', T, H, Keys)
<1>1. \A s \in Side : Tells(Rows(s), T[s], Keys, H) /\ Rows(s) \in SUBSET Row
  BY ViewTells, ViewTable DEF Rows, RowSet
<1>2. CASE OuterJoin \/ SetDifference
  <2>1. found' = DiffRows(Rows("left"), Rows("right"))
    BY <1>2 DEF OuterJoin, SetDifference, Report
  <2> QED BY <1>1, <2>1, DiffRowsFound DEF Side
<1>3. CASE ReadOneSide
  <2> DEFINE rows == [s \in Side |-> IF s = Big THEN Rows(s) ELSE {}]
  <2>1. /\ found' = DiffRows(rows["left"], rows["right"]) /\ Smaller = 0
        /\ \A s \in Side : total[s] # {}
    BY <1>3 DEF ReadOneSide, Report, Phase
  <2>2. \A s \in Side : s = Big \/ s = Small
    BY <2>1, Sides
  <2>3. \A k \in Keys \ H : T[Small][k] = Absent
    BY <2>1, Sides DEF EmptyTell
  <2>4. \A s \in Side : Tells(rows[s], T[s], Keys, H) /\ rows[s] \in SUBSET Row
    <3> SUFFICES ASSUME NEW s \in Side PROVE Tells(rows[s], T[s], Keys, H) /\ rows[s] \in SUBSET Row
      OBVIOUS
    <3>1. CASE s = Big
      BY <1>1, <3>1
    <3>2. CASE s # Big
      <4>1. rows[s] = {} /\ T[s] \in Table /\ \A k \in Keys \ H : T[s][k] = Absent
        BY <2>2, <2>3, <3>2 DEF Pair
      <4> QED BY <4>1, NothingTold
    <3> QED BY <3>1, <3>2
  <2> HIDE DEF rows
  <2>5. /\ Tells(rows["left"], T["left"], Keys, H) /\ rows["left"] \in SUBSET Row
        /\ Tells(rows["right"], T["right"], Keys, H) /\ rows["right"] \in SUBSET Row
    BY <2>4 DEF Side
  <2> QED BY <2>1, <2>5, DiffRowsFound
<1> QED BY <1>2, <1>3

LEMMA SoundStep ==
  ASSUME KeyedType, Phase, Cursors, NEW T \in Pair, NEW H, Shows(T, H), EmptyTell(T, H),
         SeenTell(T, H), Sound(T, H), Actions
  PROVE  Sound(T, H)'
<1>0. FoundSound(found, T, H)
  BY DEF Sound, FoundSound
<1>1. CASE Merged
  BY <1>0, <1>1, MergedFinds DEF Sound, FoundSound
<1>2. CASE MergeHits
  BY <1>2, HitsFind DEF Sound, FoundSound
<1>3. CASE OuterJoin \/ SetDifference \/ ReadOneSide
  BY <1>3, WholeFinds DEF Sound, FoundSound
<1>4. CASE found' = {} \/ UNCHANGED found
  BY <1>4 DEF Sound
<1>5. \/ Merged \/ MergeHits \/ OuterJoin \/ SetDifference \/ ReadOneSide
      \/ found' = {} \/ UNCHANGED found
  BY DEF Actions, KeyedStep, MinusStep, JoinStep, OpenSnapshot, KeyedCount, CountRows, FetchPage,
     BothEmpty, ReadAll, ReadSmall, ChecksumBuckets, BucketsAgree, SharedScan, BucketByBucket,
     NextBucket, BucketsDone, SmallRead, PointQuery, Supported, Unsupported, BatchChecksum,
     MinusSum,
     FallBack, Anchor, OverCells, MinusCount, MinusNothing, CountOneSide, Report,
     MinusEqual, MinusDiffer, JoinCount, Finish, Fail, result
<1> QED BY <1>1, <1>2, <1>3, <1>4, <1>5

-----------------------------------------------------------------------------
(* What is still in sight. *)

LEMMA BucketSight ==
  ASSUME KeyedType, NEW T \in Pair, NEW H, SumsTell(T, H), Summed, Larger > 0,
         \A s \in Side : total[s] # {},
         NEW k \in Keys \ H, Differs(T, k)
  PROVE  \E b \in DiffBuckets : k \in KeysIn(b)
<1> DEFINE b == k % Buckets
<1>1. k \in Nat /\ Buckets \in Nat /\ Buckets > 0
  BY BucketNumbers, KeyedAssumption
<1>2. b \in 0 .. Buckets - 1
  <2> DEFINE n == Buckets
  <2>1. k \in Nat /\ n \in Nat /\ n > 0
    BY <1>1
  <2> HIDE DEF n
  <2>2. k % n \in 0 .. n - 1
    BY <2>1
  <2> QED BY <2>2 DEF n
<1>3. k \in KeysIn(b)
  BY DEF KeysIn
<1> HIDE DEF b
<1>4. ASSUME InBucket("left", b) = InBucket("right", b) PROVE FALSE
  <2>1. \A s \in Side : Tells(InBucket(s, b), T[s], KeysIn(b), H)
    <3> SUFFICES ASSUME NEW s \in Side PROVE Tells(InBucket(s, b), T[s], KeysIn(b), H)
      OBVIOUS
    <3>1. Tells(Sum(s), T[s], Keys, H) /\ InBucket(s, b) = {r \in Sum(s) : r[1] \in KeysIn(b)}
      BY SumIs DEF Summed, SumsTell
    <3>2. KeysIn(b) \subseteq Keys
      BY DEF KeysIn
    <3> QED BY <3>1, <3>2 DEF Tells
  <2>2. /\ Tells(InBucket("left", b), T["left"], KeysIn(b), H)
        /\ Tells(InBucket("left", b), T["right"], KeysIn(b), H)
    BY <1>4, <2>1 DEF Side
  <2>3. KeysIn(b) \in SUBSET Keys /\ T["left"] \in Table /\ T["right"] \in Table
    BY DEF KeysIn, Pair, Side
  <2>4. T["left"][k] = T["right"][k]
    BY <1>3, <2>2, <2>3, TellsAgree
  <2> QED BY <2>4 DEF Differs
<1> QED BY <1>2, <1>3, <1>4 DEF DiffBuckets

LEMMA EqualSums ==
  ASSUME KeyedType, NEW T \in Pair, NEW H, SumsTell(T, H), Summed, Sum("left") = Sum("right"),
         NEW k \in Keys \ H
  PROVE  ~Differs(T, k)
<1>1. \A s \in Side : Tells(Sum(s), T[s], Keys, H)
  BY SumIs DEF Summed, SumsTell
<1>2. Tells(Sum("left"), T["left"], Keys, H) /\ Tells(Sum("left"), T["right"], Keys, H)
  BY <1>1 DEF Side
<1>3. T["left"] \in Table /\ T["right"] \in Table
  BY DEF Pair, Side
<1> QED BY <1>2, <1>3, TellsAgree DEF Differs

LEMMA NoRows ==
  ASSUME KeyedType, NEW T \in Pair, NEW H, EmptyTell(T, H), \A s \in Side : total[s] # {},
         Larger = 0, NEW k \in Keys \ H
  PROVE  ~Differs(T, k)
<1>1. \A s \in Side : total[s] = {0}
  <2>1. \A s \in Side : Total(s) \in Nat /\ total[s] = {Total(s)} /\ (s = Big \/ s = Small)
    BY Sides
  <2>2. Total(Big) = Larger /\ Total(Small) = Smaller /\ Smaller \in Nat /\ Smaller <= Larger
    BY Sides
  <2> QED BY <2>1, <2>2
<1> QED BY <1>1 DEF EmptyTell, Differs, Side

LEMMA SkewGap ==
  ASSUME NEW n \in Nat, NEW k \in Nat \ {0, 1}, NEW m \in Nat, m > 0, n \div k >= m
  PROVE  n > m
<1> DEFINE q == n \div k
           r == n % k
<1>1. q \in Nat /\ r \in Nat /\ n = k * q + r
  OBVIOUS
<1>2. q >= m
  OBVIOUS
<1> HIDE DEF q, r
<1>3. k * q >= 2 * q
  BY <1>1
<1> DEFINE p == k * q
<1>4. p \in Nat /\ n = p + r /\ p >= 2 * q
  BY <1>1, <1>3
<1> HIDE DEF p
<1> QED BY <1>1, <1>2, <1>4

(* The big side of a skewed pair has rows no look-up asks for. *)
LEMMA HitsMissing ==
  ASSUME KeyedType, Phase, Cursors, MergeHits, ~warned'
  PROVE  Missing > 0
<1>1. /\ pc = "hits" /\ PathOf = "point" /\ expected[Small] = Total(Small) /\ ~warned
      /\ \A s \in Side : total[s] # {}
  BY DEF MergeHits, Phase, Cursors
<1>2. Fetched(Small) = Total(Small)
  BY <1>1 DEF Cursors
<1>3. /\ Small \in Side /\ Big \in Side /\ Larger \in Nat /\ Smaller \in Nat
      /\ Total(Big) = Larger /\ Total(Small) = Smaller
  BY <1>1, Sides
<1>4. IsSkewed
  BY <1>1 DEF PathOf
<1>5. Larger > Smaller
  BY <1>3, <1>4, SkewGap, KeyedAssumption DEF IsSkewed
<1> DEFINE ks == KeysOf(seen[Small])
           pairs == Cardinality(ks \cap KeysOf(seen[Big]))
<1>6. IsFiniteSet(ks) /\ Cardinality(ks) = Smaller
  <2>1. seen[Small] \in RowSet
    BY <1>3 DEF Cursors
  <2> QED BY <1>2, <1>3, <2>1, RowSetSize DEF Fetched
<1>7. pairs \in Nat /\ pairs <= Smaller
  BY <1>6, FS_Intersection, FS_CardinalityType
<1>8. Missing = LessOf(Larger, pairs)
  BY <1>3 DEF Missing
<1> HIDE DEF pairs
<1> QED BY <1>3, <1>5, <1>7, <1>8 DEF LessOf

LEMMA SameWaiting ==
  ASSUME UNCHANGED <<total, todo>>
  PROVE  Waiting' = Waiting
BY SameTotals DEF Waiting, KeysIn

LEMMA CompleteStep ==
  ASSUME KeyedType, Phase, Cursors, NEW T \in Pair, NEW H, Shows(T, H), True(T, H), Actions
  PROVE  Complete(T, H)'
<1> USE DEF Ended
<1>a. SumsTell(T, H) /\ EmptyTell(T, H) /\ SeenTell(T, H) /\ Complete(T, H)
  BY DEF True
<1> SUFFICES ASSUME NEW k \in Keys \ H, Differs(T, k)
             PROVE  /\ pc' \in {"merge", "bucket"} => DiffOf(T, k) \in found' \/ k \in Pending'
                    /\ pc' \in Ended /\ exit' # "error" => Told(T, k)'
  BY DEF Complete
<1> DEFINE Goal == /\ pc' \in {"merge", "bucket"} => DiffOf(T, k) \in found' \/ k \in Pending'
                   /\ pc' \in Ended /\ exit' # "error" => Told(T, k)'
           d == DiffOf(T, k)
<1> HIDE DEF d
<1>b. DiffOf(T, k) = d
  BY DEF d
<1> DEFINE Quiet == pc' \notin {"merge", "bucket"} \cup Ended \/ (exit' = "error" /\ pc' = "done")
<1>1. CASE Quiet
  BY <1>1
<1>2. CASE Finish
  <2>1. /\ pc = "commit" /\ pc' = "done" /\ exit # "error"
        /\ UNCHANGED <<total, missingBig, warned, found>>
    BY <1>2 DEF Finish, Phase
  <2>2. Told(T, k)
    BY <1>a, <2>1 DEF Complete
  <2> QED BY <2>1, <2>2, SameTotals DEF Told
<1>3. CASE ReadAll
  <2>1. pc' = "merge" /\ path' = "all" /\ scope' = Keys
    BY <1>3 DEF ReadAll, Merging
  <2> QED BY <2>1 DEF Pending
<1>4. CASE SharedScan \/ BucketByBucket
  <2>1. \E b \in DiffBuckets : k \in KeysIn(b)
    BY <1>4, <1>a, BucketSight DEF SharedScan, BucketByBucket, Phase
  <2>2. \A b : KeysIn(b)' = KeysIn(b)
    BY <1>4, SameTotals DEF SharedScan, BucketByBucket, KeysIn
  <2>3. CASE SharedScan
    <3>1. pc' = "merge" /\ path' = "shared" /\ scope' = UNION {KeysIn(b) : b \in DiffBuckets}
      BY <2>3 DEF SharedScan, Merging
    <3> QED BY <2>1, <3>1 DEF Pending
  <2>4. CASE BucketByBucket
    <3>1. pc' = "bucket" /\ todo' = DiffBuckets
      BY <2>4 DEF BucketByBucket
    <3> QED BY <2>1, <2>2, <3>1 DEF Pending, Waiting
  <2> QED BY <1>4, <2>3, <2>4
<1>5. CASE NextBucket
  <2>1. /\ pc = "bucket" /\ pc' = "merge" /\ path' = "bucket" /\ UNCHANGED <<found, total>>
        /\ scope' = KeysIn(Min(todo)) /\ todo' = todo \ {Min(todo)}
    BY <1>5 DEF NextBucket, Merging, Phase, result
  <2>2. \A b : KeysIn(b)' = KeysIn(b)
    BY <2>1, SameTotals DEF KeysIn
  <2>3. d \in found \/ \E b \in todo : k \in KeysIn(b)
    BY <1>a, <1>b, <2>1 DEF Complete, Pending, Waiting
  <2>4. ASSUME NEW b \in todo, k \in KeysIn(b) PROVE k \in Pending'
    <3>1. b = Min(todo) \/ b \in todo'
      BY <2>1
    <3>2. Pending' = scope' \cup UNION {KeysIn(c)' : c \in todo'}
      BY <2>1 DEF Pending, Waiting
    <3> QED BY <2>1, <2>2, <2>4, <3>1, <3>2
  <2> QED BY <1>b, <2>1, <2>3, <2>4
<1>6. ASSUME NEW s \in Side, FetchPage(s) PROVE Goal
  <2>1. /\ UNCHANGED <<pc, found, path, scope, todo, total>> /\ pc \in {"merge", "small"}
    BY <1>6 DEF FetchPage, env, result
  <2>2. Pending' = Pending
    BY <2>1, SameWaiting DEF Pending
  <2> QED BY <1>a, <2>1, <2>2 DEF Complete
<1>7. CASE Merged
  <2>1. /\ pc = "merge" /\ missingBig' = 0 /\ UNCHANGED <<total, todo, path>>
        /\ pc' = IF path = "bucket" THEN "bucket" ELSE "commit"
    BY <1>7 DEF Merged, Phase, merge
  <2>2. /\ found \subseteq found'
        /\ k \in scope => d \in found'
    BY <1>7, <1>a, <1>b, MergedFinds DEF FoundAll
  <2>3. d \in found \/ k \in Pending
    BY <1>a, <1>b, <2>1 DEF Complete
  <2>4. CASE path = "bucket"
    <3>1. Pending = scope \cup Waiting /\ Pending' = Waiting' /\ Waiting' = Waiting /\ pc' = "bucket"
      BY <2>1, <2>4, SameWaiting DEF Pending
    <3> QED BY <1>b, <2>2, <2>3, <3>1
  <2>5. CASE path # "bucket"
    <3>1. Pending = scope /\ pc' = "commit"
      BY <2>1, <2>5 DEF Pending
    <3>2. d \in found'
      BY <2>2, <2>3, <3>1
    <3> QED BY <1>b, <2>1, <3>1, <3>2 DEF Told
  <2> QED BY <2>4, <2>5
<1>8. CASE BucketsDone
  <2>1. pc = "bucket" /\ todo = {} /\ pc' = "commit" /\ UNCHANGED <<found, missingBig>> /\ missingBig = 0
    BY <1>8 DEF BucketsDone, Phase, result
  <2>2. d \in found
    BY <1>a, <1>b, <2>1 DEF Complete, Pending, Waiting
  <2> QED BY <1>b, <2>1, <2>2 DEF Told
<1>9. CASE BucketsAgree
  BY <1>9, <1>a, BucketSight DEF BucketsAgree, Phase
<1>10. CASE BothEmpty
  BY <1>10, <1>a, NoRows DEF BothEmpty, Counted
<1>11. CASE MinusNothing
  BY <1>11, <1>a, NoRows DEF MinusNothing, Phase
<1>12. CASE MinusEqual
  BY <1>12, <1>a, EqualSums DEF MinusEqual
<1>13. CASE MergeHits
  <2>1. /\ pc' = "commit" /\ missingBig' = Missing /\ UNCHANGED total /\ \A s \in Side : total[s] # {}
    BY <1>13 DEF MergeHits, Phase
  <2>2. Small' = Small
    BY <2>1, SameTotals
  <2>3. /\ k \in asked => d \in found'
        /\ T[Small][k] # Absent => k \in asked
    BY <1>13, <1>a, <1>b, HitsFind DEF FoundAll
  <2>4. Missing = 0 => warned'
    BY <1>13, HitsMissing
  <2> QED BY <1>b, <2>1, <2>2, <2>3, <2>4 DEF Told
<1>14. CASE CountOneSide
  <2>1. /\ pc' = "commit" /\ missingBig' = Larger /\ Larger > 0 /\ UNCHANGED total /\ Smaller = 0
        /\ \A s \in Side : total[s] # {}
    BY <1>14 DEF CountOneSide, Phase
  <2>2. Small' = Small /\ Larger \in Nat /\ T[Small][k] = Absent
    BY <1>a, <2>1, Sides, SameTotals DEF EmptyTell
  <2> QED BY <2>1, <2>2 DEF Told
<1>15. CASE OuterJoin \/ SetDifference \/ ReadOneSide
  <2>1. pc' \in Ended /\ missingBig' = 0
    BY <1>15 DEF OuterJoin, SetDifference, ReadOneSide, Report, Phase
  <2>2. d \in found'
    BY <1>15, <1>a, <1>b, WholeFinds DEF FoundAll
  <2> QED BY <1>15, <1>b, <2>1, <2>2 DEF Told, OuterJoin, SetDifference, ReadOneSide, Report
<1>16. ASSUME NEW s \in Side, JoinCount(s) PROVE Goal
  <2>1. /\ pc \in {"joinLeft", "joinRight"} /\ missingBig = 0 /\ UNCHANGED <<missingBig, warned, found>>
        /\ exit # "error" /\ pc' \in {"joinRight", "commit"}
    BY <1>16 DEF JoinCount, CountRows, Phase, result
  <2>2. Told(T, k)
    BY <1>a, <2>1 DEF Complete
  <2> QED BY <2>1, <2>2 DEF Told
<1>17. ASSUME NEW s \in Side, OpenSnapshot(s) \/ KeyedCount(s) \/ BatchChecksum(s) \/ MinusSum(s)
                              \/ MinusCount(s)
       PROVE  Quiet
  BY <1>17 DEF OpenSnapshot, KeyedCount, BatchChecksum, MinusSum, MinusCount
<1>18. CASE \/ ReadSmall \/ ChecksumBuckets \/ SmallRead \/ PointQuery \/ Supported \/ Unsupported
            \/ Anchor \/ OverCells \/ MinusDiffer \/ Fail
  <2>1. Quiet
    BY <1>18 DEF ReadSmall, ChecksumBuckets, SmallRead, PointQuery, Supported, Unsupported,
       FallBack,
                 KeyedStart, Anchor, OverCells, MinusDiffer, Fail
  <2> QED BY <1>1, <2>1
<1> QED BY <1>1, <1>2, <1>3, <1>4, <1>5, <1>6, <1>7, <1>8, <1>9, <1>10, <1>11, <1>12, <1>13, <1>14,
           <1>15, <1>16, <1>17, <1>18 DEF Actions, KeyedStep, MinusStep, JoinStep

LEMMA TrueStep ==
  ASSUME KeyedType, Phase, Cursors, NEW T \in Pair, NEW H, Shows(T, H), True(T, H), Actions
  PROVE  True(T, H)'
<1>1. SumsTell(T, H) /\ EmptyTell(T, H) /\ SeenTell(T, H) /\ Sound(T, H) /\ Complete(T, H)
  BY DEF True
<1>2. SumsTell(T, H)'
  BY <1>1, SumsStep
<1>3. EmptyTell(T, H)'
  BY <1>1, EmptyStep
<1>4. SeenTell(T, H)'
  BY <1>1, SeenStep
<1>5. Sound(T, H)'
  BY <1>1, SoundStep
<1>6. Complete(T, H)'
  BY CompleteStep
<1> QED BY <1>2, <1>3, <1>4, <1>5, <1>6 DEF True

-----------------------------------------------------------------------------
(* Rows nobody writes. *)

(* Applications only make keys unstable; what stays stable stays as it is. *)
EnvGrows ==
  /\ touched \subseteq touched'
  /\ \A s \in Side : \A k \in Keys \ touched' : tab'[s][k] = tab[s][k]

LEMMA WriteGrows ==
  ASSUME KeyedType, AnyWrite \/ UNCHANGED vars
  PROVE  /\ EnvGrows
         /\ UNCHANGED <<mode, view, pc, total, sums, path, todo, merge, asked, result>>
<1>1. CASE UNCHANGED vars
  BY <1>1 DEF vars, env, EnvGrows
<1>2. ASSUME NEW s \in Side, NEW k \in Keys, NEW r \in RowImage, Write(s, k, r)
      PROVE  /\ EnvGrows
             /\ UNCHANGED <<mode, view, pc, total, sums, path, todo, merge, asked, result>>
  <2>1. tab' = [tab EXCEPT ![s][k] = r] /\ touched' = touched \cup {k} /\ tab \in [Side -> Table]
    BY <1>2 DEF Write, KeyedType, Pair
  <2>2. EnvGrows
    BY <2>1 DEF EnvGrows, Table
  <2> QED BY <1>2, <2>2 DEF Write
<1> QED BY <1>1, <1>2 DEF AnyWrite

LEMMA TellsOn ==
  ASSUME EnvGrows, NEW s \in Side, NEW ks \in SUBSET Keys, NEW R, Tells(R, tab[s], ks, touched)
  PROVE  Tells(R, tab'[s], ks, touched')
BY DEF EnvGrows, Tells, Row

LEMMA ReadKeys ==
  ASSUME KeyedType, NEW s \in Side
  PROVE  Read(s) \in SUBSET Keys
BY DEF Read, KeyedType

LEMMA WriteTrue ==
  ASSUME KeyedType, True(tab, touched), AnyWrite \/ UNCHANGED vars
  PROVE  True(tab, touched)'
<1>1. /\ EnvGrows
      /\ UNCHANGED <<mode, pc, total, sums, path, todo, scope, seen, pos, exhausted, asked, found,
                     missingBig, warned, exit>>
  BY WriteGrows DEF merge, cursors, result
<1>2. /\ SumsTell(tab, touched) /\ EmptyTell(tab, touched) /\ SeenTell(tab, touched)
      /\ Sound(tab, touched) /\ Complete(tab, touched)
  BY DEF True
<1>3. SumsTell(tab, touched)'
  <2> SUFFICES ASSUME NEW s \in Side, NEW x \in sums'[s] PROVE Tells(x, tab'[s], Keys, touched')
    BY DEF SumsTell
  <2>1. Tells(x, tab[s], Keys, touched)
    BY <1>1, <1>2 DEF SumsTell
  <2> QED BY <1>1, <2>1, TellsOn
<1>4. EmptyTell(tab, touched)'
  <2> SUFFICES ASSUME NEW s \in Side, 0 \in total'[s], NEW k \in Keys \ touched'
               PROVE  tab'[s][k] = Absent
    BY DEF EmptyTell
  <2>1. k \in Keys \ touched /\ tab'[s][k] = tab[s][k]
    BY <1>1 DEF EnvGrows
  <2> QED BY <1>1, <1>2, <2>1 DEF EmptyTell
<1>5. SeenTell(tab, touched)'
  <2> SUFFICES ASSUME NEW s \in Side, pc' \in {"merge", "small", "hits"}
               PROVE  Tells(seen'[s], tab'[s], Read(s)', touched')
    BY DEF SeenTell
  <2>1. Read(s)' = Read(s) /\ Read(s) \in SUBSET Keys
    BY <1>1, SameTotals, ReadKeys DEF Read
  <2>2. Tells(seen[s], tab[s], Read(s), touched)
    BY <1>1, <1>2 DEF SeenTell
  <2>3. Tells(seen[s], tab'[s], Read(s), touched')
    BY <1>1, <2>1, <2>2, TellsOn
  <2> QED BY <1>1, <2>1, <2>3
<1>6. \A k \in Keys \ touched' :
        k \in Keys \ touched /\ (Differs(tab, k)' <=> Differs(tab, k)) /\ DiffOf(tab, k)' = DiffOf(tab, k)
  BY <1>1 DEF EnvGrows, Differs, DiffOf, Side
<1>7. Sound(tab, touched)'
  <2> SUFFICES ASSUME NEW d \in found'
               PROVE  /\ d.key \in Keys
                      /\ d.key \notin touched' => Differs(tab, d.key)' /\ d = DiffOf(tab, d.key)'
    BY DEF Sound
  <2> QED BY <1>1, <1>2, <1>6 DEF Sound
<1>8. Complete(tab, touched)'
  <2> SUFFICES ASSUME NEW k \in Keys \ touched', Differs(tab, k)'
               PROVE  /\ pc' \in {"merge", "bucket"} => DiffOf(tab, k)' \in found' \/ k \in Pending'
                      /\ pc' \in Ended /\ exit' # "error" => Told(tab, k)'
    BY DEF Complete, Ended
  <2>1. /\ k \in Keys \ touched /\ Differs(tab, k) /\ DiffOf(tab, k)' = DiffOf(tab, k)
        /\ \A s \in Side : tab'[s][k] = tab[s][k]
    BY <1>1, <1>6 DEF EnvGrows
  <2>2. Pending' = Pending
    BY <1>1, SameWaiting DEF Pending
  <2>3. Told(tab, k) => Told(tab, k)'
    <3>1. Small' = Small /\ Small \in Side
      BY <1>1, SameTotals DEF Small, Other, Side
    <3> QED BY <1>1, <2>1, <3>1 DEF Told
  <2> QED BY <1>1, <1>2, <2>1, <2>2, <2>3 DEF Complete
<1> QED BY <1>3, <1>4, <1>5, <1>7, <1>8 DEF True

LEMMA StableStep ==
  ASSUME KeyedType, Phase, Cursors, StableInv, [Next]_vars
  PROVE  StableInv'
<1>2. CASE AnyWrite \/ UNCHANGED vars
  <2>1. EnvGrows /\ UNCHANGED snap
    BY <1>2, WriteGrows DEF view
  <2>2. SnapTrue'
    <3> SUFFICES ASSUME NEW s \in Side, NEW t \in snap'[s], NEW k \in Keys \ touched'
                 PROVE  t[k] = tab'[s][k]
      BY DEF SnapTrue
    <3> QED BY <2>1 DEF StableInv, SnapTrue, EnvGrows
  <2> QED BY <1>2, <2>2, WriteTrue DEF StableInv
<1>3. CASE Actions
  <2>1. UNCHANGED <<tab, touched>>
    BY <1>3 DEF Actions, KeyedStep, MinusStep, JoinStep, OpenSnapshot, KeyedCount, CountRows,
       BatchChecksum,
       FetchPage, BothEmpty, ReadAll, ReadSmall, ChecksumBuckets, BucketsAgree, SharedScan,
       BucketByBucket,
       NextBucket, BucketsDone, Merged, SmallRead, PointQuery, MergeHits, Supported, Unsupported,
       FallBack,
       Anchor, OverCells, MinusCount, MinusSum, MinusNothing, CountOneSide, ReadOneSide, Report,
       MinusEqual, MinusDiffer, SetDifference, OuterJoin, JoinCount, Finish, Fail, env
  <2>2. /\ \A s \in Side : snap'[s] \subseteq snap[s] \cup {tab[s]}
    <3>1. CASE UNCHANGED snap
      BY <3>1
    <3>2. CASE snap' = Both({})
      BY <3>2 DEF Both
    <3>3. ASSUME NEW s \in Side, OpenSnapshot(s) PROVE \A z \in Side : snap'[z] \subseteq snap[z] \cup {tab[z]}
      BY <3>3 DEF OpenSnapshot, KeyedType
    <3>4. CASE Anchor
      BY <3>4 DEF Anchor
    <3>5. UNCHANGED snap \/ snap' = Both({}) \/ Anchor \/ \E s \in Side : OpenSnapshot(s)
      BY <1>3 DEF Actions, KeyedStep, MinusStep, JoinStep, KeyedCount, CountRows, BatchChecksum,
       FetchPage, BothEmpty, ReadAll, ReadSmall, ChecksumBuckets, BucketsAgree, SharedScan,
       BucketByBucket,
       NextBucket, BucketsDone, Merged, SmallRead, PointQuery, MergeHits, Supported, Unsupported,
       FallBack,
       OverCells, MinusCount, MinusSum, MinusNothing, CountOneSide, ReadOneSide, Report,
       MinusEqual, MinusDiffer, SetDifference, OuterJoin, JoinCount, Finish, Fail, view
    <3> QED BY <3>1, <3>2, <3>3, <3>4, <3>5
  <2>3. SnapTrue'
    BY <2>1, <2>2 DEF StableInv, SnapTrue
  <2>4. Shows(tab, touched)
    <3>1. \A s \in Side : View(s) = tab[s] \/ View(s) \in snap[s]
      BY ViewTable
    <3> QED BY <3>1 DEF StableInv, SnapTrue, Shows
  <2>5. tab \in Pair /\ True(tab, touched)
    BY DEF KeyedType, StableInv
  <2>6. PICK T, H : T = tab /\ H = touched
    OBVIOUS
  <2>7. True(T, H)'
    BY <1>3, <2>4, <2>5, <2>6, TrueStep
  <2>8. True(tab, touched)'
    BY <2>1, <2>6, <2>7
  <2> QED BY <2>3, <2>8 DEF StableInv
<1> QED BY <1>2, <1>3 DEF Next, Actions, AnyWrite

LEMMA StableInit == Init => StableInv
<1> SUFFICES ASSUME Init PROVE StableInv
  OBVIOUS
<1>1. /\ snap = Both({}) /\ sums = Both({}) /\ total = Both({}) /\ found = {}
      /\ pc \notin {"small", "hits", "merge", "bucket"} \cup Ended
  BY KeyedAssumption DEF Init, KeyedStart, Ended, ModeType
<1>2. SnapTrue /\ SumsTell(tab, touched) /\ EmptyTell(tab, touched)
  BY <1>1 DEF SnapTrue, SumsTell, EmptyTell, Both
<1>3. SeenTell(tab, touched) /\ Sound(tab, touched) /\ Complete(tab, touched)
  BY <1>1 DEF SeenTell, Sound, Complete
<1> QED BY <1>2, <1>3 DEF StableInv, True

KeyedInv == KeyedType /\ Phase /\ Cursors

(* The types of the state, what each phase knows, and the two cursors: the *)
(* invariant every other argument about a keyed comparison rests on        *)
(* (keyed_diff.rs:86-226, 386-537, minus_diff/mod.rs:71-170).              *)
THEOREM KeyedInvariant == Spec => []KeyedInv
<1>1. Init => KeyedInv
  BY TypeInit DEF KeyedInv
<1>2. KeyedInv /\ [Next]_vars => KeyedInv'
  BY TypeStep, PhaseStep, CursorsStep DEF KeyedInv
<1> QED BY <1>1, <1>2, PTL DEF Spec

(* What has been read tells of every row nobody wrote to since the run     *)
(* began, whichever statement read it, and no difference among those rows  *)
(* is lost between the checksums, the buckets, the cursors and the report  *)
(* (keyed_diff.rs:86-226, 386-537, minus_diff/mod.rs:71-170).              *)
THEOREM StableInvariant == Spec => []StableInv
<1>1. KeyedInv /\ StableInv /\ [Next]_vars => StableInv'
  BY StableStep DEF KeyedInv
<1> QED BY <1>1, StableInit, KeyedInvariant, PTL DEF Spec

LEMMA StableSafe == KeyedInv /\ StableInv => StableReported
<1> SUFFICES ASSUME KeyedInv, StableInv, Reported PROVE StableReported
  BY DEF StableReported
<1> DEFINE keys == {d.key : d \in found}
<1>1. pc = "done" /\ exit # "error"
  BY DEF KeyedInv, Phase, Reported
<1>2. Sound(tab, touched) /\ Complete(tab, touched)
  BY DEF StableInv, True
<1>3. \A k : k \in StableDiff <=> k \in Keys \ touched /\ Differs(tab, k)
  BY DEF StableDiff, Differs
<1>4. ASSUME NEW k \in StableSame, k \in keys PROVE FALSE
  <2>1. PICK d \in found : d.key = k
    BY <1>4
  <2>2. k \in Keys \ touched /\ ~Differs(tab, k)
    BY <1>3 DEF StableSame
  <2> QED BY <1>2, <2>1, <2>2 DEF Sound
<1>5. ASSUME NEW k \in StableDiff PROVE Told(tab, k)
  BY <1>1, <1>2, <1>3 DEF Complete, Ended
<1>6. \A k : DiffOf(tab, k) \in found => k \in keys
  <2>1. \A k : DiffOf(tab, k).key = k
    BY DEF DiffOf
  <2> QED BY <2>1
<1>7. missingBig = 0 => warned \/ StableDiff \subseteq keys
  BY <1>5, <1>6 DEF Told
<1>8. missingBig > 0 => \A k \in StableDiff : tab[Small][k] # Absent => k \in keys
  <2>1. missingBig > 0 => missingBig # 0
    BY DEF KeyedInv, KeyedType
  <2> QED BY <1>5, <1>6, <2>1 DEF Told
<1> HIDE DEF keys
<1>9. StableSame \cap keys = {}
  BY <1>4
<1> QED BY <1>7, <1>8, <1>9 DEF StableReported, keys

(* Whatever applications write during a comparison, for every set of keys  *)
(* and tables, threshold, page and bucket size: a difference nobody wrote  *)
(* to is in the report of keyeddiff, minusdiff and joindiff, or among the  *)
(* rows counted and not fetched, or the report warns; a row that agrees    *)
(* and that nobody wrote to is not in it (keyed_diff.rs:86-226, 386-537,   *)
(* minus_diff/mod.rs:71-170).                                              *)
THEOREM StableReportedHolds == Spec => []StableReported
BY StableSafe, KeyedInvariant, StableInvariant, PTL

-----------------------------------------------------------------------------
(* Comparisons of snapshots. *)

LEMMA ExactTells ==
  ASSUME NEW t \in Table, NEW ks \in SUBSET Keys, NEW R \in SUBSET Row, Tells(R, t, ks, {})
  PROVE  R = RowsOf(t, ks)
<1>1. RowsOf(t, ks) \in SUBSET Row
  BY RowsOfSet DEF RowSet
<1>2. Tells(RowsOf(t, ks), t, ks, {})
  BY RowsOfTell
<1> QED BY <1>1, <1>2 DEF Tells

LEMMA BaseIs ==
  ASSUME KeyedType, \A s \in Side : base[s] # {}
  PROVE  Base \in Pair /\ \A s \in Side : base[s] = {Base[s]}
<1>1. \A s \in Side : Base[s] \in base[s]
  BY SomeOf DEF Base
<1> QED BY <1>1 DEF KeyedType, Pair, AtMostOne, Base

LEMMA BaseViews ==
  ASSUME KeyedType, \A s \in Side : base[s] # {}, snap = base
  PROVE  Shows(Base, {}) /\ \A s \in Side : View(s) = Base[s] /\ Rows(s) = RowsOf(Base[s], Keys)
<1>1. \A s \in Side : View(s) = Base[s]
  BY ViewTable, BaseIs
<1> QED BY <1>1 DEF Shows, Rows

LEMMA SizeNat ==
  ASSUME KeyedType, \A s \in Side : base[s] # {}, NEW s \in Side, NEW ks \in SUBSET Keys
  PROVE  Size(s) \in Nat /\ Cardinality(RowsOf(Base[s], ks)) \in Nat
BY BaseIs, RowsOfSet, RowSetSize DEF Size, Pair

LEMMA SumExact ==
  ASSUME KeyedType, Phase, \A s \in Side : base[s] # {}, True(Base, {}), NEW s \in Side,
  sums[s] # {}
  PROVE  Sum(s) = RowsOf(Base[s], Keys)
<1>1. Sum(s) \in sums[s] /\ Sum(s) \in SUBSET Row /\ Base[s] \in Table
  BY SumIs, BaseIs DEF Pair, RowSet
<1>2. Tells(Sum(s), Base[s], Keys, {})
  BY <1>1 DEF True, SumsTell
<1> QED BY <1>1, <1>2, ExactTells

LEMMA SeenExact ==
  ASSUME KeyedType, \A s \in Side : base[s] # {}, True(Base, {}), pc \in {"merge", "small", "hits"},
         NEW s \in Side
  PROVE  seen[s] = RowsOf(Base[s], Read(s)) /\ Read(s) \in SUBSET Keys
<1>1. seen[s] \in SUBSET Row /\ Base[s] \in Table /\ Read(s) \in SUBSET Keys
  BY BaseIs, ReadKeys DEF KeyedType, Pair
<1>2. Tells(seen[s], Base[s], Read(s), {})
  BY DEF True, SeenTell
<1> QED BY <1>1, <1>2, ExactTells

(* The rows a merge should fetch, by the checksums. *)
LEMMA CountOfExact ==
  ASSUME KeyedType, Phase, \A s \in Side : base[s] # {}, True(Base, {}), Summed, NEW bs,
  NEW s \in Side
  PROVE  CountOf(bs)[s] = Cardinality(RowsOf(Base[s], UNION {KeysIn(b) : b \in bs}))
<1>1. Sum(s) = RowsOf(Base[s], Keys)
  BY SumExact DEF Summed
<1>2. CountOf(bs)[s] = Cardinality({r \in Sum(s) : \E b \in bs : r[1] \in KeysIn(b)})
  BY CountOfType DEF CountOf
<1>3. {r \in Sum(s) : \E b \in bs : r[1] \in KeysIn(b)} = RowsOf(Base[s], UNION {KeysIn(b) : b \in bs})
  <2> DEFINE t == Base[s]
             ks == UNION {KeysIn(b) : b \in bs}
  <2>1. \A k : k \in ks <=> \E b \in bs : k \in KeysIn(b)
    OBVIOUS
  <2>2. ks \subseteq Keys
    BY DEF KeysIn
  <2> HIDE DEF t, ks
  <2>3. {r \in RowsOf(t, Keys) : r[1] \in ks} = RowsOf(t, ks)
    BY <2>2 DEF RowsOf
  <2>4. {r \in Sum(s) : \E b \in bs : r[1] \in KeysIn(b)} = {r \in RowsOf(t, Keys) : r[1] \in ks}
    BY <1>1, <2>1 DEF t
  <2> QED BY <2>3, <2>4 DEF t, ks
<1> QED BY <1>2, <1>3

LEMMA ExactInit == Init => ExactInv
<1> SUFFICES ASSUME Init PROVE ExactInv
  OBVIOUS
<1>1. Anchored => pc \in Opening /\ pc # "snapRight"
  BY KeyedAssumption DEF Init, Anchored, KeyedStart, Opening, ModeType
<1> QED BY <1>1 DEF ExactInv

(* The snapshots are open and nothing has been read through them. *)
LEMMA ExactBegins ==
  ASSUME KeyedType', Phase', pc' \in {"count", "minusLeft"}, snap' = base', total' = Both({}),
         \A s \in Side : base'[s] # {}
  PROVE  ExactInv'
<1>1. sums' = Both({}) /\ found' = {} /\ missingBig' = 0 /\ warned' = FALSE
  BY DEF Phase, Counting, Ended
<1>2. SumsTell(Base, {})' /\ EmptyTell(Base, {})'
  BY <1>1 DEF SumsTell, EmptyTell, Both
<1>3. SeenTell(Base, {})' /\ Sound(Base, {})' /\ Complete(Base, {})'
  BY <1>1 DEF SeenTell, Sound, Complete, Ended
<1>4. Counts'
  BY <1>1 DEF Counts, Both
<1> QED BY <1>2, <1>3, <1>4 DEF ExactInv, True, Opening

LEMMA OpeningExact ==
  ASSUME KeyedInv, KeyedInv', ExactInv, Actions, pc \in Opening
  PROVE  ExactInv'
<1> SUFFICES ASSUME Anchored' PROVE ExactInv'
  BY DEF ExactInv
<1>0. KeyedType /\ Phase /\ KeyedType' /\ Phase' /\ total = Both({}) /\ Both({}) = Both({})'
  BY DEF KeyedInv, Phase, Both
<1>1. CASE OpenSnapshot("left")
  <2>1. /\ snap' = [snap EXCEPT !["left"] = {tab["left"]}] /\ pc' = "snapRight"
        /\ base' = [base EXCEPT !["left"] = {tab["left"]}]
    BY <1>1 DEF OpenSnapshot
  <2>2. snap'["left"] = {tab["left"]} /\ base'["left"] = {tab["left"]}
    BY <1>0, <2>1 DEF KeyedType, Side
  <2> QED BY <2>1, <2>2 DEF ExactInv, Opening
<1>2. CASE OpenSnapshot("right")
  <2>1. /\ snap' = [snap EXCEPT !["right"] = {tab["right"]}] /\ pc' = "count" /\ pc = "snapRight"
        /\ base' = [base EXCEPT !["right"] = {tab["right"]}] /\ total' = total
        /\ UNCHANGED <<mode, exit>>
    BY <1>2 DEF OpenSnapshot, env, result
  <2>2. snap["left"] = base["left"] /\ base["left"] # {}
    BY <2>1 DEF ExactInv, Anchored
  <2>3. \A s \in Side : snap'[s] = base'[s] /\ base'[s] # {}
    BY <1>0, <2>1, <2>2 DEF KeyedType, Side
  <2>4. snap' = base'
    BY <1>0, <2>1, <2>3 DEF KeyedType
  <2> QED BY <1>0, <2>1, <2>3, <2>4, ExactBegins
<1>3. CASE Anchor
  <2>1. /\ snap' = [s \in Side |-> {tab[s]}] /\ base' = [s \in Side |-> {tab[s]}]
        /\ pc' = "minusLeft" /\ total' = total
    BY <1>3 DEF Anchor
  <2> QED BY <1>0, <2>1, ExactBegins
<1>4. CASE pc' \in Opening \ {"snapRight"}
  BY <1>4 DEF ExactInv
<1>5. ASSUME NEW s \in Side, OpenSnapshot(s) PROVE ExactInv'
  BY <1>1, <1>2, <1>5 DEF Side
<1>6. (\E s \in Side : OpenSnapshot(s)) \/ Anchor \/ pc' \in Opening \ {"snapRight"}
  <2>1. mode'.snapshot /\ exit' # "error"
    BY DEF Anchored
  <2>2. CASE Supported \/ Unsupported
    BY <2>1, <2>2 DEF Supported, Unsupported, FallBack, KeyedStart, Opening, env
  <2>3. pc \in {"probe", "anchor", "snapLeft", "snapRight"}
    BY DEF Opening
  <2>4. CASE KeyedStep
    BY <2>3, <2>4 DEF KeyedStep, KeyedCount, BatchChecksum, FetchPage, BothEmpty, ReadAll,
       ReadSmall,
       ChecksumBuckets, BucketsAgree, SharedScan, BucketByBucket, NextBucket, BucketsDone, Merged,
       SmallRead,
       PointQuery, MergeHits, Counted
  <2>5. CASE MinusStep
    BY <2>2, <2>3, <2>5 DEF MinusStep, OverCells, MinusCount, MinusSum, MinusNothing, CountOneSide,
       ReadOneSide,
       MinusEqual, MinusDiffer, SetDifference
  <2>6. CASE JoinStep \/ Finish \/ Fail
    BY <2>1, <2>3, <2>6 DEF JoinStep, OuterJoin, JoinCount, Finish, Fail
  <2> QED BY <2>4, <2>5, <2>6 DEF Actions
<1> QED BY <1>3, <1>4, <1>5, <1>6

(* The counts, while the snapshots are open: each total is the size of its *)
(* snapshot and each cursor fetches as many rows as were counted.          *)
Reading ==
  /\ KeyedInv /\ Anchored /\ pc \notin Opening \cup {"done"}
  /\ \A s \in Side : base[s] # {}
  /\ snap = base /\ True(Base, {}) /\ Counts

LEMMA ReadingFacts ==
  ASSUME Reading
  PROVE  /\ KeyedType /\ Phase /\ Cursors /\ Base \in Pair /\ mode.way # "join"
         /\ \A s \in Side : /\ base[s] # {} /\ Base[s] \in Table /\ Size(s) \in Nat
                            /\ total[s] # {} => total[s] = {Size(s)} /\ Total(s) = Size(s)
                            /\ Rows(s) = RowsOf(Base[s], Keys) /\ View(s) = Base[s]
         /\ True(Base, {}) /\ Counts /\ ~warned
<1>1. KeyedType /\ Phase /\ Cursors /\ \A s \in Side : base[s] # {}
  BY DEF Reading, KeyedInv
<1>2. ASSUME NEW s \in Side, total[s] # {} PROVE total[s] = {Size(s)} /\ Total(s) = Size(s)
  BY <1>2, SomeOf DEF Reading, Counts, Total
<1>3. Base \in Pair /\ \A s \in Side : Base[s] \in Table
  BY <1>1, BaseIs DEF Pair
<1> QED BY <1>1, <1>2, <1>3, BaseViews, SizeNat DEF Reading, Anchored, Counts

LEMMA TotalsExact ==
  ASSUME Reading, Actions, total' # Both({})
  PROVE  \A s \in Side : total'[s] \subseteq {Size(s)}
<1> USE ReadingFacts
<1>1. ASSUME NEW s \in Side, CountRows(s) PROVE \A z \in Side : total'[z] \subseteq {Size(z)}
  <2>1. total' = [total EXCEPT ![s] = {Cardinality(Rows(s))}] /\ Cardinality(Rows(s)) = Size(s)
    BY <1>1 DEF CountRows, Size
  <2> QED BY <2>1 DEF Counts, KeyedType
<1>2. CASE MinusEqual \/ MinusDiffer
  <2>1. total' = Recounted /\ Summed
    BY <1>2 DEF MinusEqual, MinusDiffer
  <2>2. \A s \in Side : Recounted[s] = {Size(s)}
    <3>1. \A s \in Side : Sum(s) = RowsOf(Base[s], Keys)
      BY <2>1, SumExact DEF Summed
    <3> QED BY <3>1 DEF Recounted, Size
  <2> QED BY <2>1, <2>2
<1>3. CASE UNCHANGED total
  BY <1>3 DEF Counts
<1>5. (\E s \in Side : CountRows(s)) \/ MinusEqual \/ MinusDiffer \/ UNCHANGED total
  BY DEF Actions, KeyedStep, MinusStep, JoinStep, OpenSnapshot, KeyedCount, FetchPage,
     BatchChecksum, MinusSum,
     BothEmpty, ReadAll, ReadSmall, ChecksumBuckets, BucketsAgree, SharedScan, BucketByBucket,
     NextBucket, BucketsDone, Merged, SmallRead, PointQuery, MergeHits, Supported, Unsupported,
     FallBack, Anchor, OverCells, MinusCount, MinusNothing, CountOneSide, ReadOneSide,
     SetDifference, OuterJoin, JoinCount, Finish, Fail
<1> QED BY <1>1, <1>2, <1>3, <1>5

LEMMA ExpectedExact ==
  ASSUME Reading, Actions, pc' = "merge"
  PROVE  \A s \in Side : expected'[s] = Cardinality(RowsOf(Base[s], scope'))
<1> USE ReadingFacts
<1>1. CASE ReadAll
  <2>1. /\ expected' = [s \in Side |-> Total(s)] /\ scope' = Keys
        /\ \A s \in Side : total[s] # {}
    BY <1>1 DEF ReadAll, Merging, Counted
  <2> QED BY <2>1 DEF Size
<1>2. CASE SharedScan
  <2>1. /\ expected' = CountOf(DiffBuckets) /\ scope' = UNION {KeysIn(b) : b \in DiffBuckets} /\ Summed
    BY <1>2 DEF SharedScan, Merging
  <2> QED BY <2>1, CountOfExact
<1>3. CASE NextBucket
  <2>1. /\ expected' = CountOf({Min(todo)}) /\ scope' = KeysIn(Min(todo)) /\ Summed
    BY <1>3 DEF NextBucket, Merging, Phase
  <2>2. UNION {KeysIn(b) : b \in {Min(todo)}} = KeysIn(Min(todo))
    OBVIOUS
  <2> QED BY <2>1, <2>2, CountOfExact
<1>4. ASSUME NEW s \in Side, FetchPage(s)
      PROVE  \A z \in Side : expected'[z] = Cardinality(RowsOf(Base[z], scope'))
  BY <1>4 DEF FetchPage, Counts
<1>5. \/ ReadAll \/ SharedScan \/ NextBucket \/ \E s \in Side : FetchPage(s)
  BY DEF Actions, KeyedStep, MinusStep, JoinStep, OpenSnapshot, KeyedCount, Counted,
     BatchChecksum, MinusSum, BothEmpty, ReadSmall, ChecksumBuckets, BucketsAgree, BucketByBucket,
     BucketsDone, Merged, SmallRead, PointQuery, MergeHits, Supported, Unsupported,
     FallBack, KeyedStart, Anchor, OverCells, MinusCount, MinusNothing, CountOneSide, ReadOneSide,
     Report,
     MinusEqual, MinusDiffer, SetDifference, OuterJoin, JoinCount, Finish, Fail
<1> QED BY <1>1, <1>2, <1>3, <1>4, <1>5

(* A part of a snapshot has no more rows than the whole.                   *)
LEMMA PartSize ==
  ASSUME NEW s \in Side, NEW ks \in SUBSET Keys, Base[s] \in Table
  PROVE  Cardinality(RowsOf(Base[s], ks)) <= Size(s) /\ Cardinality(RowsOf(Base[s], ks)) \in Nat
<1> DEFINE whole == RowsOf(Base[s], Keys)
           part == RowsOf(Base[s], ks)
<1>1. part \subseteq whole
  BY DEF RowsOf
<1>2. IsFiniteSet(whole) /\ Size(s) = Cardinality(whole)
  BY RowsOfSet, RowSetSize DEF Size
<1> HIDE DEF whole, part
<1>3. Cardinality(part) <= Cardinality(whole) /\ Cardinality(part) \in Nat
  BY <1>1, <1>2, SubsetSize
<1> QED BY <1>2, <1>3 DEF part

LEMMA NoWarning ==
  ASSUME Reading, Actions
  PROVE  ~warned'
<1> USE ReadingFacts
<1>1. CASE Merged
  <2>1. pc = "merge" /\ exhausted = Both(TRUE) /\ path # "point" /\ warned' = (warned \/ FetchMismatch)
    BY <1>1 DEF Merged, Phase
  <2>2. \A s \in Side : Read(s) = scope
    BY <2>1 DEF Read, Both, KeyedType
  <2>3. \A s \in Side : Fetched(s) = expected[s]
    BY <2>1, <2>2, SeenExact DEF Fetched, Counts
  <2> QED BY <2>1, <2>3 DEF FetchMismatch
<1>2. CASE SmallRead
  <2>1. /\ pc = "small" /\ exhausted = Both(TRUE) /\ \A s \in Side : total[s] # {}
        /\ warned' = (warned \/ Fetched(Small) # expected[Small])
    BY <1>2 DEF SmallRead, Phase
  <2>2. Small \in Side /\ Small # Big
    BY <2>1, Sides
  <2>3. Read(Small) = Keys /\ expected[Small] = Total(Small)
    BY <2>1, <2>2 DEF Read, Both, Cursors
  <2>4. Fetched(Small) = Total(Small)
    BY <2>1, <2>2, <2>3, SeenExact DEF Fetched, Size
  <2> QED BY <2>1, <2>3, <2>4
<1>3. CASE MergeHits
  <2>1. /\ pc = "hits" /\ path = "point" /\ \A s \in Side : total[s] # {}
        /\ warned' = (warned \/ Fetched(Big) > Total(Big)) /\ asked \in SUBSET Keys
    BY <1>3 DEF MergeHits, Phase, KeyedType
  <2>2. Big \in Side
    BY <2>1, Sides
  <2>3. seen[Big] = RowsOf(Base[Big], asked)
    BY <2>1, <2>2, SeenExact DEF Read
  <2>4. Cardinality(RowsOf(Base[Big], asked)) <= Size(Big) /\ Cardinality(RowsOf(Base[Big], asked)) \in Nat
    BY <2>1, <2>2, PartSize
  <2>5. Total(Big) = Size(Big) /\ Size(Big) \in Nat
    BY <2>1, <2>2
  <2>6. Fetched(Big) = Cardinality(RowsOf(Base[Big], asked))
    BY <2>3 DEF Fetched
  <2>7. ~(Fetched(Big) > Total(Big))
    BY <2>4, <2>5, <2>6, SMT
  <2> QED BY <2>1, <2>7
<1>4. CASE MinusEqual \/ MinusDiffer
  <2>1. (warned' = (Recounted # total)) /\ Summed /\ \A s \in Side : total[s] # {}
    BY <1>4 DEF MinusEqual, MinusDiffer, Report, Phase
  <2>2. \A s \in Side : Recounted[s] = total[s]
    <3>1. \A s \in Side : Sum(s) = RowsOf(Base[s], Keys)
      BY <2>1, SumExact DEF Summed
    <3> QED BY <2>1, <3>1 DEF Recounted, Size
  <2>3. Recounted = total
    <3>1. Recounted = [s \in Side |-> Recounted[s]] /\ total = [s \in Side |-> total[s]]
      BY DEF Recounted, KeyedType
    <3> QED BY <2>2, <3>1
  <2> QED BY <2>1, <2>3
<1>5. CASE warned' = FALSE \/ warned' = warned
  BY <1>5
<1>6. Merged \/ SmallRead \/ MergeHits \/ MinusEqual \/ MinusDiffer \/ warned' = FALSE \/ warned' = warned
  BY DEF Actions, KeyedStep, MinusStep, JoinStep, OpenSnapshot, KeyedCount, CountRows, FetchPage,
     BatchChecksum, MinusSum,
     BothEmpty, ReadAll, ReadSmall, ChecksumBuckets, BucketsAgree, SharedScan, BucketByBucket,
     NextBucket, BucketsDone, PointQuery, Supported, Unsupported,
     FallBack, Anchor, OverCells, MinusCount, MinusNothing, CountOneSide, ReadOneSide, Report,
     SetDifference, OuterJoin, JoinCount, Finish, Fail, result
<1> QED BY <1>1, <1>2, <1>3, <1>4, <1>5, <1>6

-----------------------------------------------------------------------------
(* Rows that are counted and not fetched.                                  *)
Present(t) == {k \in Keys : t[k] # Absent}

LEMMA SizeIs ==
  ASSUME NEW s \in Side, Base[s] \in Table
  PROVE  IsFiniteSet(Present(Base[s])) /\ Size(s) = Cardinality(Present(Base[s]))
<1> DEFINE R == RowsOf(Base[s], Keys)
<1>1. R \in RowSet /\ KeysOf(R) = Present(Base[s])
  BY RowsOfSet DEF Present
<1> HIDE DEF R
<1>2. IsFiniteSet(KeysOf(R)) /\ Cardinality(KeysOf(R)) = Cardinality(R)
  BY <1>1, RowSetSize
<1> QED BY <1>1, <1>2 DEF Size, R

LEMMA LessSize ==
  ASSUME NEW A, IsFiniteSet(A), NEW B \in SUBSET A
  PROVE  LessOf(Cardinality(A), Cardinality(B)) = Cardinality(A \ B)
<1>1. A \cap B = B
  OBVIOUS
<1>2. Cardinality(A \ B) = Cardinality(A) - Cardinality(B)
  BY <1>1, FS_Difference
<1>3. Cardinality(A) \in Nat /\ Cardinality(B) \in Nat /\ Cardinality(B) <= Cardinality(A)
  BY SubsetSize, FS_CardinalityType
<1> QED BY <1>2, <1>3 DEF LessOf

LEMMA HitsExact ==
  ASSUME Reading, MergeHits
  PROVE  /\ Missing = Cardinality(OnlyIn(Base, Big))
         /\ \A d \in found' : Base[Small][d.key] # Absent
<1> DEFINE A == Present(Base[Big])
           B == {k \in asked : Base[Big][k] # Absent}
<1>1. /\ KeysOf(seen[Small]) = asked /\ asked \in SUBSET Keys /\ pc = "hits" /\ path = "point"
      /\ exhausted = Both(TRUE) /\ scope = Keys /\ \A s \in Side : total[s] # {}
      /\ found' = DiffRows(seen["left"], seen["right"])
  BY ReadingFacts DEF MergeHits, Phase, Cursors, KeyedType
<1>2. Big \in Side /\ Small \in Side /\ Small # Big /\ {Big, Small} = {"left", "right"}
  BY <1>1, ReadingFacts, Sides DEF Side
<1>3. Base[Big] \in Table /\ Base[Small] \in Table
  BY <1>2, ReadingFacts
<1>4. seen[Small] = RowsOf(Base[Small], Keys) /\ seen[Big] = RowsOf(Base[Big], asked)
  <2>1. Read(Small) = Keys /\ Read(Big) = asked
    BY <1>1, <1>2 DEF Read, Both
  <2> QED BY <1>1, <1>2, <2>1, SeenExact, ReadingFacts
<1>5. asked = Present(Base[Small]) /\ KeysOf(seen[Big]) = B
  <2>1. KeysOf(RowsOf(Base[Small], Keys)) = Present(Base[Small])
    BY <1>3, RowsOfSet DEF Present
  <2>2. KeysOf(RowsOf(Base[Big], asked)) = B
    BY <1>1, <1>3, RowsOfSet
  <2> QED BY <1>1, <1>4, <2>1, <2>2
<1>6. B \in SUBSET A /\ A \ B = OnlyIn(Base, Big) /\ KeysOf(seen[Small]) \cap KeysOf(seen[Big]) = B
  BY <1>1, <1>5 DEF Present, OnlyIn, Small
<1>7. Total(Big) = Cardinality(A) /\ IsFiniteSet(A)
  BY <1>1, <1>2, <1>3, ReadingFacts, SizeIs
<1> HIDE DEF A, B
<1>8. Missing = Cardinality(OnlyIn(Base, Big))
  BY <1>6, <1>7, LessSize DEF Missing
<1>9. ASSUME NEW d \in found' PROVE Base[Small][d.key] # Absent
  <2>1. d.key \in KeysOf(seen["left"]) \cup KeysOf(seen["right"])
    BY <1>1 DEF DiffRows
  <2>2. d.key \in asked
    BY <1>1, <1>2, <1>5, <2>1 DEF B
  <2> QED BY <1>5, <2>2 DEF Present
<1> QED BY <1>8, <1>9

LEMMA CountedExact ==
  ASSUME Reading, CountOneSide
  PROVE  Larger = Cardinality(OnlyIn(Base, Big)) /\ found' = {}
<1>1. pc = "minus" /\ Smaller = 0 /\ \A s \in Side : total[s] # {}
  BY ReadingFacts DEF CountOneSide, Phase
<1>2. Big \in Side /\ Small \in Side /\ Total(Big) = Larger /\ total[Small] = {0}
  BY <1>1, ReadingFacts, Sides
<1>3. \A k \in Keys : Base[Small][k] = Absent
  BY <1>2, ReadingFacts DEF True, EmptyTell
<1>4. OnlyIn(Base, Big) = Present(Base[Big])
  BY <1>3 DEF OnlyIn, Present, Small
<1>5. Larger = Cardinality(Present(Base[Big]))
  BY <1>1, <1>2, ReadingFacts, SizeIs
<1>6. found' = {}
  BY <1>1, ReadingFacts DEF CountOneSide, Phase, Ended
<1> QED BY <1>4, <1>5, <1>6

LEMMA SameBase ==
  ASSUME UNCHANGED base
  PROVE  UNCHANGED Base /\ \A s : UNCHANGED Size(s)
BY DEF Base, Size

LEMMA MissingExact ==
  ASSUME Reading, Actions, UNCHANGED base, missingBig' # 0
  PROVE  /\ missingBig' = Cardinality(OnlyIn(Base, Big))'
         /\ \A d \in found' : (Base[Small][d.key])' # Absent
<1>1. Base' = Base
  BY SameBase
<1>2. CASE MergeHits
  <2>1. missingBig' = Missing /\ UNCHANGED total
    BY <1>2 DEF MergeHits
  <2>2. Big' = Big /\ Small' = Small
    BY <2>1, SameTotals
  <2> QED BY <1>1, <1>2, <2>1, <2>2, HitsExact DEF OnlyIn
<1>3. CASE CountOneSide
  <2>1. missingBig' = Larger /\ UNCHANGED total
    BY <1>3 DEF CountOneSide
  <2>2. Big' = Big /\ Small' = Small
    BY <2>1, SameTotals
  <2> QED BY <1>1, <1>3, <2>1, <2>2, CountedExact DEF OnlyIn
<1>4. CASE Finish
  <2>1. UNCHANGED <<missingBig, total, found>>
    BY <1>4 DEF Finish
  <2>2. Big' = Big /\ Small' = Small
    BY <2>1, SameTotals
  <2>3. /\ missingBig = Cardinality(OnlyIn(Base, Big))
        /\ \A d \in found : Base[Small][d.key] # Absent
    BY <2>1, ReadingFacts DEF Counts
  <2> QED BY <1>1, <2>1, <2>2, <2>3 DEF OnlyIn
<1>5. CASE UNCHANGED missingBig /\ pc \notin {"commit", "done"}
  BY <1>5, ReadingFacts DEF Phase
<1>6. MergeHits \/ CountOneSide \/ Finish \/ (UNCHANGED missingBig /\ pc \notin {"commit", "done"})
  BY DEF Actions, KeyedStep, MinusStep, JoinStep, OpenSnapshot, KeyedCount, CountRows, FetchPage,
     BatchChecksum, MinusSum, MinusCount, JoinCount, Counted, KeyedStart,
     BothEmpty, ReadAll, ReadSmall, ChecksumBuckets, BucketsAgree, SharedScan, BucketByBucket,
     NextBucket, BucketsDone, PointQuery, Supported, Unsupported, Merged, SmallRead,
     FallBack, Anchor, OverCells, MinusNothing, ReadOneSide, Report, MinusEqual, MinusDiffer,
     SetDifference, OuterJoin, Fail, result
<1> QED BY <1>2, <1>3, <1>4, <1>5, <1>6

LEMMA ReadingFrame ==
  ASSUME Reading, Actions, pc' \notin Opening, exit' # "error"
  PROVE  UNCHANGED base /\ (pc' # "done" => UNCHANGED snap)
<1>1. /\ pc \notin Opening \cup {"done"} /\ mode.snapshot /\ mode.way # "join" /\ Phase
  BY ReadingFacts DEF Reading, Anchored
<1>2. pc \notin {"probe", "anchor", "snapLeft", "snapRight", "done"}
  BY <1>1 DEF Opening
<1>3. CASE OverCells
  BY <1>1, <1>3 DEF OverCells, FallBack, KeyedStart, Opening
<1>4. CASE KeyedStep
  BY <1>2, <1>4 DEF KeyedStep, OpenSnapshot, KeyedCount, CountRows, BatchChecksum, FetchPage,
     BothEmpty,
     ReadAll, ReadSmall, ChecksumBuckets, BucketsAgree, SharedScan, BucketByBucket, NextBucket,
     BucketsDone,
     Merged, SmallRead, PointQuery, MergeHits, view
<1>5. CASE MinusStep
  BY <1>2, <1>3, <1>5 DEF MinusStep, Supported, Unsupported, Anchor, MinusCount, CountRows,
     MinusSum,
     MinusNothing, CountOneSide, ReadOneSide, MinusEqual, MinusDiffer, SetDifference, Report, view
<1>6. CASE JoinStep \/ Finish \/ Fail
  BY <1>2, <1>6 DEF JoinStep, OuterJoin, JoinCount, CountRows, Finish, Fail, view
<1> QED BY <1>4, <1>5, <1>6 DEF Actions

LEMMA Moving ==
  ASSUME Actions
  PROVE  UNCHANGED mode /\ pc # "done" /\ (pc' = "snapRight" => pc = "snapLeft")
BY DEF Counted, KeyedStart, Actions, KeyedStep, MinusStep, JoinStep, OpenSnapshot, KeyedCount,
   CountRows, FetchPage, BatchChecksum,
   MinusCount, MinusSum, BothEmpty, ReadAll, ReadSmall, ChecksumBuckets, BucketsAgree, SharedScan,
   BucketByBucket, NextBucket, BucketsDone, Merged, SmallRead, PointQuery, MergeHits, Supported,
   Unsupported,
   FallBack, Anchor, OverCells, MinusNothing, CountOneSide, ReadOneSide, Report, MinusEqual,
   MinusDiffer, SetDifference, OuterJoin, JoinCount, Finish, Fail, env

LEMMA EndedTotals ==
  ASSUME KeyedType, Phase, TotalsKnown, Actions, pc' \in {"commit", "done"}, exit' # "error",
  NEW s \in Side
  PROVE  total'[s] # {}
<1>0. pc # "done" /\ exit = "none"
  BY Moving DEF Phase
<1>1. CASE MinusEqual
  BY <1>1 DEF MinusEqual, Recounted
<1>2. CASE UNCHANGED total /\ ~JoinStep
  <2>1. \A z \in Side : total[z] # {}
    <3>2. \/ Counted
          \/ pc \in {"minus", "sums", "bucket", "merge", "small", "hits", "except", "commit"}
      <4>1. CASE KeyedStep
        BY <4>1 DEF KeyedStep, OpenSnapshot, KeyedCount, CountRows, BatchChecksum, FetchPage,
           BothEmpty, ReadAll, ReadSmall, ChecksumBuckets, BucketsAgree, SharedScan,
           BucketByBucket, NextBucket,
           BucketsDone, Merged, SmallRead, PointQuery, MergeHits
      <4>2. CASE MinusStep
        BY <4>2 DEF MinusStep, Supported, Unsupported, FallBack, KeyedStart, Anchor, OverCells,
           MinusCount, MinusSum, MinusNothing, CountOneSide, ReadOneSide, MinusEqual, MinusDiffer,
           SetDifference
      <4>3. CASE Finish \/ Fail
        BY <4>3 DEF Finish, Fail
      <4> QED BY <1>2, <4>1, <4>2, <4>3 DEF Actions
    <3> QED BY <1>0, <3>2 DEF Phase, TotalsKnown, Counted
  <2> QED BY <1>2, <2>1
<1>3. CASE JoinCount("right")
  <2>1. total["left"] # {} /\ total' = [total EXCEPT !["right"] = {Cardinality(Rows("right"))}]
    BY <1>3 DEF JoinCount, CountRows, Phase
  <2> QED BY <2>1 DEF KeyedType, Side
<1>4. MinusEqual \/ (UNCHANGED total /\ ~JoinStep) \/ JoinCount("right")
    BY DEF Actions, KeyedStep, MinusStep, JoinStep, OpenSnapshot, KeyedCount, FetchPage,
       BatchChecksum,
       MinusCount, MinusSum, BothEmpty, ReadAll, ReadSmall, ChecksumBuckets, BucketsAgree,
       SharedScan,
       BucketByBucket, NextBucket, BucketsDone, Merged, SmallRead, PointQuery, MergeHits,
       Supported, Unsupported,
       FallBack, KeyedStart, Anchor, OverCells, MinusNothing, CountOneSide, ReadOneSide,
       MinusDiffer,
       SetDifference, OuterJoin, JoinCount, Finish, Fail, Side
<1> QED BY <1>1, <1>2, <1>3, <1>4

LEMMA CountsStep ==
  ASSUME Reading, Actions, pc' \notin Opening, exit' # "error"
  PROVE  Counts'
<1>1. UNCHANGED Base /\ \A s : UNCHANGED Size(s)
  BY ReadingFrame, SameBase
<1>2. \A s \in Side : total'[s] \subseteq {Size(s)}'
  BY <1>1, TotalsExact DEF Both
<1>3. pc' = "merge" => \A s \in Side : expected'[s] = Cardinality(RowsOf(Base[s], scope))'
  BY <1>1, ExpectedExact DEF RowsOf
<1>4. pc' \in {"commit", "done"} => \A s \in Side : total'[s] # {}
  BY EndedTotals, ReadingFacts DEF TotalsKnown, Counts
<1> QED BY <1>2, <1>3, <1>4, NoWarning, ReadingFrame, MissingExact DEF Counts

LEMMA ReadingExact ==
  ASSUME Reading, Actions, KeyedInv'
  PROVE  ExactInv'
<1> SUFFICES ASSUME Anchored', pc' \notin Opening
             PROVE  /\ \A s \in Side : base'[s] # {}
                    /\ pc' # "done" => snap' = base'
                    /\ True(Base, {})' /\ Counts'
  <2>1. pc' # "snapRight"
    BY Moving DEF Reading, Opening
  <2> QED BY <2>1 DEF ExactInv
<1>1. exit' # "error"
  BY DEF Anchored
<1>2. UNCHANGED base /\ (pc' # "done" => UNCHANGED snap) /\ Counts'
  BY <1>1, ReadingFrame, CountsStep
<1>3. True(Base, {})'
  <2>1. PICK T \in Pair : T = Base
    BY ReadingFacts
  <2>2. Shows(T, {}) /\ True(T, {})
    BY <2>1, ReadingFacts, BaseViews DEF Reading
  <2>3. True(T, {})'
    BY <2>2, TrueStep, ReadingFacts
  <2>4. Base' = T
    BY <1>2, <2>1, SameBase
  <2> QED BY <2>3, <2>4 DEF True, SumsTell, EmptyTell, SeenTell, Sound, Complete
<1> QED BY <1>2, <1>3 DEF Reading

LEMMA IdleExact ==
  ASSUME KeyedInv, ExactInv, AnyWrite \/ UNCHANGED vars
  PROVE  ExactInv'
<1>1. UNCHANGED <<mode, view, pc, total, sums, path, todo, merge, asked, result>>
  BY WriteGrows DEF KeyedInv
<1>2. UNCHANGED <<mode, snap, base, pc, total, sums, path, todo, scope, expected, seen, pos, exhausted, asked,
                  found, missingBig, warned, exit>>
  BY <1>1 DEF view, merge, cursors, result
<1>3. UNCHANGED Base /\ (\A s : UNCHANGED Size(s)) /\ UNCHANGED <<Big, Small>>
  BY <1>2, SameBase, SameTotals
<1>4. UNCHANGED Anchored
  BY <1>2 DEF Anchored
<1>5. Counts => Counts'
  BY <1>2, <1>3 DEF Counts, RowsOf, OnlyIn
<1>6. True(Base, {}) => True(Base, {})'
  <2>1. PICK T : T = Base
    OBVIOUS
  <2>2. True(T, {}) => True(T, {})'
    <3>1. UNCHANGED <<Buckets, Waiting, Pending>> /\ (\A s : UNCHANGED Read(s)) /\ \A k : UNCHANGED Told(T, k)
      <4>1. UNCHANGED <<Buckets, Waiting>>
        BY <1>2, SameTotals, SameWaiting
      <4>2. UNCHANGED Pending
        BY <1>2, <4>1 DEF Pending
      <4>3. \A s : UNCHANGED Read(s)
        BY <1>2, <1>3 DEF Read
      <4> QED BY <1>2, <1>3, <4>1, <4>2, <4>3 DEF Told
    <3> QED BY <1>2, <3>1 DEF True, SumsTell, EmptyTell, SeenTell, Sound, Complete
  <2> QED BY <1>3, <2>1, <2>2 DEF True, SumsTell, EmptyTell, SeenTell, Sound, Complete
<1> QED BY <1>2, <1>4, <1>5, <1>6, <1>3 DEF ExactInv

LEMMA ExactStep ==
  ASSUME KeyedInv, ExactInv, [Next]_vars
  PROVE  ExactInv'
<1>0. KeyedInv'
  BY TypeStep, PhaseStep, CursorsStep DEF KeyedInv
<1>1. CASE Actions /\ pc \in Opening
  BY <1>0, <1>1, OpeningExact
<1>2. CASE Actions /\ pc \notin Opening
  <2>1. pc # "done"
    BY <1>2, Moving
  <2>2. CASE Anchored
    BY <1>0, <1>2, <2>1, <2>2, ReadingExact DEF Reading, ExactInv
  <2>3. CASE ~Anchored
    <3>1. UNCHANGED mode /\ exit = "none"
      BY <1>2, <2>1, Moving DEF KeyedInv, Phase
    <3> QED BY <2>3, <3>1 DEF Anchored, ExactInv
  <2> QED BY <2>2, <2>3
<1>3. CASE AnyWrite \/ UNCHANGED vars
  BY <1>3, IdleExact
<1> QED BY <1>1, <1>2, <1>3 DEF Next, Actions, AnyWrite

(* Under --consistency snapshot everything read is what the snapshots      *)
(* hold, the totals are their sizes, nothing has warned, and the rows      *)
(* counted but not fetched are those the small side lacks, also after      *)
(* minusdiff gave way to keyeddiff (keyed_diff.rs:52-58, 1049-1061,        *)
(* minus_diff/mod.rs:324-340).                                             *)
THEOREM ExactInvariant == Spec => []ExactInv
<1>1. Init => ExactInv
  BY ExactInit
<1>2. KeyedInv /\ ExactInv /\ [Next]_vars => ExactInv'
  BY ExactStep
<1> QED BY <1>1, <1>2, KeyedInvariant, PTL DEF Spec

-----------------------------------------------------------------------------
(* The differences of two tables, by key and by count.                     *)
Truth(T) == DiffRows(RowsOf(T["left"], Keys), RowsOf(T["right"], Keys))
MissingOn(s) == IF s = "left" THEN "missing_left" ELSE "missing_right"

LEMMA TruthIs ==
  ASSUME NEW T \in Pair
  PROVE  /\ \A d \in Truth(T) : d.key \in Keys /\ Differs(T, d.key) /\ d = DiffOf(T, d.key)
         /\ \A k \in Keys : Differs(T, k) => DiffOf(T, k) \in Truth(T)
<1>1. \A s \in Side : T[s] \in Table /\ RowsOf(T[s], Keys) \in SUBSET Row
  BY RowsOfSet DEF Pair, RowSet
<1>2. \A s \in Side : Tells(RowsOf(T[s], Keys), T[s], Keys, {})
  BY <1>1, RowsOfTell
<1>3. "left" \in Side /\ "right" \in Side
  BY DEF Side
<1> QED BY <1>1, <1>2, <1>3, DiffRowsTell DEF Truth

LEMMA TruthFinite ==
  ASSUME NEW T \in Pair
  PROVE  IsFiniteSet(Truth(T))
<1> DEFINE ks == {k \in Keys : Differs(T, k)}
           f == [k \in ks |-> DiffOf(T, k)]
<1>1. ks \subseteq Keys
  OBVIOUS
<1>2. IsFiniteSet(ks)
  BY <1>1, KeyedAssumption, FS_Subset
<1>3. (\A k \in ks : DiffOf(T, k) \in Truth(T)) /\ \A d \in Truth(T) : d.key \in ks /\ d = DiffOf(T, d.key)
  BY TruthIs
<1> HIDE DEF ks
<1>4. f \in Surjection(ks, Truth(T))
  BY <1>3 DEF Surjection
<1> HIDE DEF f
<1> QED BY <1>2, <1>4, FS_Surjection

LEMMA DiffStatus ==
  ASSUME NEW T \in Pair, NEW k \in Keys, Differs(T, k)
  PROVE  /\ DiffOf(T, k).key = k
         /\ \A s \in Side : DiffOf(T, k).status = MissingOn(s) <=> T[s][k] = Absent
         /\ DiffOf(T, k).status = "modified" => \A s \in Side : T[s][k] # Absent
BY DEF DiffOf, Differs, MissingOn, Side

LEMMA MissingSize ==
  ASSUME NEW T \in Pair, NEW s \in Side
  PROVE  Cardinality({d \in Truth(T) : d.status = MissingOn(s)}) = Cardinality(OnlyIn(T, Other(s)))
<1> DEFINE only == OnlyIn(T, Other(s))
           rows == {d \in Truth(T) : d.status = MissingOn(s)}
           f == [k \in only |-> DiffOf(T, k)]
<1>1. only \subseteq Keys /\ IsFiniteSet(only)
  <2>1. only \subseteq Keys /\ IsFiniteSet(Keys)
    BY KeyedAssumption DEF OnlyIn
  <2> HIDE DEF only
  <2> QED BY <2>1, SubsetSize
<1>2. Other(s) \in Side /\ Other(Other(s)) = s /\ Other(s) # s /\ {s, Other(s)} = {"left", "right"}
  BY DEF Other, Side
<1>3. \A k \in only : T[s][k] = Absent /\ T[Other(s)][k] # Absent /\ Differs(T, k)
  BY <1>2 DEF OnlyIn, Differs
<1>4. \A k \in only : DiffOf(T, k) \in rows /\ DiffOf(T, k).key = k
  BY <1>1, <1>3, TruthIs, DiffStatus
<1>5. \A d \in rows : d.key \in only /\ d = DiffOf(T, d.key)
  <2> SUFFICES ASSUME NEW d \in rows PROVE d.key \in only /\ d = DiffOf(T, d.key)
    OBVIOUS
  <2>1. d.key \in Keys /\ Differs(T, d.key) /\ d = DiffOf(T, d.key) /\ d.status = MissingOn(s)
    BY TruthIs
  <2>2. T[s][d.key] = Absent
    BY <2>1, DiffStatus
  <2> QED BY <1>2, <2>1, <2>2 DEF OnlyIn, Differs
<1> HIDE DEF only, rows
<1>6. f \in [only -> rows] /\ \A j, k \in only : f[j] = f[k] => j = k
  BY <1>4
<1>7. \A d \in rows : \E k \in only : f[k] = d
  BY <1>5
<1> HIDE DEF f
<1>8. f \in Bijection(only, rows)
  BY <1>6, <1>7 DEF Bijection, Injection, Surjection, IsInjective
<1> QED BY <1>1, <1>8, FS_Bijection DEF ExistsBijection, only, rows

(* What a report of snapshots has counted: the rows it did not fetch are    *)
(* the rest of those missing on the small side.                            *)
LEMMA ReportedExact ==
  ASSUME KeyedInv, ExactInv, Reported, mode.snapshot, mode.way # "join"
  PROVE  /\ Base \in Pair /\ found \subseteq Truth(Base) /\ ~warned
         /\ missingBig = 0 => found = Truth(Base)
         /\ \A s \in Side : total[s] = {Size(s)} /\ Total(s) = Size(s) /\ Size(s) \in Nat
         /\ \A s \in Side : Lacking(s) = Cardinality({d \in Truth(Base) : d.status = MissingOn(s)})
         /\ Status("modified") = Cardinality({d \in Truth(Base) : d.status = "modified"})
<1>1. pc = "done" /\ Anchored /\ exit # "error"
  BY DEF Reported, KeyedInv, Phase, Anchored
<1>2. (\A s \in Side : base[s] # {}) /\ True(Base, {}) /\ Counts
  BY <1>1 DEF ExactInv, Opening
<1>3. Base \in Pair /\ ~warned
  BY <1>2, BaseIs DEF KeyedInv, Counts
<1>4. PICK T \in Pair : T = Base
  BY <1>3
<1>5. \A d \in found : d.key \in Keys /\ Differs(T, d.key) /\ d = DiffOf(T, d.key)
  BY <1>2, <1>4 DEF True, Sound
<1>6. \A k \in Keys : Differs(T, k) => Told(T, k)
  BY <1>1, <1>2, <1>4 DEF True, Complete, Ended
<1>7. found \subseteq Truth(T)
  BY <1>5, TruthIs
<1>8. ASSUME missingBig = 0 PROVE found = Truth(T)
  BY <1>3, <1>6, <1>7, <1>8, TruthIs DEF Told
<1>9. \A s \in Side : total[s] = {Size(s)} /\ Total(s) = Size(s) /\ Size(s) \in Nat
  <2>1. ASSUME NEW s \in Side PROVE total[s] = {Size(s)} /\ Size(s) \in Nat
    BY <1>1, <1>2, SizeNat DEF KeyedInv, Counts
  <2> QED BY <2>1 DEF Total
<1>10. /\ \A s \in Side : Lacking(s) = Cardinality({d \in Truth(T) : d.status = MissingOn(s)})
       /\ Status("modified") = Cardinality({d \in Truth(T) : d.status = "modified"})
  <2>1. \A s \in Side : Lacking(s) = Status(MissingOn(s)) + (IF missingBig > 0 /\ s = Small THEN missingBig ELSE 0)
    BY DEF Lacking, MissingOn
  <2>2. missingBig \in Nat /\ IsFiniteSet(Truth(T))
    <3> QED BY TruthFinite DEF KeyedInv, KeyedType
  <2>3. ASSUME NEW status PROVE Cardinality({d \in Truth(T) : d.status = status}) \in Nat
    BY <2>2, FS_Subset, FS_CardinalityType
  <2>4. CASE missingBig = 0
    <3>1. \A status : Status(status) = Cardinality({d \in Truth(T) : d.status = status})
      BY <1>8, <2>4 DEF Status
    <3>2. \A s \in Side : Lacking(s) = Status(MissingOn(s)) + 0
      BY <2>1, <2>4
    <3>3. \A status : Status(status) \in Nat
      BY <2>3, <3>1
    <3>4. \A s \in Side : Lacking(s) = Status(MissingOn(s))
      BY <3>2, <3>3
    <3> QED BY <3>1, <3>4
  <2>5. CASE missingBig > 0
    <3>1. /\ missingBig = Cardinality(OnlyIn(T, Big)) /\ \A d \in found : T[Small][d.key] # Absent
      BY <1>2, <1>4, <2>5 DEF Counts
    <3>2. Big \in Side /\ Small \in Side /\ Small # Big /\ Other(Small) = Big /\ \A s \in Side : s = Big \/ s = Small
      BY <1>9, Sides DEF KeyedInv, Small, Other, Side
    <3>3. ASSUME NEW k \in Keys, Differs(T, k), T[Small][k] # Absent PROVE DiffOf(T, k) \in found
      BY <1>6, <2>5, <3>3 DEF Told
    <3>4. {d \in found : d.status = MissingOn(Small)} = {}
      BY <1>5, <3>1, <3>2, DiffStatus
    <3>5. Lacking(Small) = Cardinality({d \in Truth(T) : d.status = MissingOn(Small)})
      <4>1. Status(MissingOn(Small)) = 0
        BY <3>4, FS_EmptySet DEF Status
      <4>2. Lacking(Small) = missingBig
        BY <2>1, <2>2, <2>5, <3>2, <4>1
      <4> QED BY <3>1, <3>2, <4>2, MissingSize
    <3>6. {d \in found : d.status = MissingOn(Big)} = {d \in Truth(T) : d.status = MissingOn(Big)}
      <4>1. ASSUME NEW d \in Truth(T), d.status = MissingOn(Big) PROVE d \in found
        <5>1. d.key \in Keys /\ Differs(T, d.key) /\ d = DiffOf(T, d.key)
          BY TruthIs
        <5>2. T[Big][d.key] = Absent
          BY <3>2, <4>1, <5>1, DiffStatus
        <5>3. T[Small][d.key] # Absent
          BY <3>2, <5>1, <5>2 DEF Differs, Side
        <5> QED BY <3>3, <5>1, <5>3
      <4> QED BY <1>7, <4>1
    <3>7. Lacking(Big) = Cardinality({d \in Truth(T) : d.status = MissingOn(Big)})
      <4>1. Status(MissingOn(Big)) = Cardinality({d \in Truth(T) : d.status = MissingOn(Big)})
        BY <3>6 DEF Status
      <4>2. Lacking(Big) = Status(MissingOn(Big)) + 0
        BY <2>1, <3>2
      <4>3. Status(MissingOn(Big)) \in Nat
        BY <2>3, <4>1
      <4>4. Lacking(Big) = Status(MissingOn(Big))
        BY <4>2, <4>3
      <4> QED BY <4>1, <4>4
    <3>8. {d \in found : d.status = "modified"} = {d \in Truth(T) : d.status = "modified"}
      <4>1. ASSUME NEW d \in Truth(T), d.status = "modified" PROVE d \in found
        <5>1. d.key \in Keys /\ Differs(T, d.key) /\ d = DiffOf(T, d.key)
          BY TruthIs
        <5>2. T[Small][d.key] # Absent
          BY <3>2, <4>1, <5>1, DiffStatus
        <5> QED BY <3>3, <5>1, <5>2
      <4> QED BY <1>7, <4>1
    <3> QED BY <3>2, <3>5, <3>7, <3>8 DEF Status
  <2> QED BY <2>2, <2>4, <2>5
<1> QED BY <1>3, <1>4, <1>7, <1>8, <1>9, <1>10

LEMMA ExactSafe == KeyedInv /\ ExactInv => SnapshotExact
<1> SUFFICES ASSUME KeyedInv, ExactInv, Reported, mode.snapshot, mode.way # "join"
             PROVE  SnapshotExact
  BY DEF SnapshotExact
<1> DEFINE l == RowsOf(CHOOSE t \in base["left"] : TRUE, Keys)
           r == RowsOf(CHOOSE t \in base["right"] : TRUE, Keys)
<1>1. l = RowsOf(Base["left"], Keys) /\ r = RowsOf(Base["right"], Keys)
  BY DEF Base, Side
<1>2. Truth(Base) = DiffRows(l, r)
  BY <1>1 DEF Truth
<1>3. Cardinality(l) = Size("left") /\ Cardinality(r) = Size("right")
  BY <1>1 DEF Size
<1>4. "left" \in Side /\ "right" \in Side
  BY DEF Side
<1>5. MissingOn("left") = "missing_left" /\ MissingOn("right") = "missing_right"
  BY DEF MissingOn
<1> HIDE DEF l, r
<1>6. /\ found \subseteq DiffRows(l, r) /\ ~warned
      /\ missingBig = 0 => found = DiffRows(l, r)
      /\ total["left"] = {Cardinality(l)} /\ total["right"] = {Cardinality(r)}
      /\ Lacking("left") = Cardinality({d \in DiffRows(l, r) : d.status = "missing_left"})
      /\ Lacking("right") = Cardinality({d \in DiffRows(l, r) : d.status = "missing_right"})
      /\ Status("modified") = Cardinality({d \in DiffRows(l, r) : d.status = "modified"})
  BY <1>2, <1>3, <1>4, <1>5, ReportedExact
<1> QED BY <1>6 DEF SnapshotExact, l, r

(* With --consistency snapshot, keyeddiff and minusdiff report exactly the *)
(* differences of their two snapshots and count them right, for every      *)
(* pair of tables and every threshold (keyed_diff.rs:52-58, 1049-1061,     *)
(* minus_diff/mod.rs:324-340).                                             *)
THEOREM SnapshotExactHolds == Spec => []SnapshotExact
BY KeyedInvariant, ExactInvariant, ExactSafe, PTL

-----------------------------------------------------------------------------
(* The counts of a report add up.                                          *)

LEMMA SumsInit == Init => SumsInv
<1> SUFFICES ASSUME Init PROVE SumsInv
  OBVIOUS
<1>1. pc \in {"snapLeft", "count", "join"} \/ (pc = "probe" /\ mode.way = "minus")
  BY KeyedAssumption DEF Init, KeyedStart, ModeType
<1> QED BY <1>1 DEF SumsInv, Minusing, ExpectedAll, TotalsKnown, EndsWell

LEMMA MinusingStep ==
  ASSUME Minusing, Actions
  PROVE  Minusing'
BY DEF Minusing, Actions, KeyedStep, MinusStep, JoinStep, OpenSnapshot, KeyedCount, CountRows,
   FetchPage,
   BatchChecksum, MinusCount, MinusSum, BothEmpty, ReadAll, ReadSmall, ChecksumBuckets,
   BucketsAgree, SharedScan,
   BucketByBucket, NextBucket, BucketsDone, Merged, SmallRead, PointQuery, MergeHits, Supported,
   Unsupported,
   FallBack, KeyedStart, Anchor, OverCells, MinusNothing, CountOneSide, ReadOneSide, Report,
   MinusEqual,
   MinusDiffer, SetDifference, OuterJoin, JoinCount, Finish, Fail, env

LEMMA ExpectedAllStep ==
  ASSUME Phase, ExpectedAll, Actions
  PROVE  ExpectedAll'
<1> SUFFICES ASSUME pc' = "merge", path' = "all", NEW s \in Side PROVE expected'[s] = Total(s)'
  BY DEF ExpectedAll
<1>1. CASE ReadAll
  <2>1. expected' = [z \in Side |-> Total(z)] /\ UNCHANGED total
    BY <1>1 DEF ReadAll, Merging
  <2> QED BY <2>1, SameTotals
<1>2. ASSUME NEW z \in Side, FetchPage(z) PROVE expected'[s] = Total(s)'
  <2>1. UNCHANGED <<pc, path, expected, total>>
    BY <1>2 DEF FetchPage
  <2> QED BY <2>1, SameTotals DEF ExpectedAll
<1>3. ReadAll \/ \E z \in Side : FetchPage(z)
  BY DEF Phase, Actions, KeyedStep, MinusStep, JoinStep, OpenSnapshot, KeyedCount, BatchChecksum,
     MinusCount, MinusSum, BothEmpty, ReadSmall, ChecksumBuckets, BucketsAgree, SharedScan,
     BucketByBucket, NextBucket, BucketsDone, Merged, SmallRead, PointQuery, MergeHits, Supported,
     Unsupported,
     FallBack, KeyedStart, Anchor, OverCells, MinusNothing, CountOneSide, ReadOneSide, Report,
     MinusEqual,
     MinusDiffer, SetDifference, OuterJoin, JoinCount, Finish, Fail, Counted, CountRows
<1> QED BY <1>1, <1>2, <1>3

LEMMA EndsWellStep ==
  ASSUME KeyedType, Phase, Cursors, Minusing, ExpectedAll, EndsWell, Actions
  PROVE  EndsWell'
<1> SUFFICES ASSUME pc' \in {"commit", "done"}, exit' # "error", ~warned'
             PROVE  /\ path' = "all" => EndAll'
                    /\ path' = "point" => EndPoint'
                    /\ path' = "none" /\ mode'.way = "keyed" => EndNothing'
  BY DEF EndsWell
<1>1. CASE BothEmpty
  <2>1. /\ path = "none" /\ found = {} /\ missingBig = 0 /\ Larger = 0
        /\ UNCHANGED <<path, found, missingBig, total>>
    BY <1>1 DEF BothEmpty, Counted, Phase, Counting, Ended, result
  <2> QED BY <2>1, SameTotals DEF EndNothing
<1>2. CASE Merged /\ path = "all"
  <2>1. /\ found = {} /\ missingBig = 0 /\ found' = found \cup DiffRows(seen["left"], seen["right"])
        /\ ~FetchMismatch /\ UNCHANGED <<path, missingBig, total, seen>>
        /\ \A s \in Side : expected[s] = Total(s)
    BY <1>2 DEF Merged, Phase, ExpectedAll, merge, cursors
  <2>2. \A s \in Side : Fetched(s) = Total(s)
    BY <2>1 DEF FetchMismatch
  <2>3. \A s \in Side : Fetched(s)' = Total(s)'
    BY <2>1, <2>2, SameTotals DEF Fetched
  <2> QED BY <1>2, <2>1, <2>3 DEF EndAll
<1>3. CASE MergeHits
  <2>1. /\ pc = "hits" /\ path = "point" /\ KeysOf(seen[Small]) = asked
        /\ found' = DiffRows(seen["left"], seen["right"])
        /\ missingBig' = Missing /\ warned' = (warned \/ Fetched(Big) > Total(Big))
        /\ UNCHANGED <<path, total, seen>> /\ (\A s \in Side : total[s] # {})
    BY <1>3 DEF MergeHits, Phase, merge, cursors
  <2>2. UNCHANGED <<Big, Small>> /\ \A s \in Side : UNCHANGED Total(s)
    BY <2>1, SameTotals
  <2>3. UNCHANGED Missing /\ \A s \in Side : UNCHANGED Fetched(s)
    BY <2>1, <2>2 DEF Missing, Fetched, Total
  <2>4. Big \in Side /\ Small \in Side /\ Total(Big) \in Nat
    BY <2>1, Sides
  <2>5. Fetched(Small) = Total(Small) /\ KeysOf(seen[Big]) \subseteq KeysOf(seen[Small])
    BY <2>1 DEF Cursors
  <2>6. Fetched(Big) \in Nat
    BY <2>4, RowSetSize DEF Fetched, Cursors
  <2>7. Fetched(Big) <= Total(Big)
    <3>1. ~(Fetched(Big) > Total(Big))
      BY <2>1, Zenon
    <3> QED BY <2>4, <2>6, <3>1
  <2> QED BY <2>1, <2>2, <2>3, <2>4, <2>5, <2>7 DEF EndPoint
<1>4. CASE Finish
  <2>1. UNCHANGED <<path, found, missingBig, total, seen, warned, mode>> /\ pc = "commit" /\ exit = "none"
    BY <1>4 DEF Finish, merge, cursors, env, Phase
  <2>2. UNCHANGED <<Big, Small, Larger>> /\ \A s : UNCHANGED Total(s)
    BY <2>1, SameTotals DEF Total
  <2>3. UNCHANGED Missing /\ \A s : UNCHANGED Fetched(s)
    BY <2>1, <2>2 DEF Missing, Fetched
  <2> QED BY <2>1, <2>2, <2>3 DEF EndsWell, EndAll, EndPoint, EndNothing
<1>5. CASE mode.way # "keyed" /\ path' = "none"
  BY <1>5, Moving
<1>6. CASE path' \notin {"all", "point", "none"}
  BY <1>6
<1>7. \/ BothEmpty \/ (Merged /\ path = "all") \/ MergeHits \/ Finish
      \/ (mode.way # "keyed" /\ path' = "none") \/ path' \notin {"all", "point", "none"}
  <2>1. CASE KeyedStep
    BY <2>1 DEF KeyedStep, OpenSnapshot, KeyedCount, CountRows, FetchPage, BatchChecksum, ReadAll,
       ReadSmall,
       ChecksumBuckets, BucketsAgree, SharedScan, BucketByBucket, NextBucket, BucketsDone, Merged,
       SmallRead,
       PointQuery, Counted, Phase
  <2>2. CASE MinusStep
    BY <2>2 DEF MinusStep, MinusCount, CountRows, MinusSum, Supported, Unsupported, FallBack,
       KeyedStart,
       Anchor, OverCells, MinusNothing, CountOneSide, ReadOneSide, Report, MinusEqual, MinusDiffer,
       SetDifference, Phase, Minusing
  <2>3. CASE JoinStep
    BY <2>3 DEF JoinStep, OuterJoin, JoinCount, CountRows, Phase, Joining
  <2>4. CASE Fail
    BY <2>4 DEF Fail
  <2> QED BY <2>1, <2>2, <2>3, <2>4 DEF Actions
<1> QED BY <1>1, <1>2, <1>3, <1>4, <1>5, <1>6, <1>7

LEMMA IdleSums ==
  ASSUME KeyedType, SumsInv, AnyWrite \/ UNCHANGED vars
  PROVE  SumsInv'
<1>1. UNCHANGED <<mode, pc, total, path, expected, seen, found, missingBig, warned, exit>>
  BY WriteGrows DEF merge, cursors, result
<1>2. UNCHANGED <<Big, Small, Larger>> /\ \A s : UNCHANGED Total(s)
  BY <1>1, SameTotals DEF Total
<1>3. UNCHANGED Missing /\ \A s : UNCHANGED Fetched(s)
  BY <1>1, <1>2 DEF Missing, Fetched
<1> QED BY <1>1, <1>2, <1>3 DEF SumsInv, Minusing, ExpectedAll, TotalsKnown, EndsWell, EndAll,
           EndPoint,
       EndNothing

(* A comparison that read both sides, or looked keys up, and does not warn *)
(* has fetched as many rows as it counted (keyed_diff.rs:648-665,          *)
(* 1040-1055).                                                             *)
THEOREM SumsInvariant == Spec => []SumsInv
<1>1. ASSUME KeyedInv, SumsInv, [Next]_vars PROVE SumsInv'
  <2>1. CASE Actions
    BY <1>1, <2>1, MinusingStep, ExpectedAllStep, EndsWellStep, EndedTotals DEF KeyedInv, SumsInv,
       TotalsKnown
  <2>2. CASE AnyWrite \/ UNCHANGED vars
    BY <1>1, <2>2, IdleSums DEF KeyedInv
  <2> QED BY <1>1, <2>1, <2>2 DEF Next, Actions, AnyWrite
<1>2. KeyedInv /\ SumsInv /\ [Next]_vars => SumsInv'
  BY <1>1
<1> QED BY <1>2, SumsInit, KeyedInvariant, PTL DEF Spec

LEMMA Complement ==
  ASSUME NEW A, NEW B, IsFiniteSet(A), IsFiniteSet(B)
  PROVE  Cardinality(A) + Cardinality(B \ A) = Cardinality(B) + Cardinality(A \ B)
<1>1. Cardinality(B \ A) = Cardinality(B) - Cardinality(B \cap A)
  BY FS_Difference
<1>2. Cardinality(A \ B) = Cardinality(A) - Cardinality(A \cap B)
  BY FS_Difference
<1>3. A \cap B = B \cap A /\ IsFiniteSet(A \cap B)
  BY FS_Subset
<1>4. Cardinality(A) \in Nat /\ Cardinality(B) \in Nat /\ Cardinality(A \cap B) \in Nat
  BY <1>3, FS_CardinalityType
<1> DEFINE a == Cardinality(A)
           b == Cardinality(B)
           c == Cardinality(A \cap B)
           d == Cardinality(B \ A)
           e == Cardinality(A \ B)
<1>5. d = b - c /\ e = a - c /\ a \in Nat /\ b \in Nat /\ c \in Nat
  BY <1>1, <1>2, <1>3, <1>4
<1> HIDE DEF a, b, c, d, e
<1>6. a + d = b + e
  BY <1>5
<1> QED BY <1>6 DEF a, b, d, e

LEMMA LessIs ==
  ASSUME NEW n \in Nat, NEW m \in Nat, m <= n
  PROVE  LessOf(n, m) = n - m /\ n - m \in Nat
BY DEF LessOf

(* As many rows are reported missing on a side as keys were read on the    *)
(* other one only.                                                         *)
LEMMA StatusSize ==
  ASSUME Cursors, found = DiffRows(seen["left"], seen["right"]), NEW s \in Side
  PROVE  Status(MissingOn(s)) = Cardinality(KeysOf(seen[Other(s)]) \ KeysOf(seen[s]))
<1> DEFINE ks == KeysOf(seen[Other(s)]) \ KeysOf(seen[s])
           rows == {d \in found : d.status = MissingOn(s)}
           f == [k \in ks |-> [key |-> k, status |-> MissingOn(s)]]
<1>1. Other(s) \in Side /\ IsFiniteSet(ks)
  <2>1. Other(s) \in Side
    BY DEF Other, Side
  <2>2. IsFiniteSet(KeysOf(seen[Other(s)]))
    BY <2>1, RowSetSize DEF Cursors
  <2>3. ks \subseteq KeysOf(seen[Other(s)])
    OBVIOUS
  <2> HIDE DEF ks
  <2> QED BY <2>1, <2>2, <2>3, FS_Subset
<1>2. rows = [key : ks, status : {MissingOn(s)}]
  BY DEF DiffRows, MissingOn, Side, Other
<1> HIDE DEF ks, rows
<1>3. f \in [ks -> rows] /\ (\A j, k \in ks : f[j] = f[k] => j = k) /\ \A d \in rows : \E k \in ks : f[k] = d
  BY <1>2
<1> HIDE DEF f
<1>4. f \in Bijection(ks, rows)
  BY <1>3 DEF Bijection, Injection, Surjection, IsInjective
<1> QED BY <1>1, <1>4, FS_Bijection DEF ExistsBijection, ks, rows, Status

LEMMA KeysRead ==
  ASSUME Cursors, NEW s \in Side
  PROVE  IsFiniteSet(KeysOf(seen[s])) /\ Cardinality(KeysOf(seen[s])) = Fetched(s) /\ Fetched(s) \in Nat
BY RowSetSize DEF Cursors, Fetched

(* The sides' sums, side by side.                                          *)
Balanced == Total("left") + Lacking("left") = Total("right") + Lacking("right")

LEMMA BalancedExact ==
  ASSUME KeyedInv, ExactInv, Reported, mode.snapshot, mode.way # "join"
  PROVE  Balanced
<1> DEFINE A == Present(Base["left"])
           B == Present(Base["right"])
<1>1. Base \in Pair /\ \A s \in Side : Total(s) = Size(s)
  BY ReportedExact
<1>2. "left" \in Side /\ "right" \in Side /\ Base["left"] \in Table /\ Base["right"] \in Table
  BY <1>1 DEF Pair, Side
<1>3. /\ IsFiniteSet(A) /\ Total("left") = Cardinality(A)
      /\ IsFiniteSet(B) /\ Total("right") = Cardinality(B)
  BY <1>1, <1>2, SizeIs
<1>4. \A s \in Side : Lacking(s) = Cardinality(OnlyIn(Base, Other(s)))
  BY <1>1, ReportedExact, MissingSize
<1>5. OnlyIn(Base, Other("left")) = B \ A /\ OnlyIn(Base, Other("right")) = A \ B
  BY DEF OnlyIn, Other, Present
<1> HIDE DEF A, B
<1>6. Lacking("left") = Cardinality(B \ A) /\ Lacking("right") = Cardinality(A \ B)
  BY <1>2, <1>4, <1>5
<1> QED BY <1>3, <1>6, Complement DEF Balanced

LEMMA BalancedAll ==
  ASSUME Cursors, EndAll
  PROVE  Balanced
<1>1. "left" \in Side /\ "right" \in Side /\ Other("left") = "right" /\ Other("right") = "left"
  BY DEF Side, Other
<1>2. \A s \in Side : /\ Status(MissingOn(s)) = Cardinality(KeysOf(seen[Other(s)]) \ KeysOf(seen[s]))
                      /\ Lacking(s) = Status(MissingOn(s)) + 0
  BY StatusSize DEF EndAll, Lacking, MissingOn
<1> DEFINE A == KeysOf(seen["left"])
           B == KeysOf(seen["right"])
<1>3. /\ IsFiniteSet(A) /\ Total("left") = Cardinality(A)
      /\ IsFiniteSet(B) /\ Total("right") = Cardinality(B)
  BY <1>1, KeysRead DEF EndAll
<1>4. Status(MissingOn("left")) = Cardinality(B \ A) /\ Status(MissingOn("right")) = Cardinality(A \ B)
  BY <1>1, <1>2
<1> HIDE DEF A, B
<1>5. Cardinality(B \ A) \in Nat /\ Cardinality(A \ B) \in Nat
  BY <1>3, FS_Difference, FS_CardinalityType
<1>6. Lacking("left") = Cardinality(B \ A) /\ Lacking("right") = Cardinality(A \ B)
  <2>1. \A s \in Side : Status(MissingOn(s)) \in Nat
    BY <1>4, <1>5 DEF Side
  <2>2. ASSUME NEW s \in Side PROVE Lacking(s) = Status(MissingOn(s))
    <3> DEFINE n == Status(MissingOn(s))
    <3>1. Lacking(s) = n + 0 /\ n \in Nat
      BY <1>2, <2>1
    <3> HIDE DEF n
    <3>2. Lacking(s) = n
      BY <3>1
    <3> QED BY <3>2 DEF n
  <2> QED BY <1>1, <1>4, <2>2
<1> QED BY <1>3, <1>6, Complement DEF Balanced

LEMMA BalancedPoint ==
  ASSUME KeyedType, Cursors, \A s \in Side : total[s] # {}, EndPoint
  PROVE  Balanced
<1> DEFINE S == KeysOf(seen[Small])
           B == KeysOf(seen[Big])
<1>1. /\ Big \in Side /\ Small \in Side /\ Small # Big /\ Other(Small) = Big /\ Other(Big) = Small
      /\ {Big, Small} = {"left", "right"} /\ Total(Big) \in Nat
  BY Sides DEF Small, Other, Side
<1>2. /\ IsFiniteSet(S) /\ Cardinality(S) = Total(Small) /\ Cardinality(S) \in Nat
      /\ IsFiniteSet(B) /\ Cardinality(B) = Fetched(Big) /\ Cardinality(B) \in Nat
      /\ Cardinality(B) <= Total(Big) /\ B \subseteq S
  BY <1>1, KeysRead DEF EndPoint
<1>3. Status(MissingOn(Small)) = Cardinality(B \ S) /\ Status(MissingOn(Big)) = Cardinality(S \ B)
  BY <1>1, StatusSize DEF EndPoint
<1>4. missingBig = LessOf(Total(Big), Cardinality(S \cap B))
  BY DEF EndPoint, Missing
<1>5. /\ Lacking(Small) = Status(MissingOn(Small)) + (IF missingBig > 0 THEN missingBig ELSE 0)
      /\ Lacking(Big) = Status(MissingOn(Big)) + 0
  BY <1>1 DEF Lacking, MissingOn
<1> HIDE DEF S, B
<1>6. S \cap B = B /\ B \ S = {}
  BY <1>2
<1>7. Cardinality(S \ B) = Cardinality(S) - Cardinality(B) /\ Cardinality(B \ S) = 0
  <2>1. Cardinality(B \ S) = 0
    BY <1>6, FS_EmptySet
  <2>2. Cardinality(S \ B) = Cardinality(S) - Cardinality(S \cap B)
    BY <1>2, FS_Difference
  <2> QED BY <1>6, <2>1, <2>2
<1>8. missingBig = Total(Big) - Cardinality(B) /\ missingBig >= 0
  <2>1. missingBig = LessOf(Total(Big), Cardinality(B))
    BY <1>4, <1>6
  <2> QED BY <1>1, <1>2, <2>1, LessIs
<1>9. Lacking(Small) = Total(Big) - Cardinality(B)
  BY <1>1, <1>2, <1>3, <1>5, <1>7, <1>8
<1>10. Lacking(Big) = Total(Small) - Cardinality(B)
  BY <1>1, <1>2, <1>3, <1>5, <1>7
<1>11. Total(Small) + Lacking(Small) = Total(Big) + Lacking(Big)
  BY <1>1, <1>2, <1>9, <1>10
<1>12. (Small = "left" /\ Big = "right") \/ (Small = "right" /\ Big = "left")
  BY <1>1
<1> QED BY <1>11, <1>12 DEF Balanced

LEMMA BalancedNothing ==
  ASSUME KeyedType, \A s \in Side : total[s] # {}, EndNothing
  PROVE  Balanced
<1>1. \A s \in Side : Total(s) = 0
  BY Sides DEF EndNothing
<1>2. \A s \in Side : Lacking(s) = 0
  <2>1. \A status : {d \in found : d.status = status} = {}
    BY DEF EndNothing
  <2>2. \A status : Status(status) = 0
    BY <2>1, FS_EmptySet DEF Status
  <2> QED BY <2>2 DEF EndNothing, Lacking
<1> QED BY <1>1, <1>2 DEF Balanced, Side

LEMMA SumsSafe == KeyedInv /\ ExactInv /\ SumsInv => CountsAddUp
<1> SUFFICES ASSUME KeyedInv, ExactInv, SumsInv, Reported, ~warned, mode.way = "keyed",
                    mode.snapshot \/ path \in {"none", "all", "point"}
             PROVE  Balanced
  BY DEF CountsAddUp, Balanced
<1>1. KeyedType /\ Cursors /\ pc = "done" /\ exit # "error"
  BY DEF KeyedInv, Phase, Reported
<1>2. CASE mode.snapshot
  BY <1>2, BalancedExact
<1>3. CASE path \in {"none", "all", "point"}
  BY <1>1, <1>3, BalancedAll, BalancedPoint, BalancedNothing DEF SumsInv, TotalsKnown, EndsWell
<1> QED BY <1>2, <1>3

(* The counts of a report add up, or it warns: one side and what is        *)
(* missing on it are as many rows as the other and what is missing there   *)
(* (keyed_diff.rs:648-665, 1040-1055).                                     *)
THEOREM CountsAddUpHolds == Spec => []CountsAddUp
BY KeyedInvariant, ExactInvariant, SumsInvariant, SumsSafe, PTL
=============================================================================
