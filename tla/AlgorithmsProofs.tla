---------------------------- MODULE AlgorithmsProofs ----------------------------
(* The pure algorithms of delta-diff and of the generator's branch repair, *)
(* for inputs of every size: the pieces of a range, the pairing of names,  *)
(* the key of a plan, the routing table and the rounds of a repair.  Then  *)
(* the generator itself, for every schema and number of rows, and the      *)
(* summaries of iblt_diff with their decoding, for all tables and hashes.  *)
EXTENDS AlgorithmsMC, KeyRangeProofs, IbltDiff, SynthGenerate, SequenceTheorems

------------------------------------------------------------------------------
Inputs == Ranges \cup Pairings \cup Plans \cup Routes \cup Repairs

LEMMA InputStays == InputSpec => [](input \in Inputs)
<1>1. AnyInput => input \in Inputs
  BY DEF AnyInput, Inputs
<1>2. input \in Inputs /\ [SameInput]_input => (input \in Inputs)'
  BY DEF SameInput
<1> QED BY <1>1, <1>2, PTL DEF InputSpec

LEMMA InputOf ==
  ASSUME input \in Inputs
  PROVE  /\ input.of = "range" => input \in Ranges
         /\ input.of = "pairing" => input \in Pairings
         /\ input.of = "plan" => input \in Plans
         /\ input.of = "route" => input \in Routes
         /\ input.of = "repair" => input \in Repairs
BY DEF Inputs, Ranges, Pairings, Plans, Routes, Repairs

LEMMA OnePiece ==
  ASSUME NEW lo \in Int64, NEW hi \in Int64, NEW n \in Nat \ {0}, NEW k \in lo .. hi - 1
  PROVE  Cardinality({p \in SplitRange(lo, hi, n) : Holds(p, k)}) = 1
<1> DEFINE pieces == SplitRange(lo, hi, n)
           those == {p \in pieces : Holds(p, k)}
<1>0. k \in Int /\ lo <= k /\ k < hi /\ n \in Nat
  BY MaxIntAssumption DEF Int64
<1>1. PICK p \in pieces : Holds(p, k)
  BY <1>0, SplitRangeCovers DEF Holds
<1>2. ASSUME NEW q \in those, q # p PROVE FALSE
  <2>1. q \in SplitRange(lo, hi, n) /\ p \in SplitRange(lo, hi, n)
    OBVIOUS
  <2>2. p[2] <= q[1] \/ q[2] <= p[1]
    BY <1>0, <1>2, <2>1, SplitRangeDisjoint
  <2>3. p[1] \in Int /\ p[2] \in Int /\ q[1] \in Int /\ q[2] \in Int
    BY <1>0, <2>1, SplitRangeType, MaxIntAssumption DEF Int64
  <2> HIDE DEF pieces
  <2> QED BY <1>0, <1>1, <2>2, <2>3 DEF Holds
<1>3. those = {p}
  BY <1>1, <1>2
<1>4. Cardinality({p}) = 1
  BY FS_Singleton
<1> QED BY <1>3, <1>4

(* Every key of a range is compared in exactly one of the pieces           *)
(* split_range makes of it, whatever the range, the number of pieces and   *)
(* the width of the integers (hash_diff.rs:733-754).                       *)
THEOREM PiecesCoverOnce == InputSpec => []InOnePiece
<1>1. input \in Inputs => InOnePiece
  <2> SUFFICES ASSUME input \in Inputs, input.of = "range", input.n > 0,
                      NEW k \in input.lo .. input.hi - 1
               PROVE  Cardinality({p \in Out : Holds(p, k)}) = 1
    BY DEF InOnePiece
  <2>1. input \in Ranges
    BY InputOf
  <2>2. input.lo \in Int64 /\ input.hi \in Int64 /\ input.n \in Nat \ {0}
    BY <2>1, AlgorithmsAssumption DEF Ranges
  <2>3. Cardinality({p \in SplitRange(input.lo, input.hi, input.n) : Holds(p, k)}) = 1
    BY <2>2, OnePiece
  <2> QED BY <2>3 DEF Out
<1> QED BY <1>1, InputStays, PTL

(* For any two plans: the result carries a warning when the strategy asked *)
(* for is not the one that runs, and when `auto' ends in a comparison that *)
(* ignores the keys (engine.rs:78-245, 379-393).                           *)
THEOREM RouteTold ==
  ASSUME NEW l, NEW r, NEW hint \in Strategies \cup {"auto"}, NEW same, NEW summary, NEW static,
         Route(l, r, hint, same, summary, static).strategy # "error"
  PROVE  /\ hint \notin {"auto", Route(l, r, hint, same, summary, static).strategy} =>
              Route(l, r, hint, same, summary, static).warned
         /\ hint = "auto" /\ Route(l, r, hint, same, summary, static).strategy = "bucketdiff" =>
              Route(l, r, hint, same, summary, static).warned
<1>1. CASE hint \in {"hashdiff", "iblt"}
  BY <1>1 DEF Route, KeyedOrBucketFallback, To, Instead
<1>2. CASE hint = "joindiff"
  BY <1>2 DEF Route, JoinRoute, KeyedOrBucketFallback, To, Instead
<1>3. CASE hint = "auto"
  BY <1>3 DEF Route, AutoRoute, To, Instead
<1>4. CASE hint = "keyeddiff"
  BY <1>4 DEF Route, KeyedRoute, Refused, To, Instead
<1>5. CASE hint = "minusdiff"
  BY <1>5 DEF Route, MinusRoute, To, Instead
<1>6. CASE hint = "naivediff"
  BY <1>6 DEF Route, NaiveRoute
<1>7. CASE hint = "bucketdiff"
  BY <1>7 DEF Route, To
<1> QED BY <1>1, <1>2, <1>3, <1>4, <1>5, <1>6, <1>7 DEF Strategies

(* No input of the routing table degrades a request in silence             *)
(* (engine.rs:379-393).                                                    *)
THEOREM DegradationAlwaysTold == InputSpec => []DegradationTold
<1>1. input \in Inputs => DegradationTold
  <2> SUFFICES ASSUME input \in Inputs, input.of = "route", Routed.strategy # "error"
               PROVE  /\ input.hint \notin {"auto", Routed.strategy} => Routed.warned
                      /\ input.hint = "auto" /\ Routed.strategy = "bucketdiff" => Routed.warned
    BY DEF DegradationTold
  <2>1. input.hint \in Strategies \cup {"auto"}
    BY InputOf DEF Routes
  <2> QED BY <2>1, RouteTold DEF Routed
<1> QED BY <1>1, InputStays, PTL

------------------------------------------------------------------------------
Listed(names) == \E n \in Nat : DOMAIN names = 1 .. n /\ Len(names) = n

LEMMA ListsAre ==
  ASSUME NEW S, NEW n \in Nat, NEW names \in SeqOf(S, n)
  PROVE  Listed(names) /\ \A i \in DOMAIN names : names[i] \in S
<1>1. PICK len \in 0 .. n : names \in [1 .. len -> S]
  BY DEF SeqOf
<1>2. len \in Nat /\ DOMAIN names = 1 .. len /\ names \in Seq(S)
  BY <1>1
<1>3. Len(names) = len
  BY <1>1, <1>2
<1> QED BY <1>1, <1>2, <1>3 DEF Listed

LEMMA MinIn ==
  ASSUME NEW n \in Nat, NEW S \in SUBSET (1 .. n), S # {}
  PROVE  Min(S) \in S /\ \A y \in S : Min(S) <= y
<1>1. IsFiniteSet(1 .. n) /\ S \in SUBSET Int
  BY FS_Interval
<1>2. IsFiniteSet(S)
  BY <1>1, FS_Subset
<1> QED BY <1>1, <1>2, MinFinite

(* Pairs made of the first i names: nothing is paired twice, and only what *)
(* the two have in common.                                                 *)
Apart(P) == \A p, q \in P : p # q => p[1] # q[1] /\ p[2] # q[2]
Within(P, left, right) == P \in SUBSET ((DOMAIN left) \X (DOMAIN right))

LEMMA PairMore ==
  ASSUME NEW left, NEW right, NEW P, Apart(P), Within(P, left, right),
         NEW i \in DOMAIN left, \A p \in P : p[1] # i, NEW j \in Free(right, P)
  PROVE  Apart(P \cup {<<i, j>>}) /\ Within(P \cup {<<i, j>>}, left, right)
<1>1. j \in DOMAIN right /\ \A p \in P : p[2] # j
  BY DEF Free
<1> QED BY <1>1 DEF Apart, Within

(* One step of the first pass. *)
Same(left, right, P, i) == {j \in Free(right, P) : right[j] = left[i]}
ExactStep(left, right, P, i) ==
  P \cup (IF Same(left, right, P, i) = {} THEN {} ELSE {<<i, Min(Same(left, right, P, i))>>})

ExactSteps(f, left, right) ==
  f = [i \in 0 .. Len(left) |->
         IF i = 0 THEN {}
         ELSE LET same == {j \in Free(right, f[i - 1]) : right[j] = left[i]}
              IN  f[i - 1] \cup (IF same = {} THEN {} ELSE {<<i, Min(same)>>})]

LEMMA ExactStepsAre ==
  ASSUME NEW f, NEW left, NEW right, ExactSteps(f, left, right), Len(left) \in Nat
  PROVE  f[0] = {} /\ \A i \in 1 .. Len(left) : f[i] = ExactStep(left, right, f[i - 1], i)
<1>1. f[0] = {}
  BY DEF ExactSteps
<1>2. ASSUME NEW i \in 1 .. Len(left) PROVE f[i] = ExactStep(left, right, f[i - 1], i)
  <2>1. i \in 0 .. Len(left) /\ i # 0
    OBVIOUS
  <2> QED BY <2>1 DEF ExactSteps, ExactStep, Same
<1> QED BY <1>1, <1>2

LEMMA ExactStepsExist ==
  ASSUME NEW left, NEW right, Listed(left), Listed(right)
  PROVE  \E f : ExactSteps(f, left, right)
<1> DEFINE n == Len(left)
           Values == SUBSET ((DOMAIN left) \X (DOMAIN right))
           g == [i \in 1 .. n |-> [P \in Values |-> ExactStep(left, right, P, i)]]
<1>1. n \in Nat /\ DOMAIN left = 1 .. n
  BY DEF Listed
<1>2. ASSUME NEW i \in 1 .. n, NEW P \in Values PROVE ExactStep(left, right, P, i) \in Values
  <2>1. PICK len \in Nat : DOMAIN right = 1 .. len
    BY DEF Listed
  <2>2. Same(left, right, P, i) \in SUBSET (1 .. len)
    BY <2>1 DEF Same, Free
  <2>3. Same(left, right, P, i) # {} => Min(Same(left, right, P, i)) \in DOMAIN right
    BY <2>1, <2>2, MinIn
  <2> QED BY <1>1, <2>3 DEF ExactStep
<1>3. g \in [1 .. n -> [Values -> Values]] /\ {} \in Values
  BY <1>2
<1>4. PICK f \in [0 .. n -> Values] : Steps(f, n, {}, g)
  <2> HIDE DEF g, n, Values
  <2> QED BY <1>1, <1>3, StepsExist
<1>5. ASSUME NEW i \in 0 .. n PROVE f[i] = IF i = 0 THEN {} ELSE ExactStep(left, right, f[i - 1], i)
  <2>1. f[i] = IF i = 0 THEN {} ELSE g[i][f[i - 1]]
    BY <1>4 DEF Steps
  <2>2. i # 0 => i \in 1 .. n /\ f[i - 1] \in Values
    <3> HIDE DEF Values, n, g
    <3>1. i # 0 => i \in 1 .. n /\ i - 1 \in 0 .. n
      BY <1>1
    <3> QED BY <1>4, <3>1
  <2> QED BY <2>1, <2>2
<1>6. ASSUME NEW i \in 0 .. n
      PROVE  f[i] = IF i = 0 THEN {}
                    ELSE LET same == {j \in Free(right, f[i - 1]) : right[j] = left[i]}
                         IN  f[i - 1] \cup (IF same = {} THEN {} ELSE {<<i, Min(same)>>})
  BY <1>5 DEF ExactStep, Same
<1> HIDE DEF g, Values
<1> QED BY <1>4, <1>6 DEF ExactSteps

LEMMA ExactPairsAre ==
  ASSUME NEW left, NEW right, Listed(left), Listed(right)
  PROVE  \E f : ExactSteps(f, left, right) /\ ExactPairs(left, right) = f[Len(left)]
<1>1. ExactSteps(CHOOSE f : ExactSteps(f, left, right), left, right)
  BY ExactStepsExist
<1>2. ExactPairs(left, right) = (CHOOSE f : ExactSteps(f, left, right))[Len(left)]
  BY DEF ExactPairs, ExactSteps
<1> QED BY <1>1, <1>2

ExactSoFar(P, left, right, i) ==
  /\ Apart(P) /\ Within(P, left, right)
  /\ \A p \in P : p[1] \in 1 .. i /\ right[p[2]] = left[p[1]]
  /\ IsInjective(left) =>
       \A k \in 1 .. i : left[k] \in Range(right) => \E p \in P : p[1] = k

LEMMA ExactStepSound ==
  ASSUME NEW left, NEW right, Listed(left), Listed(right), NEW i \in DOMAIN left, NEW P,
         ExactSoFar(P, left, right, i - 1)
  PROVE  ExactSoFar(ExactStep(left, right, P, i), left, right, i)
<1> DEFINE S == Same(left, right, P, i)
           Q == ExactStep(left, right, P, i)
<1>0. i \in Nat \ {0} /\ 1 .. i = (1 .. i - 1) \cup {i} /\ ~(i \in 1 .. i - 1)
  BY DEF Listed
<1>1. \A p \in P : p[1] # i
  BY <1>0 DEF ExactSoFar
<1>2. S # {} => Min(S) \in S
  <2>1. PICK len \in Nat : DOMAIN right = 1 .. len
    BY DEF Listed
  <2>2. S \in SUBSET (1 .. len)
    BY <2>1 DEF Same, Free
  <2> HIDE DEF S
  <2> QED BY <2>2, MinIn
<1>3. Q = IF S = {} THEN P ELSE P \cup {<<i, Min(S)>>}
  BY DEF ExactStep
<1>4. S # {} => Min(S) \in Free(right, P) /\ right[Min(S)] = left[i]
  BY <1>2 DEF Same
<1> HIDE DEF Q
<1>5. Apart(Q) /\ Within(Q, left, right)
  BY <1>1, <1>3, <1>4, PairMore DEF ExactSoFar
<1>6. \A p \in Q : p[1] \in 1 .. i /\ right[p[2]] = left[p[1]]
  <2> HIDE DEF S
  <2> QED BY <1>0, <1>3, <1>4 DEF ExactSoFar
<1>7. ASSUME IsInjective(left), NEW k \in 1 .. i, left[k] \in Range(right)
      PROVE  \E p \in Q : p[1] = k
  <2>1. CASE k \in 1 .. i - 1
    <3>1. PICK p \in P : p[1] = k
      BY <1>7, <2>1 DEF ExactSoFar
    <3> QED BY <1>3, <3>1
  <2>2. CASE k = i
    <3>1. PICK j \in DOMAIN right : right[j] = left[i]
      BY <1>7, <2>2 DEF Range
    <3>2. ASSUME NEW p \in P, p[2] = j PROVE FALSE
      <4>1. p[1] \in DOMAIN left /\ p[1] # i /\ left[p[1]] = left[i]
        BY <1>1, <3>1, <3>2 DEF ExactSoFar, Within
      <4> QED BY <1>7, <4>1 DEF IsInjective
    <3>3. j \in S
      BY <3>1, <3>2 DEF Same, Free
    <3>4. <<i, Min(S)>> \in Q
      BY <1>3, <3>3
    <3> QED BY <2>2, <3>4
  <2> QED BY <1>0, <2>1, <2>2
<1>8. ExactSoFar(Q, left, right, i)
  BY <1>5, <1>6, <1>7 DEF ExactSoFar
<1> QED BY <1>8 DEF Q

LEMMA ExactPairsSound ==
  ASSUME NEW left, NEW right, Listed(left), Listed(right)
  PROVE  ExactSoFar(ExactPairs(left, right), left, right, Len(left))
<1>1. PICK f : ExactSteps(f, left, right) /\ ExactPairs(left, right) = f[Len(left)]
  BY ExactPairsAre
<1> DEFINE n == Len(left)
           Good == {i \in 0 .. n : ExactSoFar(f[i], left, right, i)}
<1>2. n \in Nat /\ DOMAIN left = 1 .. n
  BY DEF Listed
<1>3. 0 \in Good
  <2>1. f[0] = {}
    BY <1>1, <1>2, ExactStepsAre
  <2> QED BY <1>2, <2>1 DEF ExactSoFar, Apart, Within
<1>4. ASSUME NEW i \in 1 .. n, i - 1 \in Good PROVE i \in Good
  <2>1. f[i] = ExactStep(left, right, f[i - 1], i)
    BY <1>1, <1>2, ExactStepsAre
  <2>2. ExactSoFar(f[i], left, right, i)
    BY <1>2, <1>4, <2>1, ExactStepSound
  <2> QED BY <1>2, <2>2
<1>5. n \in Good
  <2> HIDE DEF Good
  <2>1. \A k \in 0 .. n : k \in Good
    <3> HIDE DEF n
    <3> QED BY <1>2, <1>3, <1>4, UptoInduction
  <2> QED BY <1>2, <2>1
<1> QED BY <1>1, <1>5

------------------------------------------------------------------------------
(* The second pass. *)
FoldedStep(left, right, exact, P, i) ==
  IF (\E p \in exact : p[1] = i) \/ Cardinality(Candidates(left, right, P, i)) # 1
    THEN P
    ELSE P \cup {<<i, Min(Candidates(left, right, P, i))>>}

FoldedSteps(f, left, right, exact) ==
  f = [i \in 0 .. Len(left) |->
         IF i = 0 THEN exact
         ELSE LET hit == Candidates(left, right, f[i - 1], i)
              IN  IF (\E p \in exact : p[1] = i) \/ Cardinality(hit) # 1
                    THEN f[i - 1]
                    ELSE f[i - 1] \cup {<<i, Min(hit)>>}]

LEMMA FoldedStepsAre ==
  ASSUME NEW f, NEW left, NEW right, NEW exact, FoldedSteps(f, left, right, exact), Len(left) \in Nat
  PROVE  f[0] = exact /\ \A i \in 1 .. Len(left) : f[i] = FoldedStep(left, right, exact, f[i - 1], i)
<1>1. f[0] = exact
  BY DEF FoldedSteps
<1>2. ASSUME NEW i \in 1 .. Len(left) PROVE f[i] = FoldedStep(left, right, exact, f[i - 1], i)
  <2>1. i \in 0 .. Len(left) /\ i # 0
    OBVIOUS
  <2> QED BY <2>1 DEF FoldedSteps, FoldedStep
<1> QED BY <1>1, <1>2

LEMMA FoundIn ==
  ASSUME NEW left, NEW right, Listed(right), NEW P, NEW i, Cardinality(Candidates(left, right, P, i)) = 1
  PROVE  Min(Candidates(left, right, P, i)) \in Candidates(left, right, P, i)
<1>1. PICK len \in Nat : DOMAIN right = 1 .. len
  BY DEF Listed
<1>2. Candidates(left, right, P, i) \in SUBSET (1 .. len)
  BY <1>1 DEF Candidates, Free
<1>3. Candidates(left, right, P, i) # {}
  BY FS_EmptySet
<1> QED BY <1>2, <1>3, MinIn

LEMMA FoldedStepsExist ==
  ASSUME NEW left, NEW right, Listed(left), Listed(right), NEW exact, Within(exact, left, right)
  PROVE  \E f : FoldedSteps(f, left, right, exact)
<1> DEFINE n == Len(left)
           Values == SUBSET ((DOMAIN left) \X (DOMAIN right))
           g == [i \in 1 .. n |-> [P \in Values |-> FoldedStep(left, right, exact, P, i)]]
<1>1. n \in Nat /\ DOMAIN left = 1 .. n
  BY DEF Listed
<1>2. ASSUME NEW i \in 1 .. n, NEW P \in Values PROVE FoldedStep(left, right, exact, P, i) \in Values
  <2>1. Cardinality(Candidates(left, right, P, i)) = 1 => Min(Candidates(left, right, P, i)) \in DOMAIN right
    BY FoundIn DEF Candidates, Free
  <2> QED BY <1>1, <2>1 DEF FoldedStep
<1>3. g \in [1 .. n -> [Values -> Values]] /\ exact \in Values
  BY <1>2 DEF Within
<1>4. PICK f \in [0 .. n -> Values] : Steps(f, n, exact, g)
  <2> HIDE DEF g, n, Values
  <2> QED BY <1>1, <1>3, StepsExist
<1>5. ASSUME NEW i \in 0 .. n
      PROVE  f[i] = IF i = 0 THEN exact ELSE FoldedStep(left, right, exact, f[i - 1], i)
  <2>1. f[i] = IF i = 0 THEN exact ELSE g[i][f[i - 1]]
    BY <1>4 DEF Steps
  <2>2. i # 0 => i \in 1 .. n /\ f[i - 1] \in Values
    <3> HIDE DEF Values, n, g
    <3>1. i # 0 => i \in 1 .. n /\ i - 1 \in 0 .. n
      BY <1>1
    <3> QED BY <1>4, <3>1
  <2> QED BY <2>1, <2>2
<1>6. ASSUME NEW i \in 0 .. n
      PROVE  f[i] = IF i = 0 THEN exact
                    ELSE LET hit == Candidates(left, right, f[i - 1], i)
                         IN  IF (\E p \in exact : p[1] = i) \/ Cardinality(hit) # 1
                               THEN f[i - 1]
                               ELSE f[i - 1] \cup {<<i, Min(hit)>>}
  BY <1>5 DEF FoldedStep
<1> HIDE DEF g, Values
<1> QED BY <1>4, <1>6 DEF FoldedSteps

LEMMA FoldedPairsAre ==
  ASSUME NEW left, NEW right, Listed(left), Listed(right), NEW exact, Within(exact, left, right)
  PROVE  FoldedSteps(FoldedPairs(left, right, exact), left, right, exact)
<1>1. FoldedSteps(CHOOSE f : FoldedSteps(f, left, right, exact), left, right, exact)
  BY FoldedStepsExist
<1>2. FoldedPairs(left, right, exact) = CHOOSE f : FoldedSteps(f, left, right, exact)
  BY DEF FoldedPairs, FoldedSteps
<1> QED BY <1>1, <1>2

FoldedSoFar(P, left, right, exact, i) ==
  /\ Apart(P) /\ Within(P, left, right) /\ exact \subseteq P
  /\ \A p \in P : SameButCase(left[p[1]], right[p[2]]) /\ (p \in exact \/ p[1] \in 1 .. i)

LEMMA FoldedStepSound ==
  ASSUME NEW left, NEW right, Listed(left), Listed(right), NEW i \in DOMAIN left, NEW P, NEW exact,
         FoldedSoFar(P, left, right, exact, i - 1)
  PROVE  FoldedSoFar(FoldedStep(left, right, exact, P, i), left, right, exact, i)
<1> DEFINE S == Candidates(left, right, P, i)
<1>0. i \in Nat \ {0} /\ 1 .. i = (1 .. i - 1) \cup {i} /\ ~(i \in 1 .. i - 1)
  BY DEF Listed
<1>1. CASE (\E p \in exact : p[1] = i) \/ Cardinality(S) # 1
  <2>1. FoldedStep(left, right, exact, P, i) = P
    BY <1>1 DEF FoldedStep
  <2> QED BY <1>0, <2>1 DEF FoldedSoFar
<1>2. CASE (\A p \in exact : p[1] # i) /\ Cardinality(S) = 1
  <2> DEFINE Q == P \cup {<<i, Min(S)>>}
  <2>1. FoldedStep(left, right, exact, P, i) = Q
    BY <1>2 DEF FoldedStep
  <2>2. Min(S) \in Free(right, P) /\ SameButCase(right[Min(S)], left[i])
    BY <1>2, FoundIn DEF Candidates
  <2>3. \A p \in P : p[1] # i
    BY <1>0, <1>2 DEF FoldedSoFar
  <2>4. Apart(Q) /\ Within(Q, left, right)
    <3> HIDE DEF S
    <3> QED BY <2>2, <2>3, PairMore DEF FoldedSoFar
  <2>5. SameButCase(left[i], right[Min(S)])
    BY <2>2 DEF SameButCase
  <2>6. FoldedSoFar(Q, left, right, exact, i)
    <3> HIDE DEF S
    <3> QED BY <1>0, <2>4, <2>5 DEF FoldedSoFar
  <2> QED BY <2>1, <2>6
<1> QED BY <1>1, <1>2

LEMMA FoldedPairsSound ==
  ASSUME NEW left, NEW right, Listed(left), Listed(right), NEW exact,
         FoldedSoFar(exact, left, right, exact, 0)
  PROVE  FoldedSoFar(FoldedPairs(left, right, exact)[Len(left)], left, right, exact, Len(left))
<1> DEFINE f == FoldedPairs(left, right, exact)
           n == Len(left)
           Good == {i \in 0 .. n : FoldedSoFar(f[i], left, right, exact, i)}
<1>1. FoldedSteps(f, left, right, exact)
  BY FoldedPairsAre DEF FoldedSoFar
<1>2. n \in Nat /\ DOMAIN left = 1 .. n
  BY DEF Listed
<1> HIDE DEF f
<1>3. 0 \in Good
  BY <1>1, <1>2, FoldedStepsAre
<1>4. ASSUME NEW i \in 1 .. n, i - 1 \in Good PROVE i \in Good
  <2>1. f[i] = FoldedStep(left, right, exact, f[i - 1], i)
    BY <1>1, <1>2, FoldedStepsAre
  <2>2. FoldedSoFar(f[i], left, right, exact, i)
    BY <1>2, <1>4, <2>1, FoldedStepSound
  <2> QED BY <1>2, <2>2
<1>5. n \in Good
  <2> HIDE DEF Good
  <2>1. \A k \in 0 .. n : k \in Good
    <3> HIDE DEF n
    <3> QED BY <1>2, <1>3, <1>4, UptoInduction
  <2> QED BY <1>2, <2>1
<1> QED BY <1>5 DEF f

(* pair_names, for names of any kind. *)
Paired(pairs, left, right) ==
  /\ Apart(pairs) /\ Within(pairs, left, right)
  /\ \A p \in pairs : SameButCase(left[p[1]], right[p[2]])
  /\ IsInjective(left) =>
       \A i \in DOMAIN left : left[i] \in Range(right) =>
         \E p \in pairs : p[1] = i /\ right[p[2]] = left[i]

(* For name lists of any length and any names: pair_names pairs no         *)
(* position twice, only names that agree but for case, and every left name *)
(* that exists on the right in the same spelling with that one             *)
(* (pairing.rs:74-110).                                                    *)
THEOREM NamesPaired ==
  ASSUME NEW left, NEW right, Listed(left), Listed(right)
  PROVE  Paired(PairNames(left, right), left, right)
<1> DEFINE exact == ExactPairs(left, right)
           P == PairNames(left, right)
<1>1. ExactSoFar(exact, left, right, Len(left))
  BY ExactPairsSound
<1>2. FoldedSoFar(exact, left, right, exact, 0)
  BY <1>1 DEF ExactSoFar, FoldedSoFar, SameButCase
<1>3. FoldedSoFar(P, left, right, exact, Len(left))
  BY <1>2, FoldedPairsSound DEF PairNames
<1>4. ASSUME IsInjective(left), NEW i \in DOMAIN left, left[i] \in Range(right)
      PROVE  \E p \in P : p[1] = i /\ right[p[2]] = left[i]
  <2>1. i \in 1 .. Len(left)
    BY DEF Listed
  <2>2. PICK p \in exact : p[1] = i
    BY <1>1, <1>4, <2>1 DEF ExactSoFar
  <2>3. right[p[2]] = left[i] /\ p \in P
    BY <1>1, <1>3, <2>2 DEF ExactSoFar, FoldedSoFar
  <2> QED BY <2>2, <2>3
<1> QED BY <1>3, <1>4 DEF FoldedSoFar, Paired

(* The same of the lists the runs enumerate, of every length up to         *)
(* MaxNames (pairing.rs:74-110).                                           *)
THEOREM PairingAlwaysSound == InputSpec => []PairingSound
<1>1. input \in Inputs => PairingSound
  <2> SUFFICES ASSUME input \in Inputs, input.of = "pairing" PROVE PairingSound
    BY DEF PairingSound
  <2>1. input.left \in NameLists /\ input.right \in NameLists
    BY InputOf DEF Pairings
  <2>2. Listed(input.left) /\ Listed(input.right)
    BY <2>1, ListsAre, AlgorithmsAssumption DEF NameLists
  <2>3. Paired(PairNames(input.left, input.right), input.left, input.right)
    BY <2>2, NamesPaired
  <2> QED BY <2>3 DEF Paired, Apart, PairingSound
<1> QED BY <1>1, InputStays, PTL

------------------------------------------------------------------------------
LEMMA FoundExactly ==
  ASSUME NEW names, Listed(names), NEW name, name \in Range(names)
  PROVE  /\ FindUniqueCi(names, name) \in DOMAIN names
         /\ names[FindUniqueCi(names, name)] = name
<1> DEFINE exact == {i \in DOMAIN names : names[i] = name}
<1>1. PICK n \in Nat : DOMAIN names = 1 .. n
  BY DEF Listed
<1>2. exact \in SUBSET (1 .. n) /\ exact # {}
  BY <1>1 DEF Range
<1>3. Min(exact) \in exact
  BY <1>2, MinIn
<1>4. FindUniqueCi(names, name) = Min(exact)
  <2>1. exact # {} => FindUniqueCi(names, name) = Min(exact)
    BY DEF FindUniqueCi
  <2> QED BY <1>2, <2>1
<1> QED BY <1>3, <1>4

LEMMA FoundInCase ==
  ASSUME NEW names, Listed(names), NEW name, FindUniqueCi(names, name) # None
  PROVE  /\ FindUniqueCi(names, name) \in DOMAIN names
         /\ SameButCase(names[FindUniqueCi(names, name)], name)
         /\ name \notin Range(names) =>
              \A i, j \in DOMAIN names :
                SameButCase(names[i], name) /\ SameButCase(names[j], name) => i = j
<1> DEFINE exact == {i \in DOMAIN names : names[i] = name}
           folded == {i \in DOMAIN names : SameButCase(names[i], name)}
<1>1. PICK n \in Nat : DOMAIN names = 1 .. n
  BY DEF Listed
<1>2. CASE exact # {}
  <2>1. name \in Range(names)
    BY <1>2 DEF Range
  <2> QED BY <2>1, FoundExactly DEF SameButCase
<1>3. CASE exact = {}
  <2>1. FindUniqueCi(names, name) = IF Cardinality(folded) = 1 THEN Min(folded) ELSE None
    BY <1>3 DEF FindUniqueCi
  <2>2. Cardinality(folded) = 1 /\ FindUniqueCi(names, name) = Min(folded)
    BY <2>1
  <2>3. folded \in SUBSET (1 .. n) /\ folded # {}
    BY <1>1, <2>2, FS_EmptySet
  <2>4. Min(folded) \in folded
    BY <2>3, MinIn
  <2>5. ASSUME NEW i \in folded, NEW j \in folded PROVE i = j
    <3>1. IsFiniteSet(folded)
      BY <2>3, FS_Interval, FS_Subset
    <3>2. PICK len : folded = {len}
      <4> HIDE DEF folded
      <4> QED BY <2>2, <3>1, FS_Singleton
    <3> QED BY <3>2
  <2> QED BY <2>2, <2>4, <2>5
<1> QED BY <1>2, <1>3

LEMMA FoundAlone ==
  ASSUME NEW names, NEW name, DOMAIN names = {1}, SameButCase(names[1], name)
  PROVE  FindUniqueCi(names, name) = 1
<1>1. {i \in DOMAIN names : SameButCase(names[i], name)} = {1}
  OBVIOUS
<1>2. Cardinality({1}) = 1 /\ Min({1}) = 1
  <2>1. {1} \in SUBSET (1 .. 1) /\ {1} # {}
    OBVIOUS
  <2>2. Min({1}) \in {1}
    BY <2>1, MinIn
  <2> QED BY <2>2, FS_Singleton
<1>3. CASE names[1] = name
  <2>1. {i \in DOMAIN names : names[i] = name} = {1}
    BY <1>3
  <2> QED BY <1>2, <2>1 DEF FindUniqueCi
<1>4. CASE names[1] # name
  <2>1. {i \in DOMAIN names : names[i] = name} = {}
    BY <1>4
  <2> QED BY <1>1, <1>2, <2>1 DEF FindUniqueCi
<1> QED BY <1>3, <1>4

(* The tokens of the primary index that are columns, in their order. *)
Keep(t, names, kept, i) == IF Resolves(t, names[i]) THEN Append(kept, names[i]) ELSE kept
Keeps(f, t, names) ==
  f = [s \in SUBSET DOMAIN names |->
         IF s = {} THEN <<>>
         ELSE IF Resolves(t, names[Max(s)]) THEN Append(f[s \ {Max(s)}], names[Max(s)])
                                            ELSE f[s \ {Max(s)}]]

LEMMA KeepsExist ==
  ASSUME NEW t, NEW names, Listed(names)
  PROVE  \E f : Keeps(f, t, names) /\ f \in [SUBSET DOMAIN names -> Seq(Range(names))]
<1> DEFINE n == Len(names)
           Values == Seq(Range(names))
           g == [i \in 1 .. n |-> [kept \in Values |-> Keep(t, names, kept, i)]]
<1>1. n \in Nat /\ DOMAIN names = 1 .. n /\ \A i \in 1 .. n : names[i] \in Range(names)
  BY DEF Listed, Range
<1>2. g \in [1 .. n -> [Values -> Values]] /\ <<>> \in Values
  <2>1. ASSUME NEW i \in 1 .. n, NEW kept \in Values PROVE Keep(t, names, kept, i) \in Values
    <3>1. names[i] \in Range(names)
      BY <1>1
    <3>2. Append(kept, names[i]) \in Values
      BY <3>1
    <3> QED BY <3>2 DEF Keep
  <2> QED BY <2>1
<1>3. PICK f \in [SUBSET (1 .. n) -> Values] : FoldsInOrder(f, n, <<>>, g)
  <2> HIDE DEF g, n, Values
  <2> QED BY <1>1, <1>2, FoldsUpto
<1>4. ASSUME NEW s \in SUBSET (1 .. n)
      PROVE  f[s] = IF s = {} THEN <<>> ELSE Keep(t, names, f[s \ {Max(s)}], Max(s))
  <2>1. f[s] = IF s = {} THEN <<>> ELSE g[Max(s)][f[s \ {Max(s)}]]
    BY <1>3 DEF FoldsInOrder
  <2>2. s # {} => Max(s) \in 1 .. n /\ f[s \ {Max(s)}] \in Values
    <3>1. IsFiniteSet(s) /\ s \in SUBSET Int
      <4>1. IsFiniteSet(1 .. n) /\ (1 .. n) \subseteq Int
        BY <1>1, FS_Interval
      <4> HIDE DEF n
      <4> QED BY <4>1, FS_Subset
    <3>2. s # {} => Max(s) \in s
      BY <3>1, MaxFinite
    <3> QED BY <3>2
  <2> QED BY <2>1, <2>2
<1>5. ASSUME NEW s \in SUBSET DOMAIN names
      PROVE  f[s] = IF s = {} THEN <<>>
                    ELSE IF Resolves(t, names[Max(s)]) THEN Append(f[s \ {Max(s)}], names[Max(s)])
                                                       ELSE f[s \ {Max(s)}]
  BY <1>1, <1>4 DEF Keep
<1> HIDE DEF g, n, Values
<1>6. f \in [SUBSET DOMAIN names -> Values]
  BY <1>1, <1>3
<1>7. Keeps(f, t, names)
  BY <1>5, <1>6 DEF Keeps
<1> QED BY <1>6, <1>7 DEF Values

LEMMA ResolvedIs ==
  ASSUME NEW t, NEW names, Listed(names)
  PROVE  \E f : Keeps(f, t, names) /\ Resolved(t, names) = f[DOMAIN names]
<1>1. Keeps(CHOOSE f : Keeps(f, t, names), t, names)
  BY KeepsExist
<1>2. Resolved(t, names) = (CHOOSE f : Keeps(f, t, names))[DOMAIN names]
  BY DEF Resolved, FoldLeft, MapThenFoldSet, Keeps
<1> QED BY <1>1, <1>2

LEMMA ResolvedHas ==
  ASSUME NEW t, NEW names, Listed(names)
  PROVE  /\ Resolved(t, names) \in Seq(Range(names))
         /\ \A n \in Range(names) : Resolves(t, n) => n \in Range(Resolved(t, names))
         /\ \A n \in Range(Resolved(t, names)) : Resolves(t, n)
<1> DEFINE n == Len(names)
<1>1. n \in Nat /\ DOMAIN names = 1 .. n /\ \A i \in 1 .. n : names[i] \in Range(names)
  BY DEF Listed, Range
<1>2. PICK f : Keeps(f, t, names) /\ Resolved(t, names) = f[DOMAIN names]
  BY ResolvedIs
<1> DEFINE Has(i) == /\ f[1 .. i] \in Seq(Range(names))
                     /\ \A j \in 1 .. i : Resolves(t, names[j]) => names[j] \in Range(f[1 .. i])
                     /\ \A len \in Range(f[1 .. i]) : Resolves(t, len)
           Good == {i \in 0 .. n : Has(i)}
<1> HIDE DEF n
<1>3. 0 \in Good
  <2>1. 1 .. 0 = {} /\ {} \in SUBSET DOMAIN names
    OBVIOUS
  <2>2. f[1 .. 0] = <<>>
    BY <1>2, <2>1 DEF Keeps
  <2>3. <<>> \in Seq(Range(names)) /\ Range(<<>>) = {} /\ \A j \in 1 .. 0 : FALSE
    BY DEF Range
  <2>4. Has(0)
    BY <2>2, <2>3
  <2>5. 0 \in 0 .. n
    BY <1>1
  <2> QED BY <2>4, <2>5
<1>4. ASSUME NEW i \in 1 .. n, i - 1 \in Good PROVE i \in Good
  <2>1. /\ 1 .. i \in SUBSET DOMAIN names /\ 1 .. i # {} /\ Max(1 .. i) = i
        /\ (1 .. i) \ {i} = 1 .. i - 1
    BY <1>1, PrefixMax
  <2>2. f[1 .. i] = IF Resolves(t, names[i]) THEN Append(f[1 .. i - 1], names[i]) ELSE f[1 .. i - 1]
    BY <1>2, <2>1 DEF Keeps
  <2> DEFINE S == Range(names)
             before == f[1 .. i - 1]
             x == names[i]
  <2>3. before \in Seq(S) /\ x \in S /\ \A j \in 1 .. i - 1 : Resolves(t, names[j]) => names[j] \in Range(before)
    BY <1>1, <1>4
  <2>4. \A j \in 1 .. i : j = i \/ j \in 1 .. i - 1
    BY <1>1
  <2>5. Append(before, x) \in Seq(S) /\ Range(Append(before, x)) = Range(before) \cup {x}
    <3> HIDE DEF before, x, S
    <3>1. /\ Append(before, x) \in Seq(S) /\ Len(Append(before, x)) = Len(before) + 1
          /\ Append(before, x)[Len(before) + 1] = x
          /\ \A k \in 1 .. Len(before) : Append(before, x)[k] = before[k]
      BY <2>3
    <3>2. /\ DOMAIN before = 1 .. Len(before) /\ DOMAIN Append(before, x) = 1 .. (Len(before) + 1)
          /\ Len(before) \in Nat
      BY <2>3, <3>1
    <3> QED BY <3>1, <3>2 DEF Range
  <2>6. f[1 .. i] = IF Resolves(t, x) THEN Append(before, x) ELSE before
    BY <2>2
  <2>7. \A j \in 1 .. i : Resolves(t, names[j]) => names[j] \in Range(f[1 .. i])
    <3> HIDE DEF before
    <3> QED BY <2>3, <2>4, <2>5, <2>6
  <2>8. f[1 .. i] \in Seq(S)
    <3> HIDE DEF before, x, S
    <3> QED BY <2>3, <2>5, <2>6
  <2>9. \A len \in Range(f[1 .. i]) : Resolves(t, len)
    <3>1. \A len \in Range(before) : Resolves(t, len)
      BY <1>4
    <3> HIDE DEF before
    <3> QED BY <2>5, <2>6, <3>1
  <2>10. Has(i) /\ i \in 0 .. n
    <3> HIDE DEF before
    <3> QED BY <1>1, <2>7, <2>8, <2>9
  <2> QED BY <2>10
<1>5. n \in Good
  <2> HIDE DEF Good
  <2>1. \A k \in 0 .. n : k \in Good
    BY <1>1, <1>3, <1>4, UptoInduction
  <2> QED BY <1>1, <2>1
<1> QED BY <1>1, <1>2, <1>5 DEF Range

------------------------------------------------------------------------------
LEMMA FunctionListed ==
  ASSUME NEW n \in Nat, NEW S, NEW f \in [1 .. n -> S]
  PROVE  Listed(f)
<1>1. f \in Seq(S) /\ DOMAIN f = 1 .. n
  OBVIOUS
<1>2. Len(f) = n
  BY <1>1
<1> QED BY <1>1, <1>2 DEF Listed

LEMMA ListListed ==
  ASSUME NEW S, NEW f \in Seq(S)
  PROVE  Listed(f)
<1>1. Len(f) \in Nat /\ DOMAIN f = 1 .. Len(f)
  OBVIOUS
<1> QED BY <1>1 DEF Listed

(* What a database guarantees of a table, and what the parser of its index *)
(* definitions guarantees of their tokens.                                 *)
Enforced(t) ==
  /\ Listed(ColumnNames(t)) /\ Listed(t.indexes)
  /\ \A i \in DOMAIN t.indexes :
       /\ Listed(t.indexes[i].tokens)
       /\ Range(t.indexes[i].columns) \subseteq Range(t.indexes[i].tokens)
       /\ Range(t.indexes[i].columns) \subseteq Range(ColumnNames(t))
       /\ t.indexes[i].primary =>
            /\ t.indexes[i].unique /\ ~t.indexes[i].partial
            /\ \A n \in Range(t.indexes[i].columns) : ~Column(t, n).nullable

LEMMA ColumnFound ==
  ASSUME NEW t, Listed(ColumnNames(t)), NEW name, Resolves(t, name)
  PROVE  /\ Column(t, name).name \in Range(ColumnNames(t))
         /\ SameButCase(Column(t, name).name, name)
         /\ name \in Range(ColumnNames(t)) => Column(t, name).name = name
<1> DEFINE names == ColumnNames(t)
           c == FindUniqueCi(names, name)
<1>1. c \in DOMAIN names /\ SameButCase(names[c], name)
  BY FoundInCase DEF Resolves
<1>2. Column(t, name).name = names[c]
  <2>1. \A i \in DOMAIN t.columns : ColumnNames(t)[i] = t.columns[i].name
    BY DEF ColumnNames
  <2>2. c \in DOMAIN t.columns
    BY <1>1 DEF ColumnNames
  <2> QED BY <2>1, <2>2 DEF Column
<1>3. name \in Range(names) => names[c] = name
  BY FoundExactly
<1> HIDE DEF c, names
<1>4. names[c] \in Range(names)
  BY <1>1 DEF Range
<1> QED BY <1>1, <1>2, <1>3, <1>4 DEF names

LEMMA ColumnResolves ==
  ASSUME NEW t, Listed(ColumnNames(t)), NEW name \in Range(ColumnNames(t))
  PROVE  Resolves(t, name) /\ Column(t, name).name = name
<1>1. FindUniqueCi(ColumnNames(t), name) \in DOMAIN ColumnNames(t)
  BY FoundExactly
<1>2. FindUniqueCi(ColumnNames(t), name) # None
  BY <1>1 DEF Listed, None
<1>3. Resolves(t, name)
  BY <1>2 DEF Resolves
<1> QED BY <1>3, ColumnFound

(* The wanted names of a key, and the key they make. *)
WantedNames(t, explicit) ==
  IF explicit = <<>> THEN Resolved(t, PrimaryKeyColumns(t)) ELSE explicit

LEMMA KeyIs ==
  ASSUME NEW t, NEW explicit
  PROVE  /\ DOMAIN KeyColumns(t, explicit) = DOMAIN WantedNames(t, explicit)
         /\ \A i \in DOMAIN WantedNames(t, explicit) :
              KeyColumns(t, explicit)[i] = Column(t, WantedNames(t, explicit)[i]).name
BY DEF KeyColumns, WantedNames

LEMMA PrimaryListed ==
  ASSUME NEW t, Enforced(t)
  PROVE  Listed(PrimaryKeyColumns(t))
<1> DEFINE primary == {i \in DOMAIN t.indexes : t.indexes[i].primary}
<1>1. PICK n \in Nat : DOMAIN t.indexes = 1 .. n
  BY DEF Enforced, Listed
<1>2. CASE primary = {}
  <2>1. PrimaryKeyColumns(t) = <<>>
    BY <1>2 DEF PrimaryKeyColumns
  <2>2. <<>> \in Seq({})
    OBVIOUS
  <2> QED BY <2>1, <2>2, ListListed
<1>3. CASE primary # {}
  <2>1. primary \in SUBSET (1 .. n)
    BY <1>1
  <2>2. Min(primary) \in primary
    BY <1>3, <2>1, MinIn
  <2>3. PrimaryKeyColumns(t) = t.indexes[Min(primary)].tokens
    BY <1>3 DEF PrimaryKeyColumns
  <2> QED BY <2>2, <2>3 DEF Enforced
<1> QED BY <1>2, <1>3

LEMMA WantedListed ==
  ASSUME NEW t, Enforced(t), NEW explicit, Listed(explicit)
  PROVE  Listed(WantedNames(t, explicit))
<1>1. Resolved(t, PrimaryKeyColumns(t)) \in Seq(Range(PrimaryKeyColumns(t)))
  BY PrimaryListed, ResolvedHas
<1>2. Listed(Resolved(t, PrimaryKeyColumns(t)))
  BY <1>1, ListListed
<1> QED BY <1>2 DEF WantedNames

LEMMA KeyListed ==
  ASSUME NEW t, Enforced(t), NEW explicit, Listed(explicit)
  PROVE  Listed(KeyColumns(t, explicit))
<1>1. PICK n \in Nat : DOMAIN WantedNames(t, explicit) = 1 .. n
  BY WantedListed DEF Listed
<1> DEFINE key == KeyColumns(t, explicit)
<1>2. key \in [1 .. n -> Range(key)]
  BY <1>1 DEF KeyColumns, WantedNames, Range
<1> HIDE DEF key
<1> QED BY <1>2, FunctionListed DEF key

LEMMA WantedResolve ==
  ASSUME NEW t, Enforced(t), NEW explicit, Listed(explicit), ~KeyRefused(t, explicit),
         NEW i \in DOMAIN WantedNames(t, explicit)
  PROVE  Resolves(t, WantedNames(t, explicit)[i])
<1>1. CASE explicit = <<>>
  <2>1. WantedNames(t, explicit) = Resolved(t, PrimaryKeyColumns(t))
    BY <1>1 DEF WantedNames
  <2>2. \A n \in Range(Resolved(t, PrimaryKeyColumns(t))) : Resolves(t, n)
    BY PrimaryListed, ResolvedHas
  <2> QED BY <2>1, <2>2 DEF Range
<1>2. CASE explicit # <<>>
  BY <1>2 DEF WantedNames, KeyRefused
<1> QED BY <1>1, <1>2

LEMMA KeyColumnsAreColumns ==
  ASSUME NEW t, Enforced(t), NEW explicit, Listed(explicit), ~KeyRefused(t, explicit),
         NEW i \in DOMAIN KeyColumns(t, explicit)
  PROVE  /\ KeyColumns(t, explicit)[i] \in Range(ColumnNames(t))
         /\ SameButCase(KeyColumns(t, explicit)[i], WantedNames(t, explicit)[i])
         /\ WantedNames(t, explicit)[i] \in Range(ColumnNames(t)) =>
              KeyColumns(t, explicit)[i] = WantedNames(t, explicit)[i]
BY KeyIs, WantedResolve, ColumnFound DEF Enforced

(* The logical key names no column that differs only in case from a        *)
(* column of an index.                                                     *)
NoTwin(t, key) ==
  \A i \in DOMAIN t.indexes : \A c \in Range(t.indexes[i].columns), k \in Range(key) :
    SameButCase(c, k) => c = k

LEMMA DefaultKeyIdentifies ==
  ASSUME NEW t, Enforced(t), KeyUnique(t, <<>>)
  PROVE  Identifies(t, KeyColumns(t, <<>>))
<1> DEFINE key == KeyColumns(t, <<>>)
           tokens == PrimaryKeyColumns(t)
           primary == {i \in DOMAIN t.indexes : t.indexes[i].primary}
           p == Min(primary)
<1>0. WantedNames(t, <<>>) = Resolved(t, tokens)
  BY DEF WantedNames
<1>1. key # <<>>
  BY DEF KeyUnique
<1>2. primary # {}
  <2> SUFFICES ASSUME primary = {} PROVE FALSE
    OBVIOUS
  <2>1. tokens = <<>>
    BY DEF PrimaryKeyColumns
  <2>2. Resolved(t, tokens) \in Seq(Range(tokens)) /\ Range(tokens) = {}
    BY PrimaryListed, ResolvedHas, <2>1 DEF Range
  <2>3. Resolved(t, tokens) = <<>>
    <3> HIDE DEF tokens
    <3>1. Resolved(t, tokens) \in Seq({})
      BY <2>2
    <3> QED BY <3>1
  <2>4. DOMAIN key = {}
    BY <1>0, <2>3, KeyIs
  <2>5. key = <<>>
    <3>1. key = [i \in {} |-> Column(t, WantedNames(t, <<>>)[i]).name]
      BY <2>4 DEF KeyColumns, WantedNames
    <3> HIDE DEF key
    <3> QED BY <3>1
  <2> QED BY <1>1, <2>5
<1>3. p \in primary
  <2>1. PICK n \in Nat : DOMAIN t.indexes = 1 .. n
    BY DEF Enforced, Listed
  <2>2. primary \in SUBSET (1 .. n)
    BY <2>1
  <2> QED BY <1>2, <2>2, MinIn
<1>4. tokens = t.indexes[p].tokens
  BY <1>2 DEF PrimaryKeyColumns
<1> DEFINE x == t.indexes[p]
<1>5. /\ p \in DOMAIN t.indexes /\ x.unique /\ ~x.partial
      /\ Range(x.columns) \subseteq Range(x.tokens) /\ Range(x.columns) \subseteq Range(ColumnNames(t))
      /\ \A n \in Range(x.columns) : ~Column(t, n).nullable
  <2> HIDE DEF p
  <2> QED BY <1>3 DEF Enforced
<1>6. ASSUME NEW n \in Range(x.columns) PROVE n \in Range(key)
  <2>1. n \in Range(tokens) /\ Resolves(t, n) /\ Column(t, n).name = n
    <3> HIDE DEF tokens, p
    <3> QED BY <1>4, <1>5, <1>6, ColumnResolves DEF Enforced
  <2>2. n \in Range(Resolved(t, tokens))
    BY <2>1, PrimaryListed, ResolvedHas
  <2>3. PICK i \in DOMAIN WantedNames(t, <<>>) : WantedNames(t, <<>>)[i] = n
    BY <1>0, <2>2 DEF Range
  <2>4. i \in DOMAIN key /\ key[i] = n
    BY <2>1, <2>3, KeyIs
  <2> HIDE DEF key
  <2> QED BY <2>4 DEF Range
<1> HIDE DEF key, p
<1> QED BY <1>5, <1>6 DEF Identifies, key

LEMMA InBoth ==
  ASSUME NEW a, NEW b, Listed(a), Listed(b), SameMultiset(a, b), NEW x \in Range(a)
  PROVE  x \in Range(b)
<1> DEFINE A == {i \in DOMAIN a : a[i] = x}
           B == {i \in DOMAIN b : b[i] = x}
<1>1. Cardinality(A) = Cardinality(B)
  BY DEF SameMultiset
<1>2. IsFiniteSet(A) /\ A # {}
  <2>1. PICK n \in Nat : DOMAIN a = 1 .. n
    BY DEF Listed
  <2>2. IsFiniteSet(1 .. n) /\ A \in SUBSET (1 .. n)
    BY <2>1, FS_Interval
  <2> QED BY <2>2, FS_Subset DEF Range
<1>3. Cardinality(A) # 0
  <2> HIDE DEF A
  <2> QED BY <1>2, FS_EmptySet
<1>4. B # {}
  BY <1>1, <1>3, FS_EmptySet
<1> QED BY <1>4 DEF Range

LEMMA ExplicitKeyIdentifies ==
  ASSUME NEW t, Enforced(t), NEW explicit, Listed(explicit), explicit # <<>>, ~KeyRefused(t, explicit),
         NoTwin(t, KeyColumns(t, explicit)), KeyUnique(t, explicit)
  PROVE  Identifies(t, KeyColumns(t, explicit))
<1> DEFINE key == KeyColumns(t, explicit)
           C == Covering(t, key)
           p == Min(C)
           x == t.indexes[p]
<1>1. AllNotNull(t, key) /\ C # {} /\ ~x.partial
  BY DEF KeyUnique, BackedByIndex
<1>2. p \in C
  <2>1. PICK n \in Nat : DOMAIN t.indexes = 1 .. n
    BY DEF Enforced, Listed
  <2>2. C \in SUBSET (1 .. n)
    BY <2>1 DEF Covering
  <2> HIDE DEF C
  <2> QED BY <1>1, <2>2, MinIn
<1>3. p \in DOMAIN t.indexes /\ (x.unique \/ x.primary) /\ SameMultiset(Ids(x.tokens), Ids(key))
  <2> HIDE DEF p, key
  <2> QED BY <1>2 DEF Covering
<1> HIDE DEF p
<1>4. /\ x.unique /\ Listed(x.tokens)
      /\ Range(x.columns) \subseteq Range(x.tokens) /\ Range(x.columns) \subseteq Range(ColumnNames(t))
  BY <1>3 DEF Enforced
<1>5. Listed(Ids(x.tokens)) /\ Listed(Ids(key))
  <2>1. ASSUME NEW names, Listed(names) PROVE Listed(Ids(names))
    <3>1. PICK n \in Nat : DOMAIN names = 1 .. n
      BY <2>1 DEF Listed
    <3>2. Ids(names) \in [1 .. n -> Range(Ids(names))]
      BY <3>1 DEF Ids, Range
    <3> QED BY <3>2, FunctionListed
  <2>2. Listed(key)
    BY KeyListed
  <2> HIDE DEF key
  <2> QED BY <1>4, <2>1, <2>2
<1>6. ASSUME NEW n \in Range(x.columns) PROVE n \in Range(key) /\ ~Column(t, n).nullable
  <2>1. n.id \in Range(Ids(x.tokens))
    BY <1>4, <1>6 DEF Range, Ids
  <2>2. n.id \in Range(Ids(key))
    <3> HIDE DEF key
    <3> QED BY <1>3, <1>5, <2>1, InBoth
  <2>3. PICK j \in DOMAIN key : key[j].id = n.id
    BY <2>2 DEF Range, Ids
  <2>4. n = key[j]
    BY <1>3, <1>6, <2>3 DEF NoTwin, SameButCase, Range
  <2>5. ~Column(t, key[j]).nullable
    BY <1>1 DEF AllNotNull
  <2> HIDE DEF key
  <2> QED BY <2>3, <2>4, <2>5 DEF Range
<1> HIDE DEF key
<1>7. ~x.partial
  BY <1>1
<1> QED BY <1>3, <1>4, <1>6, <1>7 DEF Identifies, key

(* For any table whose index definitions spell the columns they enforce: a *)
(* key that build_table_plan calls unique contains the NOT NULL columns of *)
(* a complete unique index. With --key no column of an index may have a    *)
(* twin in the key that differs from it only in case, because the plan     *)
(* compares the two in lower case (metadata.rs:357-364).                   *)
THEOREM UniqueKeyIdentifies ==
  ASSUME NEW t, Enforced(t), NEW explicit, Listed(explicit), ~KeyRefused(t, explicit),
         explicit # <<>> => NoTwin(t, KeyColumns(t, explicit)), KeyUnique(t, explicit)
  PROVE  Identifies(t, KeyColumns(t, explicit))
BY DefaultKeyIdentifies, ExplicitKeyIdentifies

------------------------------------------------------------------------------
KnownNames == {a0, a1, a2, b0, z0}

LEMMA NameIds ==
  /\ a0.id = "a" /\ a1.id = "a" /\ a2.id = "a" /\ b0.id = "b" /\ z0.id = "z"
  /\ a0 # a1 /\ a0 # a2 /\ a1 # a2
BY DEF a0, a1, a2, b0, z0

LEMMA Short ==
  ASSUME NEW S, NEW x \in S, NEW y \in S
  PROVE  /\ <<>> \in Seq(S) /\ <<x>> \in Seq(S) /\ <<x, y>> \in Seq(S)
         /\ Range(<<x>>) = {x} /\ Range(<<x, y>>) = {x, y}
BY DEF Range

LEMMA Literals ==
  /\ <<>> \in Seq(KnownNames) /\ <<a0>> \in Seq(KnownNames) /\ <<a1>> \in Seq(KnownNames) /\ <<b0>> \in Seq(KnownNames)
  /\ <<a0, b0>> \in Seq(KnownNames) /\ <<b0, a0>> \in Seq(KnownNames) /\ <<a0, a0>> \in Seq(KnownNames)
<1>1. a0 \in KnownNames /\ a1 \in KnownNames /\ b0 \in KnownNames
  BY DEF KnownNames
<1>2. <<>> \in Seq(KnownNames) /\ <<a0>> \in Seq(KnownNames) /\ <<a1>> \in Seq(KnownNames) /\ <<b0>> \in Seq(KnownNames)
  BY <1>1, Short
<1>3. <<a0, b0>> \in Seq(KnownNames)
  BY <1>1, Short
<1>4. <<b0, a0>> \in Seq(KnownNames)
  BY <1>1, Short
<1>5. <<a0, a0>> \in Seq(KnownNames)
  BY <1>1, Short
<1> QED BY <1>2, <1>3, <1>4, <1>5

LEMMA ExplicitListed ==
  ASSUME NEW explicit \in ExplicitKeys
  PROVE  Listed(explicit)
<1>1. explicit \in Seq(KnownNames)
  <2>1. \/ explicit = <<>> \/ explicit = <<a0>> \/ explicit = <<a1>>
        \/ explicit = <<b0, a0>> \/ explicit = <<a0, a0>>
    BY DEF ExplicitKeys
  <2> QED BY <2>1, Literals
<1> QED BY <1>1, ListListed

LEMMA TokensOf ==
  ASSUME ~Mangled, NEW columns \in Seq(KnownNames), NEW tokens \in Tokens(columns)
  PROVE  tokens \in Seq(KnownNames) /\ Range(columns) \subseteq Range(tokens)
<1>1. CASE tokens = columns
  BY <1>1
<1>2. CASE tokens = Append(columns, z0)
  <2>1. z0 \in KnownNames
    BY DEF KnownNames
  <2>2. Append(columns, z0) \in Seq(KnownNames)
    BY <2>1
  <2>3. ASSUME NEW i \in DOMAIN columns PROVE columns[i] \in Range(Append(columns, z0))
    <3>1. i \in DOMAIN Append(columns, z0) /\ Append(columns, z0)[i] = columns[i]
      <4> HIDE DEF KnownNames
      <4>1. Len(columns) \in Nat /\ DOMAIN columns = 1 .. Len(columns)
        OBVIOUS
      <4>2. DOMAIN Append(columns, z0) = 1 .. (Len(columns) + 1)
        BY <2>1
      <4> QED BY <2>1, <4>1, <4>2
    <3> QED BY <3>1 DEF Range
  <2> QED BY <1>2, <2>2, <2>3 DEF Range
<1> QED BY <1>1, <1>2 DEF Tokens

LEMMA IndexIs ==
  ASSUME ~Mangled, NEW x \in Indexes
  PROVE  /\ x.tokens \in Seq(KnownNames) /\ Range(x.columns) \subseteq Range(x.tokens)
         /\ Range(x.columns) \subseteq {a0, b0}
         /\ x.primary => x.unique /\ ~x.partial
<1>1. PICK c \in {<<a0>>, <<b0>>, <<a0, b0>>} : \E t \in Tokens(c), k \in {"plain", "unique", "partial", "primary"} :
        x = IndexOf(c, t, k)
  BY DEF Indexes
<1>2. PICK t \in Tokens(c), k \in {"plain", "unique", "partial", "primary"} : x = IndexOf(c, t, k)
  BY <1>1
<1>3. c \in Seq(KnownNames) /\ Range(c) \subseteq {a0, b0}
  <2>1. c = <<a0>> \/ c = <<b0>> \/ c = <<a0, b0>>
    OBVIOUS
  <2>2. Range(<<a0>>) = {a0} /\ Range(<<b0>>) = {b0} /\ Range(<<a0, b0>>) = {a0, b0}
    BY Short
  <2> QED BY <2>1, <2>2, Literals
<1>4. x.columns = c /\ x.tokens = t /\ x.unique = (k # "plain") /\ x.primary = (k = "primary") /\ x.partial = (k = "partial")
  BY <1>2 DEF IndexOf
<1>5. t \in Seq(KnownNames) /\ Range(c) \subseteq Range(t)
  BY <1>3, TokensOf
<1> QED BY <1>3, <1>4, <1>5

LEMMA TableEnforced ==
  ASSUME ~Mangled, NEW t \in Tables
  PROVE  Enforced(t) /\ Range(ColumnNames(t)) = {a0, b0}
         /\ \A i \in DOMAIN t.indexes : Range(t.indexes[i].columns) \subseteq {a0, b0}
<1>1. PICK c \in ColumnsNamed(a0), d \in ColumnsNamed(b0) : t.columns = <<c, d>>
  BY DEF Tables
<1>2. ColumnNames(t) = <<a0, b0>>
  BY <1>1 DEF ColumnNames, ColumnsNamed
<1>3. Range(ColumnNames(t)) = {a0, b0}
  BY <1>2 DEF Range
<1>4. Listed(ColumnNames(t))
  <2>1. <<a0, b0>> \in Seq(KnownNames)
    BY DEF KnownNames
  <2> QED BY <1>2, <2>1, ListListed
<1>5. t.indexes \in SeqOf(Indexes, 2) /\ Possible(t)
  BY DEF Tables
<1>6. Listed(t.indexes) /\ \A i \in DOMAIN t.indexes : t.indexes[i] \in Indexes
  BY <1>5, ListsAre
<1>7. ASSUME NEW i \in DOMAIN t.indexes
      PROVE  /\ Listed(t.indexes[i].tokens)
             /\ Range(t.indexes[i].columns) \subseteq Range(t.indexes[i].tokens)
             /\ Range(t.indexes[i].columns) \subseteq {a0, b0}
             /\ t.indexes[i].primary => t.indexes[i].unique /\ ~t.indexes[i].partial
  <2>1. t.indexes[i] \in Indexes
    BY <1>6
  <2> QED BY <2>1, IndexIs, ListListed
<1>8. \A i \in DOMAIN t.indexes : t.indexes[i].primary =>
         \A n \in Range(t.indexes[i].columns) : ~Column(t, n).nullable
  BY <1>5 DEF Possible
<1> QED BY <1>3, <1>4, <1>6, <1>7, <1>8 DEF Enforced

(* A plan's key_unique can be relied on, unless an index definition spells *)
(* a column unrecognisably (metadata.rs:43-45, 357-364).                   *)
THEOREM UniqueKeysAlwaysIdentify ==
  ASSUME ~Mangled
  PROVE  InputSpec => []KeyUniqueSound
<1>1. input \in Inputs => KeyUniqueSound
  <2> SUFFICES ASSUME input \in Inputs, input.of = "plan",
                      ~KeyRefused(input.table, input.explicit), KeyUnique(input.table, input.explicit)
               PROVE  Identifies(input.table, KeyColumns(input.table, input.explicit))
    BY DEF KeyUniqueSound
  <2> DEFINE t == input.table
             key == KeyColumns(t, input.explicit)
  <2>1. t \in Tables /\ input.explicit \in ExplicitKeys
    BY InputOf DEF Plans
  <2>2. Listed(input.explicit) /\ Enforced(t)
    BY <2>1, ExplicitListed, TableEnforced
  <2>3. \A i \in DOMAIN key : key[i] \in {a0, b0}
    BY <2>1, <2>2, KeyColumnsAreColumns, TableEnforced
  <2>4. NoTwin(t, key)
    <3>1. \A c, k \in {a0, b0} : SameButCase(c, k) => c = k
      BY NameIds DEF SameButCase
    <3>2. Range(key) \subseteq {a0, b0}
      <4> HIDE DEF key
      <4> QED BY <2>3 DEF Range
    <3> HIDE DEF key
    <3> QED BY <2>1, <3>1, <3>2, TableEnforced DEF NoTwin
  <2> QED BY <2>2, <2>4, UniqueKeyIdentifies
<1> QED BY <1>1, InputStays, PTL

------------------------------------------------------------------------------
LEMMA FallbackJustified ==
  ASSUME NEW l, NEW r, NEW same
  PROVE  Justified(l, r, same, KeyedOrBucketFallback(PairedKey(l, r)).strategy)
BY DEF KeyedOrBucketFallback, Instead, Justified

LEMMA JoinJustified ==
  ASSUME NEW l, NEW r, NEW same
  PROVE  Justified(l, r, same, JoinRoute(l, r, same).strategy)
BY FallbackJustified DEF JoinRoute, To, Instead, Justified

LEMMA MinusJustified ==
  ASSUME NEW l, NEW r, NEW same
  PROVE  Justified(l, r, same, MinusRoute(l, r, same).strategy)
BY DEF MinusRoute, To, Instead, Justified

LEMMA AutoJustified ==
  ASSUME NEW l, NEW r, NEW same, NEW summary, NEW static
  PROVE  Justified(l, r, same, AutoRoute(l, r, same, summary, static).strategy)
BY DEF AutoRoute, AutoPrefersMinusdiff, To, Instead, Justified

LEMMA KeyedJustified ==
  ASSUME NEW l, NEW r, NEW same
  PROVE  Justified(l, r, same, KeyedRoute(l, r).strategy)
BY DEF KeyedRoute, Refused, To, Instead, Justified

(* Whatever is asked for, the strategy route_impl returns finds what it    *)
(* takes for granted of the two plans: a bisectable key for hashdiff, iblt *)
(* and joindiff, one connection for joindiff and minusdiff, unique keys    *)
(* for minusdiff, a paired key for keyeddiff (engine.rs:78-266).           *)
THEOREM RouteJustified ==
  ASSUME NEW l, NEW r, NEW hint \in Strategies \cup {"auto"},
         NEW same, NEW summary, NEW static
  PROVE  Justified(l, r, same, Route(l, r, hint, same, summary, static).strategy)
<1>1. CASE hint \in {"hashdiff", "iblt"}
  <2>1. CASE Bisectable(l, r)
    BY <1>1, <2>1 DEF Route, To, Justified
  <2>2. CASE ~Bisectable(l, r)
    BY <1>1, <2>2, FallbackJustified DEF Route
  <2> QED
    BY <2>1, <2>2
<1>2. CASE hint \in {"bucketdiff", "naivediff"}
  BY <1>2 DEF Route, NaiveRoute, To, Justified
<1>3. CASE hint = "joindiff"
  BY <1>3, JoinJustified DEF Route
<1>4. CASE hint = "auto"
  BY <1>4, AutoJustified DEF Route
<1>5. CASE hint = "keyeddiff"
  BY <1>5, KeyedJustified DEF Route
<1>6. CASE hint = "minusdiff"
  BY <1>6, MinusJustified DEF Route
<1> QED
  BY <1>1, <1>2, <1>3, <1>4, <1>5, <1>6 DEF Strategies

LEMMA KeySpecsNamed ==
  ASSUME NEW t, Enforced(t), NEW explicit, Listed(explicit), ~KeyRefused(t, explicit), NEW compare
  PROVE  /\ Plan(t, explicit, compare).key = KeyColumns(t, explicit)
         /\ Plan(t, explicit, compare).unique = KeyUnique(t, explicit)
         /\ Listed(KeyColumns(t, explicit))
         /\ DOMAIN SpecNames(Plan(t, explicit, compare).keySpecs) = DOMAIN KeyColumns(t, explicit)
         /\ \A i \in DOMAIN KeyColumns(t, explicit) :
              /\ SpecNames(Plan(t, explicit, compare).keySpecs)[i] = KeyColumns(t, explicit)[i]
              /\ Plan(t, explicit, compare).keySpecs[i] = Column(t, KeyColumns(t, explicit)[i])
<1> DEFINE key == KeyColumns(t, explicit)
           specs == Plan(t, explicit, compare).keySpecs
<1>1. Plan(t, explicit, compare).key = key /\ Plan(t, explicit, compare).unique = KeyUnique(t, explicit)
  BY DEF Plan
<1>2. specs = [i \in DOMAIN key |-> Column(t, key[i])]
  BY DEF Plan
<1>3. Listed(key)
  BY KeyListed
<1>4. ASSUME NEW i \in DOMAIN key PROVE Column(t, key[i]).name = key[i]
  BY <1>4, KeyColumnsAreColumns, ColumnResolves DEF Enforced
<1> HIDE DEF key, specs
<1>5. DOMAIN SpecNames(specs) = DOMAIN key /\ \A i \in DOMAIN key : SpecNames(specs)[i] = key[i] /\ specs[i] = Column(t, key[i])
  BY <1>2, <1>4 DEF SpecNames
<1> QED BY <1>1, <1>3, <1>5 DEF key, specs

LEMMA PairedBy ==
  ASSUME NEW l, NEW r, Listed(l.key), Listed(r.key), KeysAlign(l, r), NEW i \in DOMAIN l.key
  PROVE  /\ RightOf(PairNames(l.key, r.key), i) \in DOMAIN r.key
         /\ <<i, RightOf(PairNames(l.key, r.key), i)>> \in PairNames(l.key, r.key)
         /\ SameButCase(l.key[i], r.key[RightOf(PairNames(l.key, r.key), i)])
<1> DEFINE pairs == PairNames(l.key, r.key)
           q == CHOOSE p \in pairs : p[1] = i
<1>1. Paired(pairs, l.key, r.key)
  BY NamesPaired
<1>2. \E p \in pairs : p[1] = i
  BY DEF KeysAlign
<1> HIDE DEF pairs
<1>3. q \in pairs /\ q[1] = i
  BY <1>2
<1>4. RightOf(pairs, i) = q[2]
  BY DEF RightOf
<1> HIDE DEF q
<1>5. q \in (DOMAIN l.key) \X (DOMAIN r.key)
  BY <1>1, <1>3 DEF Paired, Within
<1>6. q = <<i, q[2]>> /\ q[2] \in DOMAIN r.key
  BY <1>3, <1>5
<1>7. SameButCase(l.key[i], r.key[q[2]])
  BY <1>1, <1>3 DEF Paired
<1> QED BY <1>3, <1>4, <1>6, <1>7 DEF pairs

LEMMA RightKeyWhole ==
  ASSUME NEW l, NEW r, Listed(l.key), Listed(r.key), KeysAlign(l, r)
  PROVE  Range(r.key) \subseteq Range(PairedRightKey(l, r))
<1> DEFINE pairs == PairNames(l.key, r.key)
           n == Len(l.key)
           S == 1 .. n
           f == [i \in S |-> RightOf(pairs, i)]
           right == PairedRightKey(l, r)
<1>1. n \in Nat /\ DOMAIN l.key = S /\ DOMAIN r.key = S
  BY DEF Listed, KeysAlign
<1>2. f \in Injection(S, S)
  <2>1. f \in [S -> S]
    BY <1>1, PairedBy
  <2>2. ASSUME NEW i \in S, NEW j \in S, f[i] = f[j] PROVE i = j
    <3>1. <<i, f[i]>> \in pairs /\ <<j, f[j]>> \in pairs
      BY <1>1, PairedBy
    <3>2. Apart(pairs)
      BY NamesPaired DEF Paired
    <3> HIDE DEF pairs, f
    <3>3. <<i, f[i]>> = <<j, f[j]>>
      BY <2>2, <3>1, <3>2 DEF Apart
    <3> QED BY <3>3
  <2> HIDE DEF f, S
  <2> QED BY <2>1, <2>2 DEF Injection, IsInjective
<1>3. IsFiniteSet(S)
  BY <1>1, FS_Interval
<1>4. f \in Surjection(S, S)
  <2> HIDE DEF f, S
  <2> QED BY <1>2, <1>3, FS_Injection
<1>5. right = [i \in DOMAIN l.key |-> r.key[RightOf(pairs, i)]]
  BY DEF PairedRightKey
<1>6. ASSUME NEW j \in S PROVE r.key[j] \in Range(right)
  <2>1. PICK i \in S : f[i] = j
    <3> HIDE DEF f, S
    <3> QED BY <1>4 DEF Surjection
  <2>2. i \in DOMAIN right /\ right[i] = r.key[j]
    BY <1>1, <1>5, <2>1
  <2> HIDE DEF right
  <2> QED BY <2>2 DEF Range
<1> QED BY <1>1, <1>6 DEF Range

LEMMA OneListed == ASSUME NEW s, Listed(s), Len(s) = 1 PROVE DOMAIN s = {1}
BY DEF Listed

LEMMA PairedKeyAligned ==
  ASSUME NEW l, NEW r, PairedKey(l, r) # <<>>
  PROVE  KeysAlign(l, r) /\ PairedKey(l, r) = l.key
BY DEF PairedKey

(* A pair of plans the router calls bisectable has one key column, an      *)
(* integer in both tables, also where the two spell its name differently   *)
(* and the lookup goes by the left spelling (engine.rs:78-245).            *)
THEOREM BisectableKeysAreIntegers ==
  ASSUME NEW l, NEW r, Enforced(l), Enforced(r), NEW explicit, Listed(explicit),
         ~KeyRefused(l, explicit), ~KeyRefused(r, explicit), NEW cl, NEW cr,
         Bisectable(Plan(l, explicit, cl), Plan(r, explicit, cr))
  PROVE  /\ Column(l, PairedKey(Plan(l, explicit, cl), Plan(r, explicit, cr))[1]).integer
         /\ Column(r, PairedRightKey(Plan(l, explicit, cl), Plan(r, explicit, cr))[1]).integer
<1> DEFINE L == Plan(l, explicit, cl)
           R == Plan(r, explicit, cr)
           i == RightOf(PairNames(L.key, R.key), 1)
<1>1. /\ Len(PairedKey(L, R)) = 1
      /\ IsIntKey(L, PairedKey(L, R)[1]) /\ IsIntKey(R, PairedKey(L, R)[1])
  BY DEF Bisectable
<1>2. KeysAlign(L, R) /\ PairedKey(L, R) = L.key
  <2>1. PairedKey(L, R) # <<>>
    <3> HIDE DEF L, R
    <3> QED BY <1>1
  <2> QED BY <2>1, PairedKeyAligned
<1>3. Listed(L.key) /\ Listed(R.key)
  BY KeySpecsNamed
<1>4. DOMAIN L.key = {1} /\ DOMAIN R.key = {1}
  <2>1. Len(L.key) = 1 /\ Len(R.key) = 1
    BY <1>1, <1>2 DEF KeysAlign
  <2> HIDE DEF L, R
  <2> QED BY <1>3, <2>1, OneListed
<1>5. i = 1 /\ SameButCase(L.key[1], R.key[1])
  BY <1>2, <1>3, <1>4, PairedBy
<1>6. PairedRightKey(L, R)[1] = R.key[1]
  BY <1>2, <1>4, <1>5 DEF PairedRightKey
<1>7. Column(l, L.key[1]).integer
  <2>1. DOMAIN SpecNames(L.keySpecs) = {1} /\ SpecNames(L.keySpecs)[1] = L.key[1] /\ L.keySpecs[1] = Column(l, L.key[1])
    <3>1. /\ DOMAIN SpecNames(L.keySpecs) = DOMAIN L.key
          /\ \A k \in DOMAIN L.key : SpecNames(L.keySpecs)[k] = L.key[k] /\ L.keySpecs[k] = Column(l, L.key[k])
      BY KeySpecsNamed
    <3> HIDE DEF L
    <3> QED BY <1>4, <3>1
  <2>2. SameButCase(SpecNames(L.keySpecs)[1], L.key[1])
    BY <2>1 DEF SameButCase
  <2>3. FindUniqueCi(SpecNames(L.keySpecs), L.key[1]) = 1
    BY <2>1, <2>2, FoundAlone
  <2> HIDE DEF L
  <2> QED BY <1>1, <1>2, <2>1, <2>3 DEF IsIntKey, None
<1>8. Column(r, R.key[1]).integer
  <2>1. DOMAIN SpecNames(R.keySpecs) = {1} /\ SpecNames(R.keySpecs)[1] = R.key[1] /\ R.keySpecs[1] = Column(r, R.key[1])
    <3>1. /\ DOMAIN SpecNames(R.keySpecs) = DOMAIN R.key
          /\ \A k \in DOMAIN R.key : SpecNames(R.keySpecs)[k] = R.key[k] /\ R.keySpecs[k] = Column(r, R.key[k])
      BY KeySpecsNamed
    <3> HIDE DEF R
    <3> QED BY <1>4, <3>1
  <2>2. SameButCase(SpecNames(R.keySpecs)[1], L.key[1])
    BY <1>5, <2>1 DEF SameButCase
  <2>3. FindUniqueCi(SpecNames(R.keySpecs), L.key[1]) = 1
    BY <2>1, <2>2, FoundAlone
  <2> HIDE DEF L, R
  <2> QED BY <1>1, <1>2, <2>1, <2>3 DEF IsIntKey, None
<1> QED BY <1>2, <1>6, <1>7, <1>8

(* Two unique plans have identifying keys on both sides, the right one in  *)
(* the columns the pairing put in the left key's order (engine.rs:78-245,  *)
(* pairing.rs:74-110).                                                     *)
THEOREM MinusKeysIdentify ==
  ASSUME NEW l, NEW r, Enforced(l), Enforced(r), NEW explicit, Listed(explicit),
         ~KeyRefused(l, explicit), ~KeyRefused(r, explicit), NEW cl, NEW cr,
         explicit # <<>> => NoTwin(l, KeyColumns(l, explicit)),
         explicit # <<>> => NoTwin(r, KeyColumns(r, explicit)),
         NEW same, Justified(Plan(l, explicit, cl), Plan(r, explicit, cr), same, "minusdiff")
  PROVE  /\ Identifies(l, PairedKey(Plan(l, explicit, cl), Plan(r, explicit, cr)))
         /\ Identifies(r, PairedRightKey(Plan(l, explicit, cl), Plan(r, explicit, cr)))
<1> DEFINE L == Plan(l, explicit, cl)
           R == Plan(r, explicit, cr)
<1>1. L.unique /\ R.unique /\ PairedKey(L, R) # <<>>
  BY DEF Justified
<1>2. KeysAlign(L, R) /\ PairedKey(L, R) = L.key
  BY <1>1, PairedKeyAligned
<1>3. Identifies(l, L.key)
  BY <1>1, KeySpecsNamed, UniqueKeyIdentifies
<1>4. Identifies(r, R.key)
  BY <1>1, KeySpecsNamed, UniqueKeyIdentifies
<1>5. Range(R.key) \subseteq Range(PairedRightKey(L, R))
  BY <1>2, KeySpecsNamed, RightKeyWhole
<1> HIDE DEF L, R
<1>6. Identifies(r, PairedRightKey(L, R))
  BY <1>4, <1>5 DEF Identifies
<1> QED BY <1>2, <1>3, <1>6 DEF L, R

------------------------------------------------------------------------------
LEMMA NamesOfTwo ==
  ASSUME NEW t, NEW c, NEW d, t.columns = <<c, d>>
  PROVE  ColumnNames(t) = <<c.name, d.name>>
BY DEF ColumnNames

LEMMA NamesOfThree ==
  ASSUME NEW t, NEW c, NEW d, NEW e, t.columns = <<c, d, e>>
  PROVE  ColumnNames(t) = <<c.name, d.name, e.name>>
BY DEF ColumnNames

LEMMA RouteColumnsAre ==
  ASSUME NEW t, NEW s \in {a0, a1}, t.columns \in RouteColumns(s)
  PROVE  /\ ColumnNames(t) = <<s, b0>> \/ ColumnNames(t) = <<s, b0, a2>>
         /\ \A i \in DOMAIN t.columns : ~t.columns[i].nullable
<1>1. CASE t.columns \in {<<Col(s, FALSE, i), Col(b0, FALSE, TRUE)>> : i \in BOOLEAN}
  <2>1. PICK i \in BOOLEAN : t.columns = <<Col(s, FALSE, i), Col(b0, FALSE, TRUE)>>
    BY <1>1
  <2>2. ColumnNames(t) = <<Col(s, FALSE, i).name, Col(b0, FALSE, TRUE).name>>
    BY <2>1, NamesOfTwo
  <2> QED BY <2>1, <2>2 DEF Col
<1>2. CASE t.columns \in {<<Col(s, FALSE, i), Col(b0, FALSE, TRUE), Col(a2, FALSE, TRUE)>> : i \in BOOLEAN}
  <2>1. PICK i \in BOOLEAN : t.columns = <<Col(s, FALSE, i), Col(b0, FALSE, TRUE), Col(a2, FALSE, TRUE)>>
    BY <1>2
  <2>2. ColumnNames(t) = <<Col(s, FALSE, i).name, Col(b0, FALSE, TRUE).name, Col(a2, FALSE, TRUE).name>>
    BY <2>1, NamesOfThree
  <2> QED BY <2>1, <2>2 DEF Col
<1> QED BY <1>1, <1>2 DEF RouteColumns

LEMMA RouteIndexesAre ==
  ASSUME NEW s \in {a0, a1}, NEW x \in RouteIndexes(s)
  PROVE  /\ Listed(x)
         /\ \A i \in DOMAIN x :
              /\ x[i].columns = <<s>> \/ x[i].columns = <<s, b0>>
              /\ x[i].tokens = x[i].columns
              /\ x[i].primary => x[i].unique /\ ~x[i].partial
<1>1. CASE x = <<>>
  <2>1. x \in Seq({}) /\ DOMAIN x = {}
    BY <1>1
  <2>2. Listed(x)
    BY <2>1, ListListed
  <2> QED BY <2>1, <2>2
<1>2. CASE x \in {<<IndexOf(c, c, k)>> : c \in {<<s>>, <<s, b0>>}, k \in {"unique", "primary"}}
  <2>1. PICK c \in {<<s>>, <<s, b0>>}, k \in {"unique", "primary"} : x = <<IndexOf(c, c, k)>>
    BY <1>2
  <2>2. x \in Seq({IndexOf(c, c, k)})
    BY <2>1
  <2>3. DOMAIN x = {1} /\ x[1] = IndexOf(c, c, k)
    BY <2>1
  <2>4. /\ IndexOf(c, c, k).columns = c /\ IndexOf(c, c, k).tokens = c
        /\ IndexOf(c, c, k).primary => IndexOf(c, c, k).unique /\ ~IndexOf(c, c, k).partial
    BY DEF IndexOf
  <2>5. Listed(x)
    BY <2>2, ListListed
  <2>6. c = <<s>> \/ c = <<s, b0>>
    OBVIOUS
  <2> HIDE DEF IndexOf
  <2> QED BY <2>3, <2>4, <2>5, <2>6
<1> QED BY <1>1, <1>2 DEF RouteIndexes

LEMMA RouteTableIs ==
  ASSUME NEW t \in RouteTables
  PROVE  \E s \in {a0, a1} : t.columns \in RouteColumns(s) /\ t.indexes \in RouteIndexes(s)
BY DEF RouteTables

LEMMA RouteTableEnforced ==
  ASSUME NEW t \in RouteTables, NEW s \in {a0, a1}, t.columns \in RouteColumns(s), t.indexes \in RouteIndexes(s)
  PROVE  /\ Enforced(t)
         /\ \A i \in DOMAIN t.indexes : Range(t.indexes[i].columns) \subseteq {s, b0}
<1>0. s \in KnownNames /\ b0 \in KnownNames /\ a2 \in KnownNames
  BY DEF KnownNames
<1>1. ColumnNames(t) = <<s, b0>> \/ ColumnNames(t) = <<s, b0, a2>>
  BY RouteColumnsAre
<1>2. Listed(ColumnNames(t)) /\ {s, b0} \subseteq Range(ColumnNames(t))
  <2>1. CASE ColumnNames(t) = <<s, b0>>
    <3>1. <<s, b0>> \in Seq(KnownNames) /\ Range(<<s, b0>>) = {s, b0}
      BY <1>0, Short
    <3> QED BY <2>1, <3>1, ListListed
  <2>2. CASE ColumnNames(t) = <<s, b0, a2>>
    <3>1. <<s, b0, a2>> \in Seq(KnownNames) /\ Range(<<s, b0, a2>>) = {s, b0, a2}
      BY <1>0 DEF Range
    <3> QED BY <2>2, <3>1, ListListed
  <2> QED BY <1>1, <2>1, <2>2
<1>3. \A n \in Range(ColumnNames(t)) : ~Column(t, n).nullable
  <2> SUFFICES ASSUME NEW n \in Range(ColumnNames(t)) PROVE ~Column(t, n).nullable
    OBVIOUS
  <2>1. FindUniqueCi(ColumnNames(t), n) \in DOMAIN ColumnNames(t)
    BY <1>2, FoundExactly
  <2>2. DOMAIN ColumnNames(t) = DOMAIN t.columns
    BY DEF ColumnNames
  <2> QED BY <2>1, <2>2, RouteColumnsAre DEF Column
<1>4. ASSUME NEW i \in DOMAIN t.indexes
      PROVE  /\ Listed(t.indexes[i].tokens) /\ t.indexes[i].tokens = t.indexes[i].columns
             /\ Range(t.indexes[i].columns) \subseteq {s, b0}
             /\ t.indexes[i].primary => t.indexes[i].unique /\ ~t.indexes[i].partial
  <2>1. /\ t.indexes[i].columns = <<s>> \/ t.indexes[i].columns = <<s, b0>>
        /\ t.indexes[i].tokens = t.indexes[i].columns
        /\ t.indexes[i].primary => t.indexes[i].unique /\ ~t.indexes[i].partial
    BY RouteIndexesAre
  <2>2. <<s>> \in Seq(KnownNames) /\ <<s, b0>> \in Seq(KnownNames)
    BY <1>0, Short
  <2>3. Range(<<s>>) = {s} /\ Range(<<s, b0>>) = {s, b0}
    BY Short
  <2>4. Listed(t.indexes[i].columns) /\ Range(t.indexes[i].columns) \subseteq {s, b0}
    BY <2>1, <2>2, <2>3, ListListed
  <2> QED BY <2>1, <2>4
<1>5. Listed(t.indexes)
  BY RouteIndexesAre
<1> QED BY <1>2, <1>3, <1>4, <1>5 DEF Enforced

LEMMA RouteNoTwin ==
  ASSUME NEW t \in RouteTables, NEW explicit \in {<<>>, <<a0>>, <<b0, a0>>}, explicit # <<>>, ~KeyRefused(t, explicit)
  PROVE  NoTwin(t, KeyColumns(t, explicit))
<1> DEFINE key == KeyColumns(t, explicit)
           names == ColumnNames(t)
<1>1. PICK s \in {a0, a1} : t.columns \in RouteColumns(s) /\ t.indexes \in RouteIndexes(s)
  BY RouteTableIs
<1>2. Enforced(t) /\ \A i \in DOMAIN t.indexes : Range(t.indexes[i].columns) \subseteq {s, b0}
  BY <1>1, RouteTableEnforced
<1>3. Listed(explicit)
  <2>1. explicit \in ExplicitKeys
    BY DEF ExplicitKeys
  <2> QED BY <2>1, ExplicitListed
<1>4. names = <<s, b0>> \/ names = <<s, b0, a2>>
  BY <1>1, RouteColumnsAre
<1>5. ASSUME NEW i \in DOMAIN key, NEW c \in {s, b0}, SameButCase(c, key[i]) PROVE c = key[i]
  <2> DEFINE w == explicit[i]
             k == key[i]
  <2>1. WantedNames(t, explicit) = explicit /\ i \in DOMAIN explicit
    BY KeyIs DEF WantedNames
  <2>2. w \in {a0, b0}
    <3>1. explicit = <<a0>> \/ explicit = <<b0, a0>>
      OBVIOUS
    <3> QED BY <2>1, <3>1
  <2>3. /\ k \in Range(names) /\ SameButCase(k, w) /\ (w \in Range(names) => k = w)
    BY <1>2, <1>3, <2>1, KeyColumnsAreColumns
  <2>4. FindUniqueCi(names, w) # None
    BY <2>1 DEF KeyRefused, Resolves
  <2>5. w \notin Range(names) =>
           \A p, q \in DOMAIN names : SameButCase(names[p], w) /\ SameButCase(names[q], w) => p = q
    BY <1>2, <2>4, FoundInCase DEF Enforced
  <2>6. k \in {s, b0, a2} /\ (k = a2 => names = <<s, b0, a2>>)
    <3>1. CASE names = <<s, b0>>
      <4>1. Range(<<s, b0>>) = {s, b0}
        BY Short
      <4>2. a2 # s /\ a2 # b0
        BY NameIds
      <4> HIDE DEF k, names
      <4> QED BY <2>3, <3>1, <4>1, <4>2
    <3>2. CASE names = <<s, b0, a2>>
      <4>1. Range(<<s, b0, a2>>) = {s, b0, a2}
        BY DEF Range
      <4> HIDE DEF k, names
      <4> QED BY <2>3, <3>2, <4>1
    <3> QED BY <1>4, <3>1, <3>2
  <2>7. k # a2
    <3> SUFFICES ASSUME k = a2 PROVE FALSE
      OBVIOUS
    <3> HIDE DEF k, names, w
    <3>1. names = <<s, b0, a2>>
      BY <2>6
    <3>2. w = a0
      BY <2>2, <2>3, NameIds DEF SameButCase
    <3>3. w \notin Range(names)
      BY <2>3, <3>2, NameIds
    <3>4. 1 \in DOMAIN names /\ 3 \in DOMAIN names /\ names[1] = s /\ names[3] = a2
      BY <3>1
    <3>5. SameButCase(s, w) /\ SameButCase(a2, w)
      BY <3>2, NameIds DEF SameButCase
    <3> QED BY <2>5, <3>3, <3>4, <3>5
  <2> QED BY <1>5, <2>6, <2>7, NameIds DEF SameButCase
<1> HIDE DEF key
<1>6. ASSUME NEW i \in DOMAIN t.indexes, NEW c \in Range(t.indexes[i].columns), NEW k \in Range(key),
             SameButCase(c, k)
      PROVE  c = k
  <2>1. c \in {s, b0}
    BY <1>2
  <2>2. PICK j \in DOMAIN key : key[j] = k
    BY DEF Range
  <2> QED BY <1>5, <1>6, <2>1, <2>2
<1> QED BY <1>6 DEF NoTwin, key

(* Whatever strategy is asked for, the one that runs finds integer keys    *)
(* where it bisects and identifying keys where it subtracts                *)
(* (engine.rs:78-245).                                                     *)
THEOREM RouteAlwaysSound == InputSpec => []RouteSound
<1>1. input \in Inputs => RouteSound
  <2> SUFFICES ASSUME input \in Inputs, input.of = "route" PROVE RouteSound
    BY DEF RouteSound
  <2> DEFINE l == input.left
             r == input.right
             cl == Range(ColumnNames(l))
             cr == Range(ColumnNames(r))
             L == Plan(l, input.explicit, cl)
             R == Plan(r, input.explicit, cr)
  <2>1. input \in Routes
    BY InputOf
  <2>2. /\ l \in RouteTables /\ r \in RouteTables /\ input.explicit \in {<<>>, <<a0>>, <<b0, a0>>}
        /\ input.hint \in Strategies \cup {"auto"}
        /\ ~KeyRefused(l, input.explicit) /\ ~KeyRefused(r, input.explicit)
    BY <2>1 DEF Routes
  <2>3. Enforced(l) /\ Enforced(r)
    BY <2>2, RouteTableIs, RouteTableEnforced
  <2>4. Listed(input.explicit)
    <3>1. input.explicit \in ExplicitKeys
      BY <2>2 DEF ExplicitKeys
    <3> QED BY <3>1, ExplicitListed
  <2>5. PlanOf(l) = L /\ PlanOf(r) = R
    BY DEF PlanOf
  <2>6. Justified(L, R, input.same, Routed.strategy)
    BY <2>2, <2>5, RouteJustified DEF Routed
  <2>7. ASSUME Routed.strategy \in {"hashdiff", "iblt", "joindiff"}
        PROVE  Column(l, PairedKey(L, R)[1]).integer /\ Column(r, PairedRightKey(L, R)[1]).integer
    <3>1. Bisectable(L, R)
      BY <2>6, <2>7 DEF Justified
    <3> QED BY <2>2, <2>3, <2>4, <3>1, BisectableKeysAreIntegers
  <2>8. ASSUME Routed.strategy = "minusdiff"
        PROVE  Identifies(l, PairedKey(L, R)) /\ Identifies(r, PairedRightKey(L, R))
    <3>1. /\ input.explicit # <<>> => NoTwin(l, KeyColumns(l, input.explicit))
          /\ input.explicit # <<>> => NoTwin(r, KeyColumns(r, input.explicit))
      BY <2>2, RouteNoTwin
    <3>2. Justified(L, R, input.same, "minusdiff")
      BY <2>6, <2>8
    <3> QED BY <2>2, <2>3, <2>4, <3>1, <3>2, MinusKeysIdentify
  <2> HIDE DEF L, R
  <2> QED BY <2>5, <2>6, <2>7, <2>8 DEF RouteSound
<1> QED BY <1>1, InputStays, PTL

------------------------------------------------------------------------------
(* What the repair needs of its rows, their derive rules and its branches:  *)
(* only the columns in D are derived, and no repair writes one of them.     *)
Repairable(branches, derived, Cols, Vals, D) ==
  /\ Listed(branches)
  /\ derived \in [[Cols -> Vals] -> [Cols -> Vals]]
  /\ \A row \in [Cols -> Vals] : \A c \in Cols \ D : derived[row][c] = row[c]
  /\ \A b \in DOMAIN branches :
       /\ branches[b].reads \in Cols /\ DOMAIN branches[b].set \subseteq Cols \ D
       /\ \A c \in DOMAIN branches[b].set : branches[b].set[c] \in Vals

(* A row on which branch s is safe: matched as it is and once derived. *)
Safe(branch, row, derived) == Satisfies(branch, row) /\ Satisfies(branch, derived[row])

LEMMA RewrittenRow ==
  ASSUME NEW branches, NEW derived, NEW Cols, NEW Vals, NEW D, Repairable(branches, derived, Cols, Vals, D),
         NEW b \in DOMAIN branches, NEW row \in [Cols -> Vals]
  PROVE  /\ Rewritten(branches[b], row) \in [Cols -> Vals]
         /\ \A c \in D \cap Cols : Rewritten(branches[b], row)[c] = row[c]
BY DEF Rewritten, Repairable

LEMMA RewriteSafe ==
  ASSUME NEW branches, NEW derived, NEW Cols, NEW Vals, NEW D, Repairable(branches, derived, Cols, Vals, D),
         NEW protected, NEW s \in protected, s \in DOMAIN branches,
         NEW b \in DOMAIN branches, NEW row \in [Cols -> Vals], Safe(branches[s], row, derived),
         ~Satisfies(branches[b], row), ~Destroys(b, branches, protected, row, derived)
  PROVE  Safe(branches[s], Rewritten(branches[b], row), derived)
<1> DEFINE new == Rewritten(branches[b], row)
           c == branches[s].reads
<1>1. b # s
  BY DEF Safe
<1>2. Satisfies(branches[s], derived[new])
  BY <1>1 DEF Safe, Destroys
<1>3. new \in [Cols -> Vals] /\ c \in Cols
  <2>1. c \in Cols
    BY DEF Repairable
  <2>2. new \in [Cols -> Vals]
    BY RewrittenRow
  <2> QED BY <2>1, <2>2
<1>4. Satisfies(branches[s], new)
  <2>1. CASE c \in D
    <3>1. new[c] = row[c]
      BY <1>3, <2>1, RewrittenRow
    <3> HIDE DEF new
    <3> QED BY <3>1 DEF Safe, Satisfies
  <2>2. CASE c \notin D
    <3>1. derived[new][c] = new[c]
      BY <1>3, <2>2 DEF Repairable
    <3> HIDE DEF new
    <3> QED BY <1>2, <3>1 DEF Satisfies
  <2> QED BY <2>1, <2>2
<1> QED BY <1>2, <1>4 DEF Safe

(* The rounds the turns of the branches can make of `rows'. *)
Saved(n, Cols, Vals) == UNION {[P -> [Cols -> Vals]] : P \in SUBSET (1 .. n)}
Shapes(n, Cols, Vals) ==
  [rows : [1 .. n -> [Cols -> Vals]], measured : Seq(Nat), backups : Seq(Saved(n, Cols, Vals))]
SafeAt(turn, i, branch, derived) ==
  /\ Safe(branch, turn.rows[i], derived)
  /\ \A k \in DOMAIN turn.backups : i \in DOMAIN turn.backups[k] => Safe(branch, turn.backups[k][i], derived)
Rounds(n, Cols, Vals, recs, branches, derived) ==
  {turn \in Shapes(n, Cols, Vals) :
     \A s \in Protected(branches, recs), i \in 1 .. n :
       Satisfies(branches[s], recs[i]) => SafeAt(turn, i, branches[s], derived)}

LEMMA AppendedAt ==
  ASSUME NEW S, NEW q \in Seq(S), NEW x \in S, NEW k \in DOMAIN Append(q, x)
  PROVE  (k \in DOMAIN q /\ Append(q, x)[k] = q[k]) \/ Append(q, x)[k] = x
<1>1. Len(q) \in Nat /\ DOMAIN q = 1 .. Len(q) /\ DOMAIN Append(q, x) = 1 .. (Len(q) + 1)
  OBVIOUS
<1>2. k \in 1 .. Len(q) \/ k = Len(q) + 1
  BY <1>1
<1> QED BY <1>1, <1>2

LEMMA MatchesNat ==
  ASSUME NEW n \in Nat, NEW recs, DOMAIN recs = 1 .. n, NEW branch
  PROVE  Matches(branch, recs) \in Nat
<1>1. IsFiniteSet(1 .. n) /\ Matching(branch, recs) \in SUBSET (1 .. n)
  BY FS_Interval DEF Matching
<1> QED BY <1>1, FS_Subset, FS_CardinalityType DEF Matches

LEMMA AttemptIs ==
  ASSUME NEW turn, NEW b, NEW branches, NEW protected, NEW derived
  PROVE  \E picks \in SUBSET Rewritable(b, branches, protected, turn.rows, derived) :
           Attempt(turn, b, branches, protected, derived) =
             [rows |-> [i \in DOMAIN turn.rows |->
                          IF i \in picks THEN Rewritten(branches[b], turn.rows[i]) ELSE turn.rows[i]],
              measured |-> Append(turn.measured, Matches(branches[b], turn.rows)),
              backups |-> Append(turn.backups, [i \in picks |-> turn.rows[i]])]
<1> DEFINE candidates == Rewritable(b, branches, protected, turn.rows, derived)
           picks == Picks(candidates, Needed(branches[b], turn.rows, candidates))
<1>1. picks \in SUBSET candidates
  BY DEF Picks
<1>2. Attempt(turn, b, branches, protected, derived) =
        [rows |-> [i \in DOMAIN turn.rows |->
                     IF i \in picks THEN Rewritten(branches[b], turn.rows[i]) ELSE turn.rows[i]],
         measured |-> Append(turn.measured, Matches(branches[b], turn.rows)),
         backups |-> Append(turn.backups, [i \in picks |-> turn.rows[i]])]
  BY DEF Attempt
<1> HIDE DEF picks, candidates
<1> QED BY <1>1, <1>2 DEF candidates

LEMMA AttemptKeeps ==
  ASSUME NEW n \in Nat, NEW branches, NEW derived, NEW Cols, NEW Vals, NEW D,
         Repairable(branches, derived, Cols, Vals, D),
         NEW recs, NEW turn \in Rounds(n, Cols, Vals, recs, branches, derived), NEW b \in DOMAIN branches
  PROVE  Attempt(turn, b, branches, Protected(branches, recs), derived)
           \in Rounds(n, Cols, Vals, recs, branches, derived)
<1> DEFINE protected == Protected(branches, recs)
           next == Attempt(turn, b, branches, protected, derived)
           old == turn.rows
<1>1. PICK picks \in SUBSET Rewritable(b, branches, protected, old, derived) :
        next = [rows |-> [i \in DOMAIN old |-> IF i \in picks THEN Rewritten(branches[b], old[i]) ELSE old[i]],
                measured |-> Append(turn.measured, Matches(branches[b], old)),
                backups |-> Append(turn.backups, [i \in picks |-> old[i]])]
  BY AttemptIs
<1> DEFINE save == [i \in picks |-> old[i]]
<1>2. turn \in Shapes(n, Cols, Vals)
  BY DEF Rounds
<1>3. /\ old \in [1 .. n -> [Cols -> Vals]] /\ turn.measured \in Seq(Nat)
      /\ turn.backups \in Seq(Saved(n, Cols, Vals))
  BY <1>2 DEF Shapes
<1>4. \A i \in picks : i \in 1 .. n /\ ~Satisfies(branches[b], old[i])
                         /\ ~Destroys(b, branches, protected, old[i], derived)
  BY <1>3 DEF Rewritable
<1>5. save \in Saved(n, Cols, Vals)
  <2>1. picks \in SUBSET (1 .. n)
    BY <1>4
  <2>2. save \in [picks -> [Cols -> Vals]]
    BY <1>3, <2>1
  <2> HIDE DEF save
  <2> QED BY <2>1, <2>2 DEF Saved
<1> HIDE DEF next, protected, old, save
<1>6. /\ DOMAIN next.rows = 1 .. n
      /\ \A i \in 1 .. n : next.rows[i] = IF i \in picks THEN Rewritten(branches[b], old[i]) ELSE old[i]
      /\ next.measured = Append(turn.measured, Matches(branches[b], old))
      /\ next.backups = Append(turn.backups, save)
  BY <1>1, <1>3 DEF save
<1>7. next \in Shapes(n, Cols, Vals)
  <2>1. next.rows \in [1 .. n -> [Cols -> Vals]]
    <3>1. ASSUME NEW i \in 1 .. n PROVE next.rows[i] \in [Cols -> Vals]
      <4>1. old[i] \in [Cols -> Vals]
        BY <1>3
      <4>2. Rewritten(branches[b], old[i]) \in [Cols -> Vals]
        BY <4>1, RewrittenRow
      <4> QED BY <1>6, <4>1, <4>2
    <3>2. next.rows = [i \in 1 .. n |-> next.rows[i]]
      BY <1>1, <1>3
    <3> QED BY <3>1, <3>2
  <2>2. Matches(branches[b], old) \in Nat
    BY <1>3, MatchesNat
  <2>3. next.measured \in Seq(Nat) /\ next.backups \in Seq(Saved(n, Cols, Vals))
    BY <1>3, <1>5, <1>6, <2>2
  <2>4. next = [rows |-> next.rows, measured |-> next.measured, backups |-> next.backups]
    BY <1>1
  <2> QED BY <2>1, <2>3, <2>4 DEF Shapes
<1>8. ASSUME NEW s \in protected, NEW i \in 1 .. n, Satisfies(branches[s], recs[i])
      PROVE  SafeAt(next, i, branches[s], derived)
  <2>1. SafeAt(turn, i, branches[s], derived)
    BY <1>8 DEF Rounds, protected
  <2>2. Safe(branches[s], old[i], derived)
    BY <2>1 DEF SafeAt, old
  <2>3. s \in DOMAIN branches
    BY <1>8 DEF protected, Protected
  <2>4. Safe(branches[s], next.rows[i], derived)
    <3>1. CASE i \in picks
      <4>1. Safe(branches[s], Rewritten(branches[b], old[i]), derived)
        BY <1>3, <1>4, <1>8, <2>2, <2>3, <3>1, RewriteSafe
      <4> QED BY <1>6, <3>1, <4>1
    <3>2. CASE i \notin picks
      BY <1>6, <2>2, <3>2
    <3> QED BY <3>1, <3>2
  <2>5. ASSUME NEW k \in DOMAIN next.backups, i \in DOMAIN next.backups[k]
        PROVE  Safe(branches[s], next.backups[k][i], derived)
    <3>1. CASE k \in DOMAIN turn.backups /\ next.backups[k] = turn.backups[k]
      BY <2>1, <2>5, <3>1 DEF SafeAt
    <3>2. CASE next.backups[k] = save
      <4>1. save[i] = old[i]
        BY <2>5, <3>2 DEF save
      <4> QED BY <2>2, <3>2, <4>1
    <3> QED BY <1>3, <1>5, <1>6, <3>1, <3>2, AppendedAt
  <2> QED BY <2>4, <2>5 DEF SafeAt
<1> QED BY <1>7, <1>8 DEF Rounds, next, protected

------------------------------------------------------------------------------
(* The turns of a round, one after the other. *)
Order(branches) == [b \in DOMAIN branches |-> b]
Empty(recs) == [rows |-> recs, measured |-> <<>>, backups |-> <<>>]
Turns(f, recs, branches, derived) ==
  f = [s \in SUBSET DOMAIN Order(branches) |->
         IF s = {} THEN Empty(recs)
         ELSE Attempt(f[s \ {Max(s)}], Order(branches)[Max(s)], branches, Protected(branches, recs), derived)]

LEMMA MaxUpto ==
  ASSUME NEW n \in Nat, NEW s \in SUBSET (1 .. n), s # {}
  PROVE  Max(s) \in 1 .. n /\ s \ {Max(s)} \in SUBSET (1 .. n)
<1>1. IsFiniteSet(1 .. n) /\ (1 .. n) \subseteq Int
  BY FS_Interval
<1>2. IsFiniteSet(s) /\ s \in SUBSET Int
  BY <1>1, FS_Subset
<1>3. Max(s) \in s
  BY <1>2, MaxFinite
<1> QED BY <1>3

LEMMA EmptyRound ==
  ASSUME NEW n \in Nat, NEW branches, NEW derived, NEW Cols, NEW Vals,
         NEW recs \in [1 .. n -> [Cols -> Vals]], \A i \in 1 .. n : derived[recs[i]] = recs[i]
  PROVE  Empty(recs) \in Rounds(n, Cols, Vals, recs, branches, derived)
<1>1. Empty(recs) \in Shapes(n, Cols, Vals)
  BY DEF Empty, Shapes
<1>2. \A i \in 1 .. n : \A s \in DOMAIN branches :
        Satisfies(branches[s], recs[i]) => SafeAt(Empty(recs), i, branches[s], derived)
  <2> SUFFICES ASSUME NEW i \in 1 .. n, NEW s \in DOMAIN branches, Satisfies(branches[s], recs[i])
               PROVE  SafeAt(Empty(recs), i, branches[s], derived)
    OBVIOUS
  <2>1. Safe(branches[s], recs[i], derived)
    BY DEF Safe
  <2>2. Empty(recs).rows = recs /\ DOMAIN Empty(recs).backups = {}
    BY DEF Empty
  <2> QED BY <2>1, <2>2 DEF SafeAt
<1> QED BY <1>1, <1>2 DEF Rounds, Protected

LEMMA TurnsExist ==
  ASSUME NEW n \in Nat, NEW branches, NEW derived, NEW Cols, NEW Vals, NEW D,
         Repairable(branches, derived, Cols, Vals, D),
         NEW recs \in [1 .. n -> [Cols -> Vals]], \A i \in 1 .. n : derived[recs[i]] = recs[i]
  PROVE  \E f : Turns(f, recs, branches, derived)
<1> DEFINE len == Len(branches)
           Values == Rounds(n, Cols, Vals, recs, branches, derived)
           Turn(turn, b) == Attempt(turn, b, branches, Protected(branches, recs), derived)
           g == [b \in 1 .. len |-> [turn \in Values |-> Turn(turn, b)]]
<1>1. len \in Nat /\ DOMAIN branches = 1 .. len
  BY DEF Repairable, Listed
<1>2. \A b \in 1 .. len : \A turn \in Values : Turn(turn, b) \in Values
  BY <1>1, AttemptKeeps
<1>3. Empty(recs) \in Values
  BY EmptyRound
<1> HIDE DEF len, Values, Turn
<1>4. g \in [1 .. len -> [Values -> Values]]
  BY <1>2
<1>5. PICK f \in [SUBSET (1 .. len) -> Values] : FoldsInOrder(f, len, Empty(recs), g)
  <2> HIDE DEF g
  <2> QED BY <1>1, <1>3, <1>4, FoldsUpto
<1>6. ASSUME NEW s \in SUBSET (1 .. len)
      PROVE  f[s] = IF s = {} THEN Empty(recs) ELSE Turn(f[s \ {Max(s)}], Max(s))
  <2>1. f[s] = IF s = {} THEN Empty(recs) ELSE g[Max(s)][f[s \ {Max(s)}]]
    BY <1>5 DEF FoldsInOrder
  <2>2. s # {} => Max(s) \in 1 .. len /\ f[s \ {Max(s)}] \in Values
    BY <1>1, <1>5, MaxUpto
  <2> QED BY <2>1, <2>2
<1>7. DOMAIN Order(branches) = 1 .. len /\ \A b \in 1 .. len : Order(branches)[b] = b
  BY <1>1 DEF Order
<1>8. ASSUME NEW s \in SUBSET DOMAIN Order(branches)
      PROVE  f[s] = IF s = {} THEN Empty(recs)
                    ELSE Attempt(f[s \ {Max(s)}], Order(branches)[Max(s)], branches,
                                 Protected(branches, recs), derived)
  <2>1. s # {} => Max(s) \in 1 .. len
    BY <1>1, <1>7, MaxUpto
  <2> QED BY <1>6, <1>7, <2>1 DEF Turn
<1>9. f = [s \in SUBSET DOMAIN Order(branches) |-> f[s]]
  BY <1>5, <1>7
<1> QED BY <1>8, <1>9 DEF Turns

LEMMA AttemptsAre ==
  ASSUME NEW n \in Nat, NEW branches, NEW derived, NEW Cols, NEW Vals, NEW D,
         Repairable(branches, derived, Cols, Vals, D),
         NEW recs \in [1 .. n -> [Cols -> Vals]], \A i \in 1 .. n : derived[recs[i]] = recs[i]
  PROVE  \E f : /\ Turns(f, recs, branches, derived)
                /\ Attempts(recs, branches, derived) = f[DOMAIN Order(branches)]
<1>1. Turns(CHOOSE f : Turns(f, recs, branches, derived), recs, branches, derived)
  BY TurnsExist
<1>2. Attempts(recs, branches, derived) = (CHOOSE f : Turns(f, recs, branches, derived))[DOMAIN Order(branches)]
  BY DEF Attempts, FoldLeft, MapThenFoldSet, Turns, Order, Empty
<1> QED BY <1>1, <1>2

LEMMA AttemptsKeep ==
  ASSUME NEW n \in Nat, NEW branches, NEW derived, NEW Cols, NEW Vals, NEW D,
         Repairable(branches, derived, Cols, Vals, D),
         NEW recs \in [1 .. n -> [Cols -> Vals]], \A i \in 1 .. n : derived[recs[i]] = recs[i]
  PROVE  Attempts(recs, branches, derived) \in Rounds(n, Cols, Vals, recs, branches, derived)
<1> DEFINE len == Len(branches)
           Values == Rounds(n, Cols, Vals, recs, branches, derived)
<1>1. len \in Nat /\ DOMAIN branches = 1 .. len /\ DOMAIN Order(branches) = 1 .. len
  BY DEF Repairable, Listed, Order
<1>2. PICK f : Turns(f, recs, branches, derived) /\ Attempts(recs, branches, derived) = f[DOMAIN Order(branches)]
  BY AttemptsAre
<1> DEFINE Good == {k \in 0 .. len : f[1 .. k] \in Values}
<1> HIDE DEF len
<1>3. 0 \in Good
  <2>1. 1 .. 0 = {} /\ {} \in SUBSET DOMAIN Order(branches)
    OBVIOUS
  <2>2. f[1 .. 0] = Empty(recs)
    BY <1>2, <2>1 DEF Turns
  <2>3. f[1 .. 0] \in Values
    BY <2>2, EmptyRound
  <2> HIDE DEF Values
  <2> QED BY <1>1, <2>3
<1>4. ASSUME NEW k \in 1 .. len, k - 1 \in Good PROVE k \in Good
  <2>1. /\ 1 .. k \in SUBSET DOMAIN Order(branches) /\ 1 .. k # {} /\ Max(1 .. k) = k
        /\ (1 .. k) \ {k} = 1 .. k - 1
    BY <1>1, PrefixMax
  <2>2. Order(branches)[k] = k
    BY <1>1 DEF Order
  <2>3. f[1 .. k] = Attempt(f[1 .. k - 1], k, branches, Protected(branches, recs), derived)
    <3> DEFINE S == 1 .. k
    <3>1. f[S] = Attempt(f[S \ {Max(S)}], Order(branches)[Max(S)], branches, Protected(branches, recs), derived)
      <4> HIDE DEF S
      <4> QED BY <1>2, <2>1 DEF Turns, S
    <3>2. Max(S) = k /\ S \ {Max(S)} = 1 .. k - 1
      BY <2>1
    <3> QED BY <2>2, <3>1, <3>2
  <2>4. f[1 .. k - 1] \in Values
    BY <1>4
  <2>5. f[1 .. k] \in Values
    BY <1>1, <2>3, <2>4, AttemptKeeps
  <2> HIDE DEF Values
  <2> QED BY <1>1, <2>5
<1>5. len \in Good
  <2> HIDE DEF Good
  <2>1. \A k \in 0 .. len : k \in Good
    BY <1>1, <1>3, <1>4, UptoInduction
  <2> QED BY <1>1, <2>1
<1> HIDE DEF Values
<1> QED BY <1>1, <1>2, <1>5 DEF Values

(* Putting the backups back. *)
Restored(r, backup) == [i \in DOMAIN r |-> IF i \in DOMAIN backup THEN backup[i] ELSE r[i]]
Restores(f, recs, backups) ==
  f = [s \in SUBSET DOMAIN backups |->
         IF s = {} THEN recs ELSE Restored(f[s \ {Max(s)}], backups[Max(s)])]

RowsOf(n, Cols, Vals) == [1 .. n -> [Cols -> Vals]]

LEMMA RestoredRows ==
  ASSUME NEW n \in Nat, NEW Cols, NEW Vals, NEW r \in RowsOf(n, Cols, Vals), NEW backup \in Saved(n, Cols, Vals)
  PROVE  Restored(r, backup) \in RowsOf(n, Cols, Vals)
<1>1. PICK P \in SUBSET (1 .. n) : backup \in [P -> [Cols -> Vals]]
  BY DEF Saved
<1> QED BY <1>1 DEF Restored, RowsOf

LEMMA RestoresExist ==
  ASSUME NEW n \in Nat, NEW Cols, NEW Vals, NEW recs \in RowsOf(n, Cols, Vals),
         NEW backups \in Seq(Saved(n, Cols, Vals))
  PROVE  \E f : Restores(f, recs, backups)
<1> DEFINE len == Len(backups)
           Values == RowsOf(n, Cols, Vals)
           g == [k \in 1 .. len |-> [r \in Values |-> Restored(r, backups[k])]]
<1>1. len \in Nat /\ DOMAIN backups = 1 .. len /\ \A k \in 1 .. len : backups[k] \in Saved(n, Cols, Vals)
  OBVIOUS
<1>2. \A k \in 1 .. len : \A r \in Values : Restored(r, backups[k]) \in Values
  BY <1>1, RestoredRows
<1> HIDE DEF len, Values
<1>3. g \in [1 .. len -> [Values -> Values]]
  BY <1>2
<1>4. recs \in Values
  BY DEF Values
<1>5. PICK f \in [SUBSET (1 .. len) -> Values] : FoldsInOrder(f, len, recs, g)
  <2> HIDE DEF g
  <2> QED BY <1>1, <1>3, <1>4, FoldsUpto
<1>6. ASSUME NEW s \in SUBSET (1 .. len)
      PROVE  f[s] = IF s = {} THEN recs ELSE Restored(f[s \ {Max(s)}], backups[Max(s)])
  <2>1. f[s] = IF s = {} THEN recs ELSE g[Max(s)][f[s \ {Max(s)}]]
    BY <1>5 DEF FoldsInOrder
  <2>2. s # {} => Max(s) \in 1 .. len /\ f[s \ {Max(s)}] \in Values
    BY <1>1, <1>5, MaxUpto
  <2> QED BY <2>1, <2>2
<1>7. f = [s \in SUBSET DOMAIN backups |-> f[s]]
  BY <1>1, <1>5
<1> QED BY <1>1, <1>6, <1>7 DEF Restores

LEMMA PutBackIs ==
  ASSUME NEW n \in Nat, NEW Cols, NEW Vals, NEW recs \in RowsOf(n, Cols, Vals),
         NEW backups \in Seq(Saved(n, Cols, Vals))
  PROVE  \E f : Restores(f, recs, backups) /\ PutBack(recs, backups) = f[DOMAIN backups]
<1>1. Restores(CHOOSE f : Restores(f, recs, backups), recs, backups)
  BY RestoresExist
<1>2. PutBack(recs, backups) = (CHOOSE f : Restores(f, recs, backups))[DOMAIN backups]
  BY DEF PutBack, FoldLeft, MapThenFoldSet, Restores, Restored
<1> QED BY <1>1, <1>2

LEMMA PutBackKeeps ==
  ASSUME NEW n \in Nat, NEW Cols, NEW Vals, NEW recs \in RowsOf(n, Cols, Vals),
         NEW backups \in Seq(Saved(n, Cols, Vals)), NEW branch, NEW i \in 1 .. n,
         Satisfies(branch, recs[i]),
         \A k \in DOMAIN backups : i \in DOMAIN backups[k] => Satisfies(branch, backups[k][i])
  PROVE  PutBack(recs, backups) \in RowsOf(n, Cols, Vals) /\ Satisfies(branch, PutBack(recs, backups)[i])
<1> DEFINE len == Len(backups)
           Fine(r) == r \in RowsOf(n, Cols, Vals) /\ Satisfies(branch, r[i])
<1>1. len \in Nat /\ DOMAIN backups = 1 .. len /\ \A k \in 1 .. len : backups[k] \in Saved(n, Cols, Vals)
  OBVIOUS
<1>2. PICK f : Restores(f, recs, backups) /\ PutBack(recs, backups) = f[DOMAIN backups]
  BY PutBackIs
<1> DEFINE Good == {k \in 0 .. len : Fine(f[1 .. k])}
<1> HIDE DEF len
<1>3. 0 \in Good
  <2>1. 1 .. 0 = {} /\ {} \in SUBSET DOMAIN backups
    OBVIOUS
  <2>2. f[1 .. 0] = recs
    BY <1>2, <2>1 DEF Restores
  <2>3. Fine(f[1 .. 0])
    BY <2>2
  <2> HIDE DEF Fine
  <2> QED BY <1>1, <2>3
<1>4. ASSUME NEW k \in 1 .. len, k - 1 \in Good PROVE k \in Good
  <2>1. /\ 1 .. k \in SUBSET DOMAIN backups /\ 1 .. k # {} /\ Max(1 .. k) = k
        /\ (1 .. k) \ {k} = 1 .. k - 1
    BY <1>1, PrefixMax
  <2>2. f[1 .. k] = Restored(f[1 .. k - 1], backups[k])
    BY <1>2, <2>1 DEF Restores
  <2> DEFINE r == f[1 .. k - 1]
  <2>3. r \in RowsOf(n, Cols, Vals) /\ Satisfies(branch, r[i])
    BY <1>4
  <2> HIDE DEF r
  <2>4. Restored(r, backups[k]) \in RowsOf(n, Cols, Vals)
    BY <1>1, <2>3, RestoredRows
  <2>5. Restored(r, backups[k])[i] = IF i \in DOMAIN backups[k] THEN backups[k][i] ELSE r[i]
    <3>1. DOMAIN r = 1 .. n
      BY <2>3 DEF RowsOf
    <3> QED BY <3>1 DEF Restored
  <2>6. Satisfies(branch, Restored(r, backups[k])[i])
    BY <1>1, <2>3, <2>5
  <2>7. Fine(f[1 .. k])
    BY <2>2, <2>4, <2>6 DEF r
  <2> HIDE DEF Fine
  <2> QED BY <1>1, <2>7
<1>5. len \in Good
  <2> HIDE DEF Good
  <2>1. \A k \in 0 .. len : k \in Good
    BY <1>1, <1>3, <1>4, UptoInduction
  <2> QED BY <1>1, <2>1
<1> QED BY <1>1, <1>2, <1>5

------------------------------------------------------------------------------
Refreshed(turn, derived) == [j \in DOMAIN turn.rows |-> derived[turn.rows[j]]]

LEMMA FreshSafe ==
  ASSUME NEW n \in Nat, NEW branches, NEW derived, NEW Cols, NEW Vals, NEW D,
         Repairable(branches, derived, Cols, Vals, D),
         NEW recs \in [1 .. n -> [Cols -> Vals]],
         NEW turn \in Rounds(n, Cols, Vals, recs, branches, derived),
         NEW s \in Protected(branches, recs), NEW i \in 1 .. n, Satisfies(branches[s], recs[i])
  PROVE  LET fresh == Refreshed(turn, derived)
         IN  /\ fresh \in [1 .. n -> [Cols -> Vals]] /\ Satisfies(branches[s], fresh[i])
             /\ PutBack(fresh, turn.backups) \in [1 .. n -> [Cols -> Vals]]
             /\ Satisfies(branches[s], PutBack(fresh, turn.backups)[i])
<1> DEFINE fresh == Refreshed(turn, derived)
<1>1. turn \in Shapes(n, Cols, Vals) /\ SafeAt(turn, i, branches[s], derived)
  BY DEF Rounds
<1>2. turn.rows \in [1 .. n -> [Cols -> Vals]] /\ turn.backups \in Seq(Saved(n, Cols, Vals))
  BY <1>1 DEF Shapes
<1>3. fresh \in [1 .. n -> [Cols -> Vals]] /\ fresh[i] = derived[turn.rows[i]]
  <2>1. \A j \in 1 .. n : derived[turn.rows[j]] \in [Cols -> Vals]
    BY <1>2 DEF Repairable
  <2> QED BY <1>2, <2>1 DEF Refreshed
<1> HIDE DEF fresh
<1>4. Satisfies(branches[s], fresh[i])
  BY <1>1, <1>3 DEF SafeAt, Safe
<1>5. \A k \in DOMAIN turn.backups : i \in DOMAIN turn.backups[k] => Satisfies(branches[s], turn.backups[k][i])
  BY <1>1 DEF SafeAt, Safe
<1>6. /\ PutBack(fresh, turn.backups) \in RowsOf(n, Cols, Vals)
      /\ Satisfies(branches[s], PutBack(fresh, turn.backups)[i])
  <2>1. fresh \in RowsOf(n, Cols, Vals)
    BY <1>3 DEF RowsOf
  <2> QED BY <1>2, <1>4, <1>5, <2>1, PutBackKeeps
<1> QED BY <1>3, <1>4, <1>6 DEF RowsOf, fresh

LEMMA RoundRows ==
  ASSUME NEW recs, NEW flips, NEW branches, NEW derived
  PROVE  LET turn == Attempts(recs, branches, derived)
             fresh == Refreshed(turn, derived)
             after == Round([rows |-> recs, flips |-> flips, ended |-> FALSE], branches, derived)
         IN  after.rows \in {recs, fresh, PutBack(fresh, turn.backups)}
BY DEF Round, Refreshed

(* For any number of rows and branches, any columns and values, and any    *)
(* derive rules that write only columns no branch repairs: in a round, a   *)
(* branch at or below its target loses none of the rows it matched, though *)
(* the branches write in turn and each sees derived values the others have *)
(* made stale, and also when the round is put back                         *)
(* (generator.rs:1539-1594).                                               *)
THEOREM RoundKeepsMatches ==
  ASSUME NEW n \in Nat, NEW branches, NEW derived, NEW Cols, NEW Vals, NEW D,
         Repairable(branches, derived, Cols, Vals, D),
         NEW recs \in [1 .. n -> [Cols -> Vals]], \A i \in 1 .. n : derived[recs[i]] = recs[i],
         NEW flips, NEW s \in Protected(branches, recs)
  PROVE  Matching(branches[s], recs)
           \subseteq Matching(branches[s],
                              Round([rows |-> recs, flips |-> flips, ended |-> FALSE], branches, derived).rows)
<1> DEFINE turn == Attempts(recs, branches, derived)
           fresh == Refreshed(turn, derived)
           after == Round([rows |-> recs, flips |-> flips, ended |-> FALSE], branches, derived)
<1>1. turn \in Rounds(n, Cols, Vals, recs, branches, derived)
  BY AttemptsKeep
<1>2. after.rows \in {recs, fresh, PutBack(fresh, turn.backups)}
  BY RoundRows
<1> HIDE DEF turn, after
<1>4. ASSUME NEW i \in Matching(branches[s], recs) PROVE i \in Matching(branches[s], after.rows)
  <2>1. i \in 1 .. n /\ Satisfies(branches[s], recs[i])
    BY DEF Matching
  <2>2. /\ fresh \in [1 .. n -> [Cols -> Vals]] /\ Satisfies(branches[s], fresh[i])
        /\ PutBack(fresh, turn.backups) \in [1 .. n -> [Cols -> Vals]]
        /\ Satisfies(branches[s], PutBack(fresh, turn.backups)[i])
    BY <1>1, <2>1, FreshSafe
  <2> HIDE DEF fresh
  <2>3. after.rows \in [1 .. n -> [Cols -> Vals]] /\ Satisfies(branches[s], after.rows[i])
    BY <1>2, <2>1, <2>2
  <2> QED BY <2>1, <2>3 DEF Matching
<1> QED BY <1>4 DEF after

RepairColumns == {"x", "y", "d"}

LEMMA CellsAreRows ==
  ASSUME NEW row \in RepairCells
  PROVE  row \in [RepairColumns -> 0 .. 1] /\ Refresh[row] = row
<1>1. PICK x \in 0 .. 1, y \in 0 .. 1 : row = [x |-> x, y |-> y, d |-> x]
  BY DEF RepairCells
<1>2. DOMAIN row = RepairColumns /\ \A c \in RepairColumns : row[c] \in 0 .. 1
  BY <1>1 DEF RepairColumns
<1>3. row = [c \in RepairColumns |-> row[c]]
  BY <1>1 DEF RepairColumns
<1>4. row \in [RepairColumns -> 0 .. 1]
  BY <1>2, <1>3
<1>5. Refresh[row] = [row EXCEPT !.d = row.x]
  BY <1>4 DEF Refresh, RepairColumns
<1>6. [row EXCEPT !.d = row.x] = row
  BY <1>1
<1> QED BY <1>4, <1>5, <1>6

LEMMA RefreshIs ==
  /\ Refresh \in [[RepairColumns -> 0 .. 1] -> [RepairColumns -> 0 .. 1]]
  /\ \A row \in [RepairColumns -> 0 .. 1] : \A c \in RepairColumns \ {"d"} : Refresh[row][c] = row[c]
<1>1. Refresh = [row \in [RepairColumns -> 0 .. 1] |-> [row EXCEPT !.d = row.x]]
  BY DEF Refresh, RepairColumns
<1>2. ASSUME NEW row \in [RepairColumns -> 0 .. 1]
      PROVE  /\ [row EXCEPT !.d = row.x] \in [RepairColumns -> 0 .. 1]
             /\ \A c \in RepairColumns \ {"d"} : [row EXCEPT !.d = row.x][c] = row[c]
  BY DEF RepairColumns
<1> QED BY <1>1, <1>2

LEMMA BranchesRepairable ==
  ASSUME NEW p \in Branches, NEW q \in Branches
  PROVE  Repairable(<<p, q>>, Refresh, RepairColumns, 0 .. 1, {"d"})
<1>1. \A b \in Branches :
        /\ b.reads \in RepairColumns /\ DOMAIN b.set \subseteq RepairColumns \ {"d"}
        /\ \A c \in DOMAIN b.set : b.set[c] \in 0 .. 1
  BY DEF Branches, RepairColumns
<1>2. <<p, q>> \in Seq(Branches)
  OBVIOUS
<1>3. Listed(<<p, q>>)
  BY <1>2, ListListed
<1>4. \A b \in DOMAIN <<p, q>> : <<p, q>>[b] \in Branches
  OBVIOUS
<1> QED BY <1>1, <1>3, <1>4, RefreshIs DEF Repairable

(* The same of the repairs the runs enumerate, for tables of any length    *)
(* (generator.rs:1539-1594).                                               *)
THEOREM RepairAlwaysKeeps == InputSpec => []RepairKeeps
<1>1. input \in Inputs => RepairKeeps
  <2> SUFFICES ASSUME input \in Inputs, input.of = "repair" PROVE RepairKeeps
    BY DEF RepairKeeps
  <2>1. input \in Repairs
    BY InputOf
  <2>2. input.rows \in [1 .. RepairRows -> RepairCells]
    BY <2>1 DEF Repairs
  <2>3. PICK p \in Branches, q \in Branches : input.branches = <<p, q>>
    <3>1. input.branches \in {<<p, q>> : p \in {b \in Branches : b.value = 1}, q \in Branches}
      BY <2>1 DEF Repairs
    <3> QED BY <3>1
  <2>4. RepairRows \in Nat
    BY AlgorithmsAssumption
  <2>5. input.rows \in [1 .. RepairRows -> [RepairColumns -> 0 .. 1]] /\ \A i \in 1 .. RepairRows : Refresh[input.rows[i]] = input.rows[i]
    BY <2>2, CellsAreRows
  <2>6. Repairable(input.branches, Refresh, RepairColumns, 0 .. 1, {"d"})
    BY <2>3, BranchesRepairable
  <2> DEFINE after == Round([rows |-> input.rows, flips |-> <<0, 0>>, ended |-> FALSE], input.branches, Refresh)
  <2>7. ASSUME NEW b \in DOMAIN input.branches,
               2 * Matches(input.branches[b], input.rows) <= input.branches[b].target
        PROVE  Matching(input.branches[b], input.rows) \subseteq Matching(input.branches[b], after.rows)
    <3>1. b \in Protected(input.branches, input.rows)
      BY <2>7 DEF Protected
    <3> QED BY <2>4, <2>5, <2>6, <3>1, RoundKeepsMatches
  <2> QED BY <2>7 DEF RepairKeeps
<1> QED BY <1>1, InputStays, PTL

------------------------------------------------------------------------------
(* Sequences: an element removed, values listed once, runs of values.      *)

NoTwice(s) == \A i, j \in DOMAIN s : i # j => s[i] # s[j]

LEMMA RemovedAt ==
  ASSUME NEW S, NEW s \in Seq(S), NEW k \in 1 .. Len(s)
  PROVE  /\ RemoveAt(s, k) \in Seq(S) /\ Len(RemoveAt(s, k)) = Len(s) - 1
         /\ \A i \in 1 .. Len(s) - 1 : RemoveAt(s, k)[i] = IF i < k THEN s[i] ELSE s[i + 1]
<1>1. Len(s) \in Nat /\ \A i \in 1 .. Len(s) : s[i] \in S
  OBVIOUS
<1> DEFINE p == SubSeq(s, 1, k - 1)
           q == SubSeq(s, k + 1, Len(s))
<1>2. p \in Seq(S) /\ Len(p) = k - 1 /\ \A i \in 1 .. k - 1 : p[i] = s[i]
  <2>1. \A i \in 1 .. k - 1 : s[i] \in S
    BY <1>1
  <2>2. 1 \in Int /\ k - 1 \in Int
    BY <1>1
  <2>3. /\ p \in Seq(S)
        /\ Len(p) = IF 1 <= k - 1 THEN (k - 1) - 1 + 1 ELSE 0
        /\ \A i \in 1 .. (k - 1) - 1 + 1 : p[i] = s[1 + i - 1]
    BY <2>1, <2>2, SubSeqProperties
  <2> HIDE DEF p
  <2> QED BY <1>1, <2>3
<1>3. q \in Seq(S) /\ Len(q) = Len(s) - k /\ \A i \in 1 .. Len(s) - k : q[i] = s[k + i]
  <2>1. \A i \in k + 1 .. Len(s) : s[i] \in S
    BY <1>1
  <2>2. k + 1 \in Int /\ Len(s) \in Int
    BY <1>1
  <2>3. /\ q \in Seq(S)
        /\ Len(q) = IF k + 1 <= Len(s) THEN Len(s) - (k + 1) + 1 ELSE 0
        /\ \A i \in 1 .. Len(s) - (k + 1) + 1 : q[i] = s[(k + 1) + i - 1]
    BY <2>1, <2>2, SubSeqProperties
  <2> HIDE DEF q
  <2> QED BY <1>1, <2>3
<1> HIDE DEF p, q
<1>4. /\ p \o q \in Seq(S) /\ Len(p \o q) = Len(p) + Len(q)
      /\ \A i \in 1 .. Len(p) + Len(q) : (p \o q)[i] = IF i <= Len(p) THEN p[i] ELSE q[i - Len(p)]
  BY <1>2, <1>3, ConcatProperties
<1>5. RemoveAt(s, k) = p \o q
  BY DEF RemoveAt, p, q
<1>6. Len(RemoveAt(s, k)) = Len(s) - 1
  BY <1>1, <1>2, <1>3, <1>4, <1>5
<1>7. ASSUME NEW i \in 1 .. Len(s) - 1 PROVE (p \o q)[i] = IF i < k THEN s[i] ELSE s[i + 1]
  <2>1. i \in 1 .. Len(p) + Len(q)
    BY <1>1, <1>2, <1>3
  <2>2. (p \o q)[i] = IF i <= Len(p) THEN p[i] ELSE q[i - Len(p)]
    BY <1>4, <2>1
  <2>3. CASE i < k
    BY <1>1, <1>2, <2>2, <2>3
  <2>4. CASE ~(i < k)
    <3>1. ~(i <= Len(p)) /\ i - Len(p) \in 1 .. Len(s) - k /\ k + (i - Len(p)) = i + 1
      BY <1>1, <1>2, <2>4
    <3>2. q[i - Len(p)] = s[i + 1]
      BY <1>3, <3>1
    <3> QED BY <2>2, <2>4, <3>1, <3>2
  <2> QED BY <2>3, <2>4
<1> QED BY <1>4, <1>5, <1>6, <1>7

(* Removing one copy of a value. *)
LEMMA RemovedFirst ==
  ASSUME NEW S, NEW s \in Seq(S), NEW e
  PROVE  /\ RemoveFirst(s, e) \in Seq(S)
         /\ ToSet(RemoveFirst(s, e)) \subseteq ToSet(s)
         /\ NoTwice(s) => NoTwice(RemoveFirst(s, e)) /\ e \notin ToSet(RemoveFirst(s, e))
<1> DEFINE I == {i \in 1 .. Len(s) : s[i] = e}
           k == Min(I)
           r == RemoveAt(s, k)
<1>0. Len(s) \in Nat /\ DOMAIN s = 1 .. Len(s)
  OBVIOUS
<1>1. CASE I = {}
  <2>1. RemoveFirst(s, e) = s
    BY <1>1 DEF RemoveFirst
  <2>2. e \notin ToSet(s)
    BY <1>0, <1>1 DEF ToSet
  <2> QED BY <2>1, <2>2
<1>2. CASE I # {}
  <2>1. k \in I
    <3>1. I \in SUBSET (1 .. Len(s))
      OBVIOUS
    <3> HIDE DEF I
    <3> QED BY <1>0, <1>2, <3>1, MinIn
  <2>2. RemoveFirst(s, e) = r
    <3>1. \E i \in 1 .. Len(s) : s[i] = e
      BY <1>2
    <3> QED BY <1>2, <3>1 DEF RemoveFirst, SelectInSeq
  <2>3. k \in 1 .. Len(s) /\ s[k] = e
    BY <2>1
  <2> HIDE DEF k, I
  <2>4. /\ r \in Seq(S) /\ Len(r) = Len(s) - 1
        /\ \A i \in 1 .. Len(s) - 1 : r[i] = IF i < k THEN s[i] ELSE s[i + 1]
    BY <2>3, RemovedAt
  <2> HIDE DEF r
  <2>5. DOMAIN r = 1 .. Len(s) - 1
    BY <1>0, <2>4
  <2>6. ASSUME NEW i \in DOMAIN r
        PROVE  \E j \in 1 .. Len(s) : j # k /\ r[i] = s[j] /\ j = IF i < k THEN i ELSE i + 1
    BY <1>0, <2>3, <2>4, <2>5, <2>6
  <2>7. ToSet(r) \subseteq ToSet(s)
    BY <1>0, <2>6 DEF ToSet
  <2>8. ASSUME NoTwice(s) PROVE NoTwice(r) /\ e \notin ToSet(r)
    <3>1. ASSUME NEW i \in DOMAIN r PROVE r[i] # e
      <4>1. PICK j \in 1 .. Len(s) : j # k /\ r[i] = s[j]
        BY <2>6
      <4> QED BY <1>0, <2>3, <2>8, <4>1 DEF NoTwice
    <3>2. ASSUME NEW i \in DOMAIN r, NEW j \in DOMAIN r, i # j PROVE r[i] # r[j]
      <4>1. PICK x \in 1 .. Len(s) : r[i] = s[x] /\ x = IF i < k THEN i ELSE i + 1
        BY <2>6
      <4>2. PICK y \in 1 .. Len(s) : r[j] = s[y] /\ y = IF j < k THEN j ELSE j + 1
        BY <2>6
      <4>3. x # y
        BY <1>0, <2>3, <2>5, <3>2, <4>1, <4>2
      <4> QED BY <1>0, <2>8, <4>1, <4>2, <4>3 DEF NoTwice
    <3> QED BY <3>1, <3>2 DEF NoTwice, ToSet
  <2> QED BY <2>2, <2>4, <2>7, <2>8
<1> QED BY <1>1, <1>2

(* The place of the first element that is x. *)
LEMMA FirstAt ==
  ASSUME NEW n \in Nat, NEW I \in SUBSET (1 .. n), NEW k \in I, \A i \in I : i = k
  PROVE  (IF I # {} THEN Min(I) ELSE 0) = k
<1>1. Min(I) \in I
  BY MinIn
<1> QED BY <1>1

LEMMA PhasesAre ==
  /\ Len(Phases) = 7 /\ DOMAIN Phases = 1 .. 7
  /\ Phases[1] = "draw" /\ Phases[2] = "distinct" /\ Phases[3] = "keys" /\ Phases[4] = "pin"
  /\ Phases[5] = "derive" /\ Phases[6] = "repair" /\ Phases[7] = "publish"
BY DEF Phases

LEMMA AfterIs ==
  ASSUME NEW k \in 1 .. 6
  PROVE  After(Phases[k]) = Phases[k + 1]
<1> DEFINE I == {i \in 1 .. 7 : Phases[i] = Phases[k]}
<1>1. I \in SUBSET (1 .. 7) /\ k \in I
  OBVIOUS
<1>2. ASSUME NEW i \in I PROVE i = k
  BY PhasesAre
<1>3. (IF I # {} THEN Min(I) ELSE 0) = k
  <2> HIDE DEF I
  <2> QED BY <1>1, <1>2, FirstAt
<1>4. SelectInSeq(Phases, LAMBDA q : q = Phases[k]) = IF I # {} THEN Min(I) ELSE 0
  BY PhasesAre DEF SelectInSeq
<1> QED BY <1>3, <1>4 DEF After

LEMMA AfterEach ==
  /\ After("draw") = "distinct" /\ After("distinct") = "keys" /\ After("keys") = "pin"
  /\ After("pin") = "derive" /\ After("derive") = "repair" /\ After("repair") = "publish"
<1>1. \A k \in 1 .. 6 : After(Phases[k]) = Phases[k + 1]
  BY AfterIs
<1>2. 1 \in 1 .. 6 /\ 2 \in 1 .. 6 /\ 3 \in 1 .. 6 /\ 4 \in 1 .. 6 /\ 5 \in 1 .. 6 /\ 6 \in 1 .. 6
  OBVIOUS
<1>3. 1 + 1 = 2 /\ 2 + 1 = 3 /\ 3 + 1 = 4 /\ 4 + 1 = 5 /\ 5 + 1 = 6 /\ 6 + 1 = 7
  OBVIOUS
<1> QED BY <1>1, <1>2, <1>3, PhasesAre

(* A finite set as a sequence. *)
LEMMA SetListed ==
  ASSUME NEW S, IsFiniteSet(S)
  PROVE  SetToSeq(S) \in Seq(S)
<1>1. Cardinality(S) \in Nat /\ ExistsBijection(1 .. Cardinality(S), S)
  BY FS_CardinalityType
<1>2. PICK f : f \in Bijection(1 .. Cardinality(S), S)
  BY <1>1 DEF ExistsBijection
<1>3. f \in [1 .. Cardinality(S) -> S] /\ IsInjective(f)
  BY <1>2 DEF Bijection, Injection, IsInjective
<1>4. SetToSeq(S) \in [1 .. Cardinality(S) -> S]
  BY <1>3 DEF SetToSeq
<1> QED BY <1>1, <1>4

(* What holds of the empty prefix and passes from prefix to prefix.         *)
LEMMA PrefixInduction ==
  ASSUME NEW n \in Nat, NEW f, NEW Good, f[1 .. 0] \in Good,
         \A k \in 1 .. n : f[1 .. k - 1] \in Good => f[1 .. k] \in Good
  PROVE  f[1 .. n] \in Good
<1> DEFINE Fine == {k \in 0 .. n : f[1 .. k] \in Good}
<1>1. 0 \in Fine /\ \A k \in 1 .. n : k - 1 \in Fine => k \in Fine
  OBVIOUS
<1>2. n \in Fine
  <2> HIDE DEF Fine
  <2>1. \A k \in 0 .. n : k \in Fine
    BY <1>1, UptoInduction
  <2> QED BY <2>1
<1> QED BY <1>2

(* The values of a sequence, each once. *)
Once(seen, v) == IF v \in ToSet(seen) THEN seen ELSE Append(seen, v)
Onces(f, values) ==
  f = [s \in SUBSET DOMAIN values |->
         IF s = {} THEN <<>> ELSE Once(f[s \ {Max(s)}], values[Max(s)])]

LEMMA OnceIs ==
  ASSUME NEW V, NEW seen \in Seq(V), NEW v \in V, NoTwice(seen)
  PROVE  /\ Once(seen, v) \in Seq(V) /\ NoTwice(Once(seen, v))
         /\ ToSet(Once(seen, v)) = ToSet(seen) \cup {v}
<1>1. CASE v \in ToSet(seen)
  BY <1>1 DEF Once
<1>2. CASE v \notin ToSet(seen)
  <2> DEFINE q == Append(seen, v)
  <2>0. Len(seen) \in Nat /\ DOMAIN seen = 1 .. Len(seen)
    OBVIOUS
  <2>1. /\ q \in Seq(V) /\ DOMAIN q = 1 .. Len(seen) + 1
        /\ \A i \in 1 .. Len(seen) : q[i] = seen[i]
        /\ q[Len(seen) + 1] = v
    OBVIOUS
  <2> HIDE DEF q
  <2>2. \A i \in 1 .. Len(seen) : seen[i] # v
    BY <1>2, <2>0 DEF ToSet
  <2>3. NoTwice(q)
    BY <2>0, <2>1, <2>2 DEF NoTwice
  <2>4. ToSet(q) = ToSet(seen) \cup {v}
    <3>1. \A i \in 1 .. Len(seen) + 1 : i \in 1 .. Len(seen) \/ i = Len(seen) + 1
      BY <2>0
    <3>2. \A i \in 1 .. Len(seen) : i \in 1 .. Len(seen) + 1
      BY <2>0
    <3>3. Len(seen) + 1 \in 1 .. Len(seen) + 1
      BY <2>0
    <3> QED BY <2>0, <2>1, <3>1, <3>2, <3>3 DEF ToSet
  <2> QED BY <1>2, <2>1, <2>3, <2>4 DEF Once, q
<1> QED BY <1>1, <1>2

LEMMA OncesExist ==
  ASSUME NEW V, NEW values \in Seq(V)
  PROVE  \E f : Onces(f, values)
<1> DEFINE len == Len(values)
           All == {q \in Seq(V) : NoTwice(q)}
           g == [k \in 1 .. len |-> [q \in All |-> Once(q, values[k])]]
<1>1. len \in Nat /\ DOMAIN values = 1 .. len /\ \A k \in 1 .. len : values[k] \in V
  OBVIOUS
<1>2. \A k \in 1 .. len : \A q \in All : Once(q, values[k]) \in All
  BY <1>1, OnceIs
<1>3. <<>> \in All
  BY DEF NoTwice
<1> HIDE DEF len, All
<1>4. g \in [1 .. len -> [All -> All]]
  BY <1>2
<1>5. PICK f \in [SUBSET (1 .. len) -> All] : FoldsInOrder(f, len, <<>>, g)
  <2> HIDE DEF g
  <2> QED BY <1>1, <1>3, <1>4, FoldsUpto
<1>6. ASSUME NEW s \in SUBSET (1 .. len)
      PROVE  f[s] = IF s = {} THEN <<>> ELSE Once(f[s \ {Max(s)}], values[Max(s)])
  <2>1. f[s] = IF s = {} THEN <<>> ELSE g[Max(s)][f[s \ {Max(s)}]]
    BY <1>5 DEF FoldsInOrder
  <2>2. s # {} => Max(s) \in 1 .. len /\ f[s \ {Max(s)}] \in All
    BY <1>1, <1>5, MaxUpto
  <2> QED BY <2>1, <2>2
<1>7. f = [s \in SUBSET DOMAIN values |-> f[s]]
  BY <1>1, <1>5
<1> QED BY <1>1, <1>6, <1>7 DEF Onces

LEMMA DistinctIs ==
  ASSUME NEW V, NEW values \in Seq(V)
  PROVE  Distinct(values) \in Seq(V) /\ NoTwice(Distinct(values)) /\ ToSet(Distinct(values)) = ToSet(values)
<1> DEFINE len == Len(values)
           f == CHOOSE h : Onces(h, values)
<1>1. Onces(f, values)
  BY OncesExist
<1>2. Distinct(values) = f[DOMAIN values]
  BY DEF Distinct, FoldLeft, MapThenFoldSet, Onces, Once
<1>3. len \in Nat /\ DOMAIN values = 1 .. len /\ \A k \in 1 .. len : values[k] \in V
  OBVIOUS
<1> HIDE DEF f, len
<1> DEFINE Fine(q, k) == q \in Seq(V) /\ NoTwice(q) /\ ToSet(q) = {values[i] : i \in 1 .. k}
           Good == {k \in 0 .. len : Fine(f[1 .. k], k)}
<1>4. 0 \in Good
  <2>1. 1 .. 0 = {} /\ {} \in SUBSET DOMAIN values
    OBVIOUS
  <2>2. f[1 .. 0] = <<>>
    BY <1>1, <2>1 DEF Onces
  <2>3. ToSet(<<>>) = {} /\ {values[i] : i \in 1 .. 0} = {} /\ NoTwice(<<>>) /\ <<>> \in Seq(V)
    BY <2>1 DEF ToSet, NoTwice
  <2>4. Fine(f[1 .. 0], 0)
    BY <2>2, <2>3
  <2> HIDE DEF Fine
  <2> QED BY <1>3, <2>4
<1>5. ASSUME NEW k \in 1 .. len, k - 1 \in Good PROVE k \in Good
  <2>1. /\ 1 .. k \in SUBSET DOMAIN values /\ 1 .. k # {} /\ Max(1 .. k) = k
        /\ (1 .. k) \ {k} = 1 .. k - 1
    BY <1>3, PrefixMax
  <2>2. f[1 .. k] = Once(f[1 .. k - 1], values[k])
    BY <1>1, <2>1 DEF Onces
  <2>3. Fine(f[1 .. k - 1], k - 1)
    BY <1>5
  <2>4. {values[i] : i \in 1 .. k} = {values[i] : i \in 1 .. k - 1} \cup {values[k]}
    BY <1>3
  <2>5. /\ Once(f[1 .. k - 1], values[k]) \in Seq(V) /\ NoTwice(Once(f[1 .. k - 1], values[k]))
        /\ ToSet(Once(f[1 .. k - 1], values[k])) = ToSet(f[1 .. k - 1]) \cup {values[k]}
    <3> DEFINE q == f[1 .. k - 1]
               v == values[k]
    <3>1. q \in Seq(V) /\ NoTwice(q) /\ v \in V
      BY <1>3, <2>3
    <3> HIDE DEF q, v
    <3>2. Once(q, v) \in Seq(V) /\ NoTwice(Once(q, v)) /\ ToSet(Once(q, v)) = ToSet(q) \cup {v}
      BY <3>1, OnceIs
    <3> QED BY <3>2 DEF q, v
  <2>6. Fine(f[1 .. k], k)
    BY <2>2, <2>3, <2>4, <2>5
  <2> HIDE DEF Fine
  <2> QED BY <1>3, <2>6
<1>6. len \in Good
  <2> HIDE DEF Good
  <2>1. \A k \in 0 .. len : k \in Good
    BY <1>3, <1>4, <1>5, UptoInduction
  <2> QED BY <1>3, <2>1
<1>7. Fine(f[1 .. len], len)
  BY <1>6
<1> QED BY <1>2, <1>3, <1>7 DEF ToSet

(* Sequences put one after the other. *)
Chained(f, seqs) ==
  f = [i \in 1 .. Len(seqs) |-> IF i = 1 THEN seqs[i] ELSE f[i - 1] \o seqs[i]]

LEMMA ChainExists ==
  ASSUME NEW V, NEW n \in Nat, NEW seqs \in [1 .. n -> Seq(V)]
  PROVE  \E f : Chained(f, seqs)
<1> DEFINE All == Seq(V)
           g == [i \in 1 .. n |-> [q \in All |-> q \o seqs[i]]]
<1>1. Len(seqs) = n
  OBVIOUS
<1>2. \A i \in 1 .. n : \A q \in All : q \o seqs[i] \in All
  <2> SUFFICES ASSUME NEW i \in 1 .. n, NEW q \in Seq(V) PROVE q \o seqs[i] \in Seq(V)
    OBVIOUS
  <2>1. seqs[i] \in Seq(V)
    OBVIOUS
  <2> QED BY <2>1, ConcatProperties
<1>3. <<>> \in All
  OBVIOUS
<1>4. g \in [1 .. n -> [All -> All]]
  <2> HIDE DEF All
  <2> QED BY <1>2
<1>5. PICK f \in [0 .. n -> All] : Steps(f, n, <<>>, g)
  <2> HIDE DEF g, All
  <2> QED BY <1>3, <1>4, StepsExist
<1> DEFINE h == [i \in 1 .. n |-> f[i]]
<1>6. ASSUME NEW i \in 1 .. n PROVE f[i] = f[i - 1] \o seqs[i] /\ f[i - 1] \in All /\ f[0] = <<>>
  <2>1. i \in 0 .. n /\ i - 1 \in 0 .. n /\ 0 \in 0 .. n /\ i # 0
    OBVIOUS
  <2>2. f[i] = g[i][f[i - 1]] /\ f[0] = <<>>
    BY <1>5, <2>1 DEF Steps
  <2>3. f[i - 1] \in All
    BY <1>5, <2>1
  <2> QED BY <2>2, <2>3
<1>7. ASSUME NEW i \in 1 .. n
      PROVE  f[i] = IF i = 1 THEN seqs[i] ELSE h[i - 1] \o seqs[i]
  <2>1. CASE i = 1
    <3>1. f[1] = <<>> \o seqs[1]
      <4>1. f[i] = f[i - 1] \o seqs[i] /\ f[0] = <<>>
        BY <1>6
      <4>2. i - 1 = 0
        BY <2>1
      <4> HIDE DEF h, g
      <4> QED BY <2>1, <4>1, <4>2
    <3>2. seqs[1] \in Seq(V)
      BY <2>1
    <3>3. <<>> \o seqs[1] = seqs[1]
      BY <3>2, ConcatEmptySeq
    <3> QED BY <2>1, <3>1, <3>3
  <2>2. CASE i # 1
    <3>1. i - 1 \in 1 .. n
      BY <2>2
    <3> QED BY <1>6, <2>2, <3>1
  <2> QED BY <2>1, <2>2
<1>8. h = [i \in 1 .. Len(seqs) |-> IF i = 1 THEN seqs[i] ELSE h[i - 1] \o seqs[i]]
  BY <1>1, <1>7
<1> QED BY <1>8 DEF Chained

LEMMA ConcatTwice ==
  ASSUME NEW V, NEW p \in Seq(V), NEW q \in Seq(V)
  PROVE  /\ p \o q \in Seq(V) /\ ToSet(p \o q) = ToSet(p) \cup ToSet(q)
         /\ NoTwice(p) /\ NoTwice(q) /\ ToSet(p) \cap ToSet(q) = {} => NoTwice(p \o q)
<1> DEFINE r == p \o q
<1>0. /\ Len(p) \in Nat /\ DOMAIN p = 1 .. Len(p) /\ Len(q) \in Nat /\ DOMAIN q = 1 .. Len(q)
  OBVIOUS
<1>1. /\ r \in Seq(V) /\ Len(r) = Len(p) + Len(q)
      /\ \A i \in 1 .. Len(p) + Len(q) : r[i] = IF i <= Len(p) THEN p[i] ELSE q[i - Len(p)]
  BY ConcatProperties
<1> HIDE DEF r
<1>2. DOMAIN r = 1 .. Len(p) + Len(q)
  BY <1>0, <1>1
<1>3. ASSUME NEW i \in DOMAIN r
      PROVE  (i \in DOMAIN p /\ r[i] = p[i]) \/ (~(i \in DOMAIN p) /\ i - Len(p) \in DOMAIN q /\ r[i] = q[i - Len(p)])
  BY <1>0, <1>1, <1>2
<1>4. ASSUME NEW i \in DOMAIN p PROVE i \in DOMAIN r /\ r[i] = p[i]
  BY <1>0, <1>1, <1>2
<1>5. ASSUME NEW i \in DOMAIN q PROVE i + Len(p) \in DOMAIN r /\ r[i + Len(p)] = q[i]
  <2>1. i + Len(p) \in 1 .. Len(p) + Len(q) /\ ~(i + Len(p) <= Len(p)) /\ (i + Len(p)) - Len(p) = i
    BY <1>0
  <2> QED BY <1>1, <1>2, <2>1
<1>6. ToSet(r) = ToSet(p) \cup ToSet(q)
  BY <1>3, <1>4, <1>5 DEF ToSet
<1>7. ASSUME NoTwice(p), NoTwice(q), ToSet(p) \cap ToSet(q) = {} PROVE NoTwice(r)
  <2> SUFFICES ASSUME NEW i \in DOMAIN r, NEW j \in DOMAIN r, i # j PROVE r[i] # r[j]
    BY DEF NoTwice
  <2>1. CASE i \in DOMAIN p /\ j \in DOMAIN p
    BY <1>4, <1>7, <2>1 DEF NoTwice
  <2>2. CASE i \notin DOMAIN p /\ j \notin DOMAIN p
    <3>1. i - Len(p) # j - Len(p)
      BY <1>0, <1>2
    <3> QED BY <1>3, <1>7, <2>2, <3>1 DEF NoTwice
  <2>3. CASE i \in DOMAIN p /\ j \notin DOMAIN p
    <3>1. r[i] \in ToSet(p) /\ r[j] \in ToSet(q)
      BY <1>3, <2>3 DEF ToSet
    <3> QED BY <1>7, <3>1
  <2>4. CASE i \notin DOMAIN p /\ j \in DOMAIN p
    <3>1. r[i] \in ToSet(q) /\ r[j] \in ToSet(p)
      BY <1>3, <2>4 DEF ToSet
    <3> QED BY <1>7, <3>1
  <2> QED BY <2>1, <2>2, <2>3, <2>4
<1> QED BY <1>1, <1>6, <1>7 DEF r

(* Each of several values repeated: all in the set, and no value twice if  *)
(* each is there at most once and none was there twice.                    *)
RunsOf(seqs, values) ==
  \A i \in DOMAIN values : \A j \in DOMAIN seqs[i] : seqs[i][j] = values[i]
AtMostOnce(seqs, values) == NoTwice(values) /\ \A i \in DOMAIN values : Len(seqs[i]) <= 1

LEMMA FlattenIs ==
  ASSUME NEW V, NEW n \in Nat, NEW seqs \in [1 .. n -> Seq(V)],
         NEW values \in [1 .. n -> V], RunsOf(seqs, values)
  PROVE  /\ FlattenSeq(seqs) \in Seq(V)
         /\ AtMostOnce(seqs, values) => NoTwice(FlattenSeq(seqs))
<1>0. Len(seqs) = n /\ DOMAIN values = 1 .. n
  OBVIOUS
<1>1. CASE n = 0
  <2>1. FlattenSeq(seqs) = seqs
    BY <1>0, <1>1 DEF FlattenSeq
  <2>2. DOMAIN seqs = {} /\ seqs \in [1 .. 0 -> V]
    BY <1>1
  <2>3. seqs \in Seq(V)
    BY <2>2
  <2> QED BY <2>1, <2>2, <2>3 DEF NoTwice
<1>2. CASE n # 0
  <2> DEFINE f == CHOOSE h : Chained(h, seqs)
  <2>1. Chained(f, seqs)
    BY ChainExists
  <2>2. FlattenSeq(seqs) = f[Len(seqs)]
    BY <1>0, <1>2 DEF FlattenSeq, Chained
  <2> HIDE DEF f
  <2>3. ASSUME NEW k \in 1 .. n PROVE f[k] = IF k = 1 THEN seqs[k] ELSE f[k - 1] \o seqs[k]
    BY <1>0, <2>1 DEF Chained
  <2> DEFINE once == AtMostOnce(seqs, values)
             Upto(k) == {values[i] : i \in 1 .. k}
             Fine(q, k) == q \in Seq(V) /\ (once => NoTwice(q) /\ ToSet(q) \subseteq Upto(k))
             Good == {k \in 0 .. n : k > 0 => Fine(f[k], k)}
  <2>4. ASSUME NEW k \in 1 .. n
        PROVE  /\ seqs[k] \in Seq(V) /\ ToSet(seqs[k]) \subseteq {values[k]}
               /\ once => NoTwice(seqs[k])
    <3>1. seqs[k] \in Seq(V) /\ Len(seqs[k]) \in Nat /\ DOMAIN seqs[k] = 1 .. Len(seqs[k])
      OBVIOUS
    <3>2. ToSet(seqs[k]) \subseteq {values[k]}
      BY <1>0 DEF RunsOf, ToSet
    <3>3. once => NoTwice(seqs[k])
      BY <1>0, <3>1 DEF AtMostOnce, NoTwice
    <3> QED BY <3>1, <3>2, <3>3
  <2>5. 0 \in Good
    OBVIOUS
  <2>6. ASSUME NEW k \in 1 .. n, k - 1 \in Good PROVE k \in Good
    <3>1. CASE k = 1
      <4>1. f[k] = seqs[k] /\ values[k] \in Upto(k)
        BY <2>3, <3>1
      <4>2. Fine(f[k], k)
        BY <2>4, <4>1
      <4> HIDE DEF Fine
      <4> QED BY <4>2
    <3>2. CASE k # 1
      <4> DEFINE p == f[k - 1]
                 q == seqs[k]
      <4>1. k - 1 \in 1 .. n /\ k - 1 > 0
        BY <3>2
      <4>2. f[k] = p \o q
        BY <2>3, <3>2
      <4>3. Fine(p, k - 1)
        BY <2>6, <4>1
      <4>4. /\ q \in Seq(V) /\ ToSet(q) \subseteq {values[k]} /\ (once => NoTwice(q))
        BY <2>4
      <4> HIDE DEF p, q
      <4>5. once => values[k] \notin Upto(k - 1)
        BY <1>0, <4>1 DEF AtMostOnce, NoTwice
      <4>6. Upto(k - 1) \subseteq Upto(k) /\ values[k] \in Upto(k)
        BY <4>1
      <4> HIDE DEF once, Upto
      <4>7. /\ p \o q \in Seq(V) /\ ToSet(p \o q) = ToSet(p) \cup ToSet(q)
            /\ NoTwice(p) /\ NoTwice(q) /\ ToSet(p) \cap ToSet(q) = {} => NoTwice(p \o q)
        BY <4>3, <4>4, ConcatTwice
      <4>8. Fine(f[k], k)
        BY <4>2, <4>3, <4>4, <4>5, <4>6, <4>7
      <4> HIDE DEF Fine
      <4> QED BY <4>8
    <3> QED BY <3>1, <3>2
  <2>7. n \in Good
    <3> HIDE DEF Good
    <3>1. \A k \in 0 .. n : k \in Good
      BY <2>5, <2>6, UptoInduction
    <3> QED BY <3>1
  <2>8. Fine(f[n], n)
    BY <1>2, <2>7
  <2> QED BY <1>0, <2>2, <2>8
<1> QED BY <1>1, <1>2

------------------------------------------------------------------------------
(* A round of branch repair, attempt by attempt.                           *)

(* A repair of rows with these columns and values: derive rules that may    *)
(* write what the branches write.                                           *)
Mendable(branches, derived, Cols, Vals) ==
  /\ Listed(branches)
  /\ derived \in [[Cols -> Vals] -> [Cols -> Vals]]
  /\ \A b \in DOMAIN branches :
       DOMAIN branches[b].set \subseteq Cols /\ \A c \in DOMAIN branches[b].set : branches[b].set[c] \in Vals

AgreeOn(A, r, q) == \A c \in A : r[c] = q[c]

(* The columns of K are written by no branch and no derive rule, those of  *)
(* A by no branch but the last.                                            *)
Spared(branches, derived, Cols, Vals, K, A) ==
  /\ K \subseteq Cols /\ A \subseteq Cols
  /\ \A row \in [Cols -> Vals] : AgreeOn(K, derived[row], row)
  /\ \A b \in DOMAIN branches :
       /\ K \cap DOMAIN branches[b].set = {}
       /\ b # Len(branches) => A \cap DOMAIN branches[b].set = {}

LEMMA MendedRow ==
  ASSUME NEW branches, NEW derived, NEW Cols, NEW Vals, Mendable(branches, derived, Cols, Vals),
         NEW b \in DOMAIN branches, NEW row \in [Cols -> Vals]
  PROVE  Rewritten(branches[b], row) \in [Cols -> Vals]
BY DEF Rewritten, Mendable

(* What one turn makes of another. *)
Attempted(n, Cols, Vals, turn, branch, next) ==
  /\ next \in Shapes(n, Cols, Vals)
  /\ Len(next.backups) = Len(turn.backups) + 1
  /\ \A i \in 1 .. n : next.rows[i] = turn.rows[i] \/ next.rows[i] = Rewritten(branch, turn.rows[i])
  /\ \A p \in DOMAIN next.backups :
       \/ p \in DOMAIN turn.backups /\ next.backups[p] = turn.backups[p]
       \/ \A i \in DOMAIN next.backups[p] : next.backups[p][i] = turn.rows[i]

LEMMA AttemptShape ==
  ASSUME NEW n \in Nat, NEW branches, NEW derived, NEW Cols, NEW Vals, Mendable(branches, derived, Cols, Vals),
         NEW protected, NEW turn \in Shapes(n, Cols, Vals), NEW b \in DOMAIN branches
  PROVE  Attempted(n, Cols, Vals, turn, branches[b], Attempt(turn, b, branches, protected, derived))
<1> DEFINE next == Attempt(turn, b, branches, protected, derived)
           old == turn.rows
<1>1. PICK picks \in SUBSET Rewritable(b, branches, protected, old, derived) :
        next = [rows |-> [i \in DOMAIN old |-> IF i \in picks THEN Rewritten(branches[b], old[i]) ELSE old[i]],
                measured |-> Append(turn.measured, Matches(branches[b], old)),
                backups |-> Append(turn.backups, [i \in picks |-> old[i]])]
  BY AttemptIs
<1> DEFINE save == [i \in picks |-> old[i]]
<1>3. /\ old \in [1 .. n -> [Cols -> Vals]] /\ turn.measured \in Seq(Nat)
      /\ turn.backups \in Seq(Saved(n, Cols, Vals))
  BY DEF Shapes
<1>4. picks \in SUBSET (1 .. n)
  BY <1>3 DEF Rewritable
<1>5. save \in Saved(n, Cols, Vals)
  <2>2. save \in [picks -> [Cols -> Vals]]
    BY <1>3, <1>4
  <2> HIDE DEF save
  <2> QED BY <1>4, <2>2 DEF Saved
<1> HIDE DEF next, old, save
<1>6. /\ DOMAIN next.rows = 1 .. n
      /\ \A i \in 1 .. n : next.rows[i] = IF i \in picks THEN Rewritten(branches[b], old[i]) ELSE old[i]
      /\ next.measured = Append(turn.measured, Matches(branches[b], old))
      /\ next.backups = Append(turn.backups, save)
  BY <1>1, <1>3 DEF save
<1>7. next \in Shapes(n, Cols, Vals)
  <2>1. next.rows \in [1 .. n -> [Cols -> Vals]]
    <3>1. ASSUME NEW i \in 1 .. n PROVE next.rows[i] \in [Cols -> Vals]
      <4>1. old[i] \in [Cols -> Vals]
        BY <1>3
      <4>2. Rewritten(branches[b], old[i]) \in [Cols -> Vals]
        BY <4>1, MendedRow
      <4> QED BY <1>6, <4>1, <4>2
    <3>2. next.rows = [i \in 1 .. n |-> next.rows[i]]
      BY <1>1, <1>3
    <3> QED BY <3>1, <3>2
  <2>2. Matches(branches[b], old) \in Nat
    BY <1>3, MatchesNat
  <2>3. next.measured \in Seq(Nat) /\ next.backups \in Seq(Saved(n, Cols, Vals))
    BY <1>3, <1>5, <1>6, <2>2
  <2>4. next = [rows |-> next.rows, measured |-> next.measured, backups |-> next.backups]
    BY <1>1
  <2> QED BY <2>1, <2>3, <2>4 DEF Shapes
<1>8. Len(next.backups) = Len(turn.backups) + 1
  BY <1>3, <1>5, <1>6
<1>9. \A i \in DOMAIN save : save[i] = old[i]
  BY DEF save
<1>10. ASSUME NEW p \in DOMAIN next.backups
       PROVE  \/ p \in DOMAIN turn.backups /\ next.backups[p] = turn.backups[p]
              \/ next.backups[p] = save
  BY <1>3, <1>5, <1>6, AppendedAt
<1> QED BY <1>6, <1>7, <1>8, <1>9, <1>10 DEF Attempted, next, old

LEMMA MendingTurnsExist ==
  ASSUME NEW n \in Nat, NEW branches, NEW derived, NEW Cols, NEW Vals, Mendable(branches, derived, Cols, Vals),
         NEW recs \in RowsOf(n, Cols, Vals)
  PROVE  Empty(recs) \in Shapes(n, Cols, Vals) /\ \E f : Turns(f, recs, branches, derived)
<1> DEFINE len == Len(branches)
           Values == Shapes(n, Cols, Vals)
           Turn(turn, b) == Attempt(turn, b, branches, Protected(branches, recs), derived)
           g == [b \in 1 .. len |-> [turn \in Values |-> Turn(turn, b)]]
<1>1. len \in Nat /\ DOMAIN branches = 1 .. len
  BY DEF Mendable, Listed
<1>2. \A b \in 1 .. len : \A turn \in Values : Turn(turn, b) \in Values
  BY <1>1, AttemptShape DEF Attempted
<1>3. Empty(recs) \in Values
  BY DEF Empty, Shapes, RowsOf
<1> HIDE DEF len, Values, Turn
<1>4. g \in [1 .. len -> [Values -> Values]]
  BY <1>2
<1>5. PICK f \in [SUBSET (1 .. len) -> Values] : FoldsInOrder(f, len, Empty(recs), g)
  <2> HIDE DEF g
  <2> QED BY <1>1, <1>3, <1>4, FoldsUpto
<1>6. ASSUME NEW s \in SUBSET (1 .. len)
      PROVE  f[s] = IF s = {} THEN Empty(recs) ELSE Turn(f[s \ {Max(s)}], Max(s))
  <2>1. f[s] = IF s = {} THEN Empty(recs) ELSE g[Max(s)][f[s \ {Max(s)}]]
    BY <1>5 DEF FoldsInOrder
  <2>2. s # {} => Max(s) \in 1 .. len /\ f[s \ {Max(s)}] \in Values
    BY <1>1, <1>5, MaxUpto
  <2> QED BY <2>1, <2>2
<1>7. DOMAIN Order(branches) = 1 .. len /\ \A b \in 1 .. len : Order(branches)[b] = b
  BY <1>1 DEF Order
<1>8. ASSUME NEW s \in SUBSET DOMAIN Order(branches)
      PROVE  f[s] = IF s = {} THEN Empty(recs)
                    ELSE Attempt(f[s \ {Max(s)}], Order(branches)[Max(s)], branches,
                                 Protected(branches, recs), derived)
  <2>1. s # {} => Max(s) \in 1 .. len
    BY <1>1, <1>7, MaxUpto
  <2> QED BY <1>6, <1>7, <2>1 DEF Turn
<1>9. f = [s \in SUBSET DOMAIN Order(branches) |-> f[s]]
  BY <1>5, <1>7
<1> QED BY <1>3, <1>8, <1>9 DEF Turns, Values

(* After k turns: what has been written, and what was found. *)
Underway(n, Cols, Vals, recs, branches, K, A, k) ==
  {turn \in Shapes(n, Cols, Vals) :
     /\ Len(turn.backups) = k
     /\ \A i \in 1 .. n :
          /\ AgreeOn(K, turn.rows[i], recs[i])
          /\ k < Len(branches) => AgreeOn(A, turn.rows[i], recs[i])
          /\ \A p \in DOMAIN turn.backups :
               i \in DOMAIN turn.backups[p] =>
                 AgreeOn(K, turn.backups[p][i], recs[i]) /\ AgreeOn(A, turn.backups[p][i], recs[i])}

LEMMA AttemptSpares ==
  ASSUME NEW n \in Nat, NEW branches, NEW derived, NEW Cols, NEW Vals, Mendable(branches, derived, Cols, Vals),
         NEW K, NEW A, Spared(branches, derived, Cols, Vals, K, A),
         NEW protected, NEW recs \in RowsOf(n, Cols, Vals), NEW k \in DOMAIN branches,
         NEW turn \in Underway(n, Cols, Vals, recs, branches, K, A, k - 1)
  PROVE  Attempt(turn, k, branches, protected, derived) \in Underway(n, Cols, Vals, recs, branches, K, A, k)
<1> DEFINE next == Attempt(turn, k, branches, protected, derived)
<1>0. Len(branches) \in Nat /\ DOMAIN branches = 1 .. Len(branches)
  BY DEF Mendable, Listed
<1>1. turn \in Shapes(n, Cols, Vals) /\ Len(turn.backups) = k - 1
  BY DEF Underway
<1>2. Attempted(n, Cols, Vals, turn, branches[k], next)
  BY <1>1, AttemptShape
<1> HIDE DEF next
<1>3. Len(next.backups) = k
  BY <1>0, <1>1, <1>2 DEF Attempted
<1>4. ASSUME NEW i \in 1 .. n
      PROVE  /\ AgreeOn(K, next.rows[i], recs[i])
             /\ k < Len(branches) => AgreeOn(A, next.rows[i], recs[i])
             /\ \A p \in DOMAIN next.backups :
                  i \in DOMAIN next.backups[p] =>
                    AgreeOn(K, next.backups[p][i], recs[i]) /\ AgreeOn(A, next.backups[p][i], recs[i])
  <2> DEFINE row == turn.rows[i]
  <2>0. k - 1 < Len(branches)
    BY <1>0
  <2>1. /\ AgreeOn(K, row, recs[i]) /\ AgreeOn(A, row, recs[i])
        /\ \A p \in DOMAIN turn.backups :
             i \in DOMAIN turn.backups[p] =>
               AgreeOn(K, turn.backups[p][i], recs[i]) /\ AgreeOn(A, turn.backups[p][i], recs[i])
    BY <2>0 DEF Underway
  <2>2. row \in [Cols -> Vals]
    BY <1>1 DEF Shapes
  <2>3. next.rows[i] = row \/ next.rows[i] = Rewritten(branches[k], row)
    BY <1>2 DEF Attempted
  <2>4. /\ K \subseteq Cols /\ A \subseteq Cols /\ K \cap DOMAIN branches[k].set = {}
        /\ k # Len(branches) => A \cap DOMAIN branches[k].set = {}
    BY DEF Spared
  <2> HIDE DEF row
  <2>5. \A c \in Cols \ DOMAIN branches[k].set : Rewritten(branches[k], row)[c] = row[c]
    BY <2>2 DEF Rewritten
  <2>6. AgreeOn(K, next.rows[i], recs[i])
    BY <2>1, <2>3, <2>4, <2>5 DEF AgreeOn
  <2>7. k < Len(branches) => AgreeOn(A, next.rows[i], recs[i])
    <3> SUFFICES ASSUME k < Len(branches) PROVE AgreeOn(A, next.rows[i], recs[i])
      OBVIOUS
    <3>1. k # Len(branches)
      BY <1>0
    <3> QED BY <2>1, <2>3, <2>4, <2>5, <3>1 DEF AgreeOn
  <2>8. ASSUME NEW p \in DOMAIN next.backups, i \in DOMAIN next.backups[p]
        PROVE  AgreeOn(K, next.backups[p][i], recs[i]) /\ AgreeOn(A, next.backups[p][i], recs[i])
    <3>1. CASE p \in DOMAIN turn.backups /\ next.backups[p] = turn.backups[p]
      BY <2>1, <2>8, <3>1
    <3>2. CASE \A j \in DOMAIN next.backups[p] : next.backups[p][j] = turn.rows[j]
      <4>1. next.backups[p][i] = row
        BY <2>8, <3>2 DEF row
      <4> QED BY <2>1, <4>1
    <3> QED BY <1>2, <3>1, <3>2 DEF Attempted
  <2> QED BY <2>6, <2>7, <2>8
<1> QED BY <1>2, <1>3, <1>4 DEF Attempted, Underway, next

LEMMA AttemptsSpare ==
  ASSUME NEW n \in Nat, NEW branches, NEW derived, NEW Cols, NEW Vals, Mendable(branches, derived, Cols, Vals),
         NEW K, NEW A, Spared(branches, derived, Cols, Vals, K, A),
         NEW recs \in RowsOf(n, Cols, Vals)
  PROVE  Attempts(recs, branches, derived) \in Underway(n, Cols, Vals, recs, branches, K, A, Len(branches))
<1> DEFINE len == Len(branches)
           f == CHOOSE h : Turns(h, recs, branches, derived)
           Values(k) == Underway(n, Cols, Vals, recs, branches, K, A, k)
           Good == {k \in 0 .. len : f[1 .. k] \in Values(k)}
<1>1. len \in Nat /\ DOMAIN branches = 1 .. len /\ DOMAIN Order(branches) = 1 .. len
  BY DEF Mendable, Listed, Order
<1>2. Turns(f, recs, branches, derived)
  BY MendingTurnsExist
<1>3. Attempts(recs, branches, derived) = f[DOMAIN Order(branches)]
  BY DEF Attempts, FoldLeft, MapThenFoldSet, Turns, Order, Empty
<1> HIDE DEF len, f
<1>4. 0 \in Good
  <2>1. 1 .. 0 = {} /\ {} \in SUBSET DOMAIN Order(branches)
    OBVIOUS
  <2>2. f[1 .. 0] = Empty(recs)
    BY <1>2, <2>1 DEF Turns
  <2>3. Empty(recs) \in Shapes(n, Cols, Vals) /\ Empty(recs).rows = recs /\ Empty(recs).backups = <<>>
    BY MendingTurnsExist DEF Empty
  <2>4. f[1 .. 0] \in Values(0)
    BY <2>2, <2>3 DEF Underway, AgreeOn
  <2> HIDE DEF Values
  <2> QED BY <1>1, <2>4
<1>5. ASSUME NEW k \in 1 .. len, k - 1 \in Good PROVE k \in Good
  <2>1. /\ 1 .. k \in SUBSET DOMAIN Order(branches) /\ 1 .. k # {} /\ Max(1 .. k) = k
        /\ (1 .. k) \ {k} = 1 .. k - 1
    BY <1>1, PrefixMax
  <2>2. Order(branches)[k] = k
    BY <1>1 DEF Order
  <2>3. f[1 .. k] = Attempt(f[1 .. k - 1], k, branches, Protected(branches, recs), derived)
    <3> DEFINE S == 1 .. k
    <3>1. f[S] = Attempt(f[S \ {Max(S)}], Order(branches)[Max(S)], branches, Protected(branches, recs), derived)
      <4> HIDE DEF S
      <4> QED BY <1>2, <2>1 DEF Turns, S
    <3>2. Max(S) = k /\ S \ {Max(S)} = 1 .. k - 1
      BY <2>1
    <3> QED BY <2>2, <3>1, <3>2
  <2>4. f[1 .. k - 1] \in Values(k - 1)
    BY <1>5
  <2>5. f[1 .. k] \in Values(k)
    BY <1>1, <2>3, <2>4, AttemptSpares
  <2> HIDE DEF Values
  <2> QED BY <1>1, <2>5
<1>6. len \in Good
  <2> HIDE DEF Good
  <2>1. \A k \in 0 .. len : k \in Good
    BY <1>1, <1>4, <1>5, UptoInduction
  <2> QED BY <1>1, <2>1
<1> HIDE DEF Values
<1>7. f[1 .. len] \in Values(len)
  BY <1>6
<1> QED BY <1>1, <1>3, <1>7 DEF Values, len

(* A row that has been put back is as some branch found it. *)
LEMMA PutBackFound ==
  ASSUME NEW n \in Nat, NEW Cols, NEW Vals, NEW recs \in RowsOf(n, Cols, Vals),
         NEW backups \in Seq(Saved(n, Cols, Vals))
  PROVE  /\ PutBack(recs, backups) \in RowsOf(n, Cols, Vals)
         /\ \A i \in 1 .. n :
              \/ PutBack(recs, backups)[i] = recs[i]
              \/ \E p \in DOMAIN backups : i \in DOMAIN backups[p] /\ PutBack(recs, backups)[i] = backups[p][i]
<1> DEFINE len == Len(backups)
           Found(r, i) == r[i] = recs[i] \/ \E p \in DOMAIN backups : i \in DOMAIN backups[p] /\ r[i] = backups[p][i]
           Good == {r \in RowsOf(n, Cols, Vals) : \A i \in 1 .. n : Found(r, i)}
<1>1. len \in Nat /\ DOMAIN backups = 1 .. len /\ \A k \in 1 .. len : backups[k] \in Saved(n, Cols, Vals)
  OBVIOUS
<1>2. PICK f : Restores(f, recs, backups) /\ PutBack(recs, backups) = f[DOMAIN backups]
  BY PutBackIs
<1> HIDE DEF len
<1>3. f[1 .. 0] \in Good
  <2>1. 1 .. 0 = {} /\ {} \in SUBSET DOMAIN backups
    OBVIOUS
  <2>2. f[1 .. 0] = recs
    BY <1>2, <2>1 DEF Restores
  <2> QED BY <2>2
<1>4. ASSUME NEW k \in 1 .. len, f[1 .. k - 1] \in Good PROVE f[1 .. k] \in Good
  <2>1. /\ 1 .. k \in SUBSET DOMAIN backups /\ 1 .. k # {} /\ Max(1 .. k) = k
        /\ (1 .. k) \ {k} = 1 .. k - 1
    BY <1>1, PrefixMax
  <2>2. f[1 .. k] = Restored(f[1 .. k - 1], backups[k])
    BY <1>2, <2>1 DEF Restores
  <2> DEFINE r == f[1 .. k - 1]
             q == Restored(r, backups[k])
  <2>3. r \in RowsOf(n, Cols, Vals) /\ \A i \in 1 .. n : Found(r, i)
    BY <1>4
  <2> HIDE DEF r
  <2>4. q \in RowsOf(n, Cols, Vals)
    BY <1>1, <2>3, RestoredRows
  <2>5. ASSUME NEW i \in 1 .. n PROVE Found(q, i)
    <3>1. DOMAIN r = 1 .. n
      BY <2>3 DEF RowsOf
    <3>2. q[i] = IF i \in DOMAIN backups[k] THEN backups[k][i] ELSE r[i]
      BY <3>1 DEF Restored
    <3> HIDE DEF q
    <3>3. CASE i \in DOMAIN backups[k]
      BY <1>1, <3>2, <3>3
    <3>4. CASE i \notin DOMAIN backups[k]
      BY <2>3, <3>2, <3>4
    <3> QED BY <3>3, <3>4
  <2> QED BY <2>2, <2>4, <2>5 DEF r
<1>5. f[1 .. len] \in Good
  <2> HIDE DEF Good
  <2> QED BY <1>1, <1>3, <1>4, PrefixInduction
<1> QED BY <1>1, <1>2, <1>5

MendStates(n, k, Cols, Vals) == [rows : RowsOf(n, Cols, Vals), flips : [1 .. k -> Int], ended : BOOLEAN]

(* Deriving twice is deriving once, and a row that agrees with a fresh one *)
(* in the columns of A is fresh.                                           *)
Settled(derived, Cols, Vals, A) ==
  /\ \A r \in [Cols -> Vals] : derived[derived[r]] = derived[r]
  /\ \A r, q \in [Cols -> Vals] : AgreeOn(A, q, r) /\ derived[r] = r => derived[q] = q
AllFresh(recs, derived) == \A i \in DOMAIN recs : derived[recs[i]] = recs[i]

(* What a repair leaves of the rows it was given. *)
Spares(n, Cols, Vals, derived, K, recs, after) ==
  /\ after \in RowsOf(n, Cols, Vals)
  /\ \A i \in 1 .. n : AgreeOn(K, after[i], recs[i])
Remains(n, Cols, Vals, derived, K, A, recs, after) ==
  /\ Spares(n, Cols, Vals, derived, K, recs, after)
  /\ Settled(derived, Cols, Vals, A) /\ AllFresh(recs, derived) => AllFresh(after, derived)

More(flips, turn, branches) == [b \in DOMAIN branches |-> flips[b] + Cardinality(DOMAIN turn.backups[b])]

LEMMA RoundIs ==
  ASSUME NEW recs, NEW flips, NEW ended, NEW branches, NEW derived
  PROVE  LET turn == Attempts(recs, branches, derived)
             fresh == Refreshed(turn, derived)
             after == Round([rows |-> recs, flips |-> flips, ended |-> ended], branches, derived)
         IN  \/ after = [rows |-> recs, flips |-> flips, ended |-> TRUE]
             \/ after = [rows |-> PutBack(fresh, turn.backups), flips |-> flips, ended |-> TRUE]
             \/ after = [rows |-> fresh, flips |-> More(flips, turn, branches), ended |-> ended]
BY DEF Round, Refreshed, More

LEMMA RoundRemains ==
  ASSUME NEW n \in Nat, NEW branches, NEW derived, NEW Cols, NEW Vals, Mendable(branches, derived, Cols, Vals),
         NEW K, NEW A, Spared(branches, derived, Cols, Vals, K, A),
         NEW recs \in RowsOf(n, Cols, Vals)
  PROVE  LET turn == Attempts(recs, branches, derived)
             fresh == Refreshed(turn, derived)
         IN  /\ Remains(n, Cols, Vals, derived, K, A, recs, fresh)
             /\ Remains(n, Cols, Vals, derived, K, A, recs, PutBack(fresh, turn.backups))
<1> DEFINE turn == Attempts(recs, branches, derived)
           fresh == Refreshed(turn, derived)
           back == PutBack(fresh, turn.backups)
<1>1. turn \in Underway(n, Cols, Vals, recs, branches, K, A, Len(branches))
  BY AttemptsSpare
<1> HIDE DEF turn
<1>2. turn.rows \in RowsOf(n, Cols, Vals) /\ turn.backups \in Seq(Saved(n, Cols, Vals))
  BY <1>1 DEF Underway, Shapes, RowsOf
<1>3. ASSUME NEW i \in 1 .. n
      PROVE  /\ AgreeOn(K, turn.rows[i], recs[i])
             /\ \A p \in DOMAIN turn.backups :
                  i \in DOMAIN turn.backups[p] =>
                    AgreeOn(K, turn.backups[p][i], recs[i]) /\ AgreeOn(A, turn.backups[p][i], recs[i])
  BY <1>1 DEF Underway
<1>4. DOMAIN fresh = 1 .. n /\ \A i \in 1 .. n : fresh[i] = derived[turn.rows[i]]
  BY <1>2 DEF Refreshed, RowsOf
<1>5. \A i \in 1 .. n : turn.rows[i] \in [Cols -> Vals] /\ recs[i] \in [Cols -> Vals]
  BY <1>2 DEF RowsOf
<1>6. fresh \in RowsOf(n, Cols, Vals)
  <2>1. \A i \in 1 .. n : fresh[i] \in [Cols -> Vals]
    BY <1>4, <1>5 DEF Mendable
  <2>2. fresh = [i \in 1 .. n |-> fresh[i]]
    BY <1>4 DEF Refreshed
  <2> HIDE DEF fresh
  <2> QED BY <2>1, <2>2 DEF RowsOf
<1> HIDE DEF fresh
<1>7. ASSUME NEW i \in 1 .. n PROVE AgreeOn(K, fresh[i], recs[i])
  <2>1. AgreeOn(K, fresh[i], turn.rows[i])
    BY <1>4, <1>5 DEF Spared
  <2> QED BY <1>3, <2>1 DEF AgreeOn
<1>8. Settled(derived, Cols, Vals, A) => AllFresh(fresh, derived)
  BY <1>4, <1>5 DEF Settled, AllFresh
<1>9. /\ back \in RowsOf(n, Cols, Vals)
      /\ \A i \in 1 .. n :
           \/ back[i] = fresh[i]
           \/ \E p \in DOMAIN turn.backups : i \in DOMAIN turn.backups[p] /\ back[i] = turn.backups[p][i]
  BY <1>2, <1>6, PutBackFound
<1> HIDE DEF back
<1>10. ASSUME NEW i \in 1 .. n PROVE AgreeOn(K, back[i], recs[i])
  BY <1>3, <1>7, <1>9
<1>11. ASSUME Settled(derived, Cols, Vals, A), AllFresh(recs, derived) PROVE AllFresh(back, derived)
  <2>1. DOMAIN back = 1 .. n /\ DOMAIN recs = 1 .. n /\ \A i \in 1 .. n : back[i] \in [Cols -> Vals]
    BY <1>9 DEF RowsOf
  <2>2. ASSUME NEW i \in 1 .. n PROVE derived[back[i]] = back[i]
    <3>1. CASE back[i] = fresh[i]
      BY <1>4, <1>8, <1>11, <3>1 DEF AllFresh
    <3>2. CASE \E p \in DOMAIN turn.backups : i \in DOMAIN turn.backups[p] /\ back[i] = turn.backups[p][i]
      <4>1. AgreeOn(A, back[i], recs[i])
        BY <1>3, <3>2
      <4>2. derived[recs[i]] = recs[i]
        BY <1>11, <2>1 DEF AllFresh
      <4> QED BY <1>5, <1>11, <2>1, <4>1, <4>2 DEF Settled
    <3> QED BY <1>9, <3>1, <3>2
  <2> QED BY <2>1, <2>2 DEF AllFresh
<1> QED BY <1>6, <1>7, <1>8, <1>9, <1>10, <1>11 DEF Remains, Spares, turn, fresh, back

LEMMA RemainsThrough ==
  ASSUME NEW n, NEW Cols, NEW Vals, NEW derived, NEW K, NEW A, NEW recs, NEW between, NEW after,
         Remains(n, Cols, Vals, derived, K, A, recs, between), Remains(n, Cols, Vals, derived, K, A, between, after)
  PROVE  Remains(n, Cols, Vals, derived, K, A, recs, after)
BY DEF Remains, Spares, AgreeOn

(* The rounds of a repair, one after the other. *)
MendStart(branches, recs) == [rows |-> recs, flips |-> [b \in DOMAIN branches |-> 0], ended |-> FALSE]
MendStep(state, branches, derived) == IF state.ended THEN state ELSE Round(state, branches, derived)
Upto(n) == [k \in 1 .. n |-> k]
Mends(f, recs, branches, derived) ==
  f = [s \in SUBSET DOMAIN Upto(MaxRepairRounds) |->
         IF s = {} THEN MendStart(branches, recs) ELSE MendStep(f[s \ {Max(s)}], branches, derived)]

(* States a repair of `recs' may be in. *)
Mending(n, Cols, Vals, derived, branches, K, A, recs) ==
  {state \in MendStates(n, Len(branches), Cols, Vals) : Remains(n, Cols, Vals, derived, K, A, recs, state.rows)}

LEMMA MendStarts ==
  ASSUME NEW n \in Nat, NEW branches, NEW derived, NEW Cols, NEW Vals, Mendable(branches, derived, Cols, Vals),
         NEW K, NEW A, NEW recs \in RowsOf(n, Cols, Vals)
  PROVE  MendStart(branches, recs) \in Mending(n, Cols, Vals, derived, branches, K, A, recs)
<1>1. DOMAIN branches = 1 .. Len(branches)
  BY DEF Mendable, Listed
<1>2. [b \in DOMAIN branches |-> 0] \in [1 .. Len(branches) -> Int]
  BY <1>1
<1>3. Remains(n, Cols, Vals, derived, K, A, recs, recs)
  BY DEF Remains, Spares, AgreeOn
<1> QED BY <1>2, <1>3 DEF MendStart, Mending, MendStates

LEMMA MendSteps ==
  ASSUME NEW n \in Nat, NEW branches, NEW derived, NEW Cols, NEW Vals, Mendable(branches, derived, Cols, Vals),
         NEW K, NEW A, Spared(branches, derived, Cols, Vals, K, A),
         NEW recs \in RowsOf(n, Cols, Vals), NEW state \in Mending(n, Cols, Vals, derived, branches, K, A, recs)
  PROVE  MendStep(state, branches, derived) \in Mending(n, Cols, Vals, derived, branches, K, A, recs)
<1> DEFINE turn == Attempts(state.rows, branches, derived)
           fresh == Refreshed(turn, derived)
           back == PutBack(fresh, turn.backups)
           after == Round(state, branches, derived)
           len == Len(branches)
           more == More(state.flips, turn, branches)
<1>0. len \in Nat /\ DOMAIN branches = 1 .. len
  BY DEF Mendable, Listed
<1>1. /\ state.rows \in RowsOf(n, Cols, Vals) /\ state.flips \in [1 .. len -> Int] /\ state.ended \in BOOLEAN
      /\ state = [rows |-> state.rows, flips |-> state.flips, ended |-> state.ended]
      /\ Remains(n, Cols, Vals, derived, K, A, recs, state.rows)
  BY DEF Mending, MendStates
<1>2. \/ after = [rows |-> state.rows, flips |-> state.flips, ended |-> TRUE]
      \/ after = [rows |-> back, flips |-> state.flips, ended |-> TRUE]
      \/ after = [rows |-> fresh, flips |-> more, ended |-> state.ended]
  <2> DEFINE recs2 == state.rows
             flips2 == state.flips
             ended2 == state.ended
  <2>1. state = [rows |-> recs2, flips |-> flips2, ended |-> ended2]
    BY <1>1
  <2> HIDE DEF recs2, flips2, ended2
  <2>2. LET turn2 == Attempts(recs2, branches, derived)
            fresh2 == Refreshed(turn2, derived)
            after2 == Round([rows |-> recs2, flips |-> flips2, ended |-> ended2], branches, derived)
        IN  \/ after2 = [rows |-> recs2, flips |-> flips2, ended |-> TRUE]
            \/ after2 = [rows |-> PutBack(fresh2, turn2.backups), flips |-> flips2, ended |-> TRUE]
            \/ after2 = [rows |-> fresh2, flips |-> More(flips2, turn2, branches), ended |-> ended2]
    BY RoundIs
  <2> QED BY <2>1, <2>2 DEF recs2, flips2, ended2
<1>3. /\ Remains(n, Cols, Vals, derived, K, A, state.rows, fresh)
      /\ Remains(n, Cols, Vals, derived, K, A, state.rows, back)
  BY <1>1, RoundRemains
<1>4. more \in [1 .. len -> Int]
  <2>1. turn \in Underway(n, Cols, Vals, state.rows, branches, K, A, len)
    BY <1>1, AttemptsSpare
  <2> HIDE DEF turn
  <2>2. turn.backups \in Seq(Saved(n, Cols, Vals)) /\ Len(turn.backups) = len
    BY <2>1 DEF Underway, Shapes
  <2>3. ASSUME NEW b \in 1 .. len PROVE Cardinality(DOMAIN turn.backups[b]) \in Nat
    <3>1. turn.backups[b] \in Saved(n, Cols, Vals)
      BY <1>0, <2>2
    <3>2. DOMAIN turn.backups[b] \in SUBSET (1 .. n)
      BY <3>1 DEF Saved
    <3>3. IsFiniteSet(1 .. n)
      BY FS_Interval
    <3> QED BY <3>2, <3>3, FS_Subset, FS_CardinalityType
  <2> QED BY <1>0, <1>1, <2>3 DEF More
<1> HIDE DEF turn, fresh, back, after, more, len
<1>5. Remains(n, Cols, Vals, derived, K, A, recs, fresh) /\ Remains(n, Cols, Vals, derived, K, A, recs, back)
  BY <1>1, <1>3, RemainsThrough
<1>6. fresh \in RowsOf(n, Cols, Vals) /\ back \in RowsOf(n, Cols, Vals)
  BY <1>5 DEF Remains, Spares
<1>7. after \in Mending(n, Cols, Vals, derived, branches, K, A, recs)
  <2>1. CASE after = [rows |-> state.rows, flips |-> state.flips, ended |-> TRUE]
    BY <1>1, <2>1 DEF Mending, MendStates, len
  <2>2. CASE after = [rows |-> back, flips |-> state.flips, ended |-> TRUE]
    BY <1>1, <1>5, <1>6, <2>2 DEF Mending, MendStates, len
  <2>3. CASE after = [rows |-> fresh, flips |-> more, ended |-> state.ended]
    BY <1>1, <1>4, <1>5, <1>6, <2>3 DEF Mending, MendStates, len
  <2> QED BY <1>2, <2>1, <2>2, <2>3
<1> QED BY <1>7 DEF MendStep, after

LEMMA MendsExist ==
  ASSUME NEW n \in Nat, NEW branches, NEW derived, NEW Cols, NEW Vals, Mendable(branches, derived, Cols, Vals),
         NEW K, NEW A, Spared(branches, derived, Cols, Vals, K, A),
         NEW recs \in RowsOf(n, Cols, Vals)
  PROVE  \E f : Mends(f, recs, branches, derived)
<1> DEFINE len == MaxRepairRounds
           Values == Mending(n, Cols, Vals, derived, branches, K, A, recs)
           g == [k \in 1 .. len |-> [state \in Values |-> MendStep(state, branches, derived)]]
           start == MendStart(branches, recs)
<1>1. len \in Nat /\ DOMAIN Upto(len) = 1 .. len
  BY SynthAssumption DEF Upto
<1>2. \A state \in Values : MendStep(state, branches, derived) \in Values
  BY MendSteps
<1>3. start \in Values
  BY MendStarts
<1> HIDE DEF len, Values, start
<1>4. g \in [1 .. len -> [Values -> Values]]
  BY <1>2
<1>5. PICK f \in [SUBSET (1 .. len) -> Values] : FoldsInOrder(f, len, start, g)
  <2> HIDE DEF g
  <2> QED BY <1>1, <1>3, <1>4, FoldsUpto
<1>6. ASSUME NEW s \in SUBSET (1 .. len)
      PROVE  f[s] = IF s = {} THEN start ELSE MendStep(f[s \ {Max(s)}], branches, derived)
  <2>1. f[s] = IF s = {} THEN start ELSE g[Max(s)][f[s \ {Max(s)}]]
    BY <1>5 DEF FoldsInOrder
  <2>2. s # {} => Max(s) \in 1 .. len /\ f[s \ {Max(s)}] \in Values
    BY <1>1, <1>5, MaxUpto
  <2> QED BY <2>1, <2>2
<1>7. f = [s \in SUBSET DOMAIN Upto(len) |-> f[s]]
  BY <1>1, <1>5
<1> QED BY <1>1, <1>6, <1>7 DEF Mends, len, start

LEMMA RepairRemains ==
  ASSUME NEW n \in Nat, NEW branches, NEW derived, NEW Cols, NEW Vals, Mendable(branches, derived, Cols, Vals),
         NEW K, NEW A, Spared(branches, derived, Cols, Vals, K, A),
         NEW recs \in RowsOf(n, Cols, Vals)
  PROVE  Remains(n, Cols, Vals, derived, K, A, recs, Repair(recs, branches, derived).rows)
<1> DEFINE len == MaxRepairRounds
           f == CHOOSE h : Mends(h, recs, branches, derived)
           Good == Mending(n, Cols, Vals, derived, branches, K, A, recs)
<1>1. len \in Nat /\ DOMAIN Upto(MaxRepairRounds) = 1 .. len
  BY SynthAssumption DEF Upto
<1>2. Mends(f, recs, branches, derived)
  BY MendsExist
<1>3. Repair(recs, branches, derived) = f[DOMAIN Upto(MaxRepairRounds)]
  BY DEF Repair, FoldLeft, MapThenFoldSet, Mends, MendStart, MendStep, Upto
<1> HIDE DEF len, f
<1>4. f[1 .. 0] \in Good
  <2>1. 1 .. 0 = {} /\ {} \in SUBSET DOMAIN Upto(MaxRepairRounds)
    OBVIOUS
  <2>2. f[1 .. 0] = MendStart(branches, recs)
    BY <1>2, <2>1 DEF Mends
  <2> QED BY <2>2, MendStarts
<1>5. ASSUME NEW k \in 1 .. len, f[1 .. k - 1] \in Good PROVE f[1 .. k] \in Good
  <2>1. /\ 1 .. k \in SUBSET DOMAIN Upto(MaxRepairRounds) /\ 1 .. k # {} /\ Max(1 .. k) = k
        /\ (1 .. k) \ {k} = 1 .. k - 1
    BY <1>1, PrefixMax
  <2>2. f[1 .. k] = MendStep(f[1 .. k - 1], branches, derived)
    BY <1>2, <2>1 DEF Mends
  <2> QED BY <1>5, <2>2, MendSteps
<1>6. f[1 .. len] \in Good
  <2> HIDE DEF Good
  <2> QED BY <1>1, <1>4, <1>5, PrefixInduction
<1> QED BY <1>1, <1>3, <1>6 DEF Mending

------------------------------------------------------------------------------
(* The generator: what its operators read, of explicit rules and tables.   *)

(* The rules S and finished tables T, as the operators of the generator     *)
(* read them from its state.                                               *)
CellValues == {NULL} \cup Int
ColumnsIn(S, t) == DOMAIN S[t].columns
RowType(S, t) == [ColumnsIn(S, t) -> CellValues]
RelsIn(S, t) == {S[t].rels[i] : i \in DOMAIN S[t].rels}
ForeignIn(S, t) == {r.fk : r \in RelsIn(S, t)}
ParentsIn(S, t) == {r.parent : r \in RelsIn(S, t)} \cap DOMAIN S
ReferencedIn(S, t) ==
  {c \in ColumnsIn(S, t) : \E s \in DOMAIN S : \E r \in RelsIn(S, s) : r.parent = t /\ r.key = c}
PinnedIn(S, t) == {c \in ColumnsIn(S, t) : S[t].columns[c].pinned # {}}
TargetsIn(S, t) == DOMAIN S[t].derive \cup UNION {DOMAIN r.derive : r \in RelsIn(S, t)}
SetsIn(S, t) == UNION {DOMAIN S[t].branches[b].set : b \in DOMAIN S[t].branches}
ModeledIn(S, t) == {i \in DOMAIN S[t].rels : S[t].rels[i].modeled}
CountedIn(S, t) == {S[t].rels[i].fk : i \in ModeledIn(S, t)}
ApartIn(S, t) == ReferencedIn(S, t) \ CountedIn(S, t)
FirstIn(S, t, c) == SelectInSeq(S[t].rels, LAMBDA r : r.fk = c)
GovIn(S, t, c) == S[t].rels[FirstIn(S, t, c)]
LeftIn(S, t) == UNION {DOMAIN S[t].branches[b].set : b \in DOMAIN S[t].branches \ {Len(S[t].branches)}}

JoinedIn(T, rel, value, c) ==
  LET hits == {i \in DOMAIN T[rel.parent] : T[rel.parent][i][rel.key] = value}
  IN  IF value = NULL \/ rel.parent \notin DOMAIN T \/ hits = {} THEN NULL
      ELSE T[rel.parent][Max(hits)][c]
DerivedCellIn(S, T, t, row, c) ==
  IF c \in DOMAIN S[t].derive THEN row[S[t].derive[c]]
  ELSE LET rel == CHOOSE r \in RelsIn(S, t) : c \in DOMAIN r.derive
       IN  JoinedIn(T, rel, row[rel.fk], rel.derive[c])
DerivedIn(S, T, t, row) ==
  [c \in DOMAIN row |-> IF c \in TargetsIn(S, t) THEN DerivedCellIn(S, T, t, row, c) ELSE row[c]]

(* The tables of the rules are sound and disjoint as validated.             *)
Written(S, t) == PinnedIn(S, t) \cup TargetsIn(S, t) \cup SetsIn(S, t)
ValidIn(S) ==
  \A t \in DOMAIN S :
    /\ Sound(S, t)
    /\ Written(S, t) \cap (ReferencedIn(S, t) \cup ForeignIn(S, t)) = {}
    /\ PinnedIn(S, t) \cap TargetsIn(S, t) = {} /\ PinnedIn(S, t) \cap SetsIn(S, t) = {}

(* Every table that is there has its parents.                               *)
Rooted(S, T, t) ==
  /\ ParentsIn(S, t) \subseteq DOMAIN T
  /\ \A r \in RelsIn(S, t) : r.fixed = {} => r.parent \in DOMAIN S
TablesOK(S, T) ==
  /\ DOMAIN T \subseteq DOMAIN S
  /\ \A t \in DOMAIN T : T[t] \in Seq(RowType(S, t)) /\ Rooted(S, T, t)

LEMMA FirstFound ==
  ASSUME NEW S, NEW t, S[t].rels \in Seq(RelsIn(S, t)), NEW c \in ForeignIn(S, t)
  PROVE  FirstIn(S, t, c) \in DOMAIN S[t].rels /\ GovIn(S, t, c).fk = c /\ GovIn(S, t, c) \in RelsIn(S, t)
<1> DEFINE q == S[t].rels
           I == {i \in 1 .. Len(q) : q[i].fk = c}
<1>1. Len(q) \in Nat /\ DOMAIN q = 1 .. Len(q)
  OBVIOUS
<1>2. I # {} /\ I \in SUBSET (1 .. Len(q))
  BY <1>1 DEF ForeignIn, RelsIn
<1>3. FirstIn(S, t, c) = IF I # {} THEN Min(I) ELSE 0
  BY DEF FirstIn, SelectInSeq
<1>4. Min(I) \in I
  <2> HIDE DEF I
  <2> QED BY <1>1, <1>2, MinIn
<1>5. FirstIn(S, t, c) \in I
  BY <1>2, <1>3, <1>4
<1> QED BY <1>1, <1>5 DEF GovIn, RelsIn

LEMMA SoundParts ==
  ASSUME NEW S, NEW t, Sound(S, t)
  PROVE  /\ S[t].rels \in Seq(RelsIn(S, t)) /\ S[t].branches \in Seq(ToSet(S[t].branches))
         /\ ForeignIn(S, t) \subseteq ColumnsIn(S, t)
         /\ ToSet(S[t].derive) \subseteq ColumnsIn(S, t) \ TargetsIn(S, t)
         /\ S[t].pk \subseteq ColumnsIn(S, t)
<1>1. ToSet(S[t].rels) = RelsIn(S, t)
  BY DEF ToSet, RelsIn
<1>2. /\ S[t].pk \subseteq ColumnsIn(S, t)
      /\ S[t].rels \in Seq(RelsIn(S, t)) /\ S[t].branches \in Seq(ToSet(S[t].branches))
      /\ \A r \in RelsIn(S, t) : r.fk \in ColumnsIn(S, t)
      /\ ToSet(S[t].derive) \subseteq ColumnsIn(S, t) \ TargetsIn(S, t)
  BY <1>1 DEF Sound, ColumnsIn, TargetsIn
<1> QED BY <1>2 DEF ForeignIn

LEMMA SoundRel ==
  ASSUME NEW S, NEW t, Sound(S, t), NEW r \in RelsIn(S, t)
  PROVE  /\ r.fk \in ForeignIn(S, t) /\ r.fk \in ColumnsIn(S, t)
         /\ r.fixed \in SUBSET Int /\ IsFiniteSet(r.fixed)
         /\ r.fanouts \subseteq Nat
         /\ r.parent \in DOMAIN S =>
              r.key \in ColumnsIn(S, r.parent) /\ \A c \in DOMAIN r.derive : r.derive[c] \in ColumnsIn(S, r.parent)
<1>1. ToSet(S[t].rels) = RelsIn(S, t)
  BY DEF ToSet, RelsIn
<1>2. /\ r.fk \in ColumnsIn(S, t) /\ r.fixed \in SUBSET Int /\ IsFiniteSet(r.fixed)
      /\ r.fanouts \subseteq Nat
      /\ r.parent \in DOMAIN S => {r.key} \cup ToSet(r.derive) \subseteq ColumnsIn(S, r.parent)
  BY <1>1 DEF Sound, ColumnsIn
<1>3. \A c \in DOMAIN r.derive : r.derive[c] \in ToSet(r.derive)
  BY DEF ToSet
<1> QED BY <1>2, <1>3 DEF ForeignIn

LEMMA JoinedTyped ==
  ASSUME NEW S, NEW T, TablesOK(S, T), NEW rel, rel.parent \in DOMAIN S => rel.key \in ColumnsIn(S, rel.parent),
         NEW value, NEW c, rel.parent \in DOMAIN S => c \in ColumnsIn(S, rel.parent)
  PROVE  JoinedIn(T, rel, value, c) \in CellValues
<1> DEFINE hits == {i \in DOMAIN T[rel.parent] : T[rel.parent][i][rel.key] = value}
<1>1. CASE value = NULL \/ rel.parent \notin DOMAIN T \/ hits = {}
  BY <1>1 DEF JoinedIn, CellValues
<1>2. CASE ~(value = NULL \/ rel.parent \notin DOMAIN T \/ hits = {})
  <2>1. rel.parent \in DOMAIN T /\ rel.parent \in DOMAIN S /\ T[rel.parent] \in Seq(RowType(S, rel.parent))
    BY <1>2 DEF TablesOK
  <2>2. Len(T[rel.parent]) \in Nat /\ DOMAIN T[rel.parent] = 1 .. Len(T[rel.parent])
    BY <2>1
  <2>3. hits \in SUBSET (1 .. Len(T[rel.parent])) /\ hits # {}
    BY <1>2, <2>2
  <2>4. JoinedIn(T, rel, value, c) = T[rel.parent][Max(hits)][c]
    BY <1>2 DEF JoinedIn
  <2> HIDE DEF hits
  <2>5. Max(hits) \in 1 .. Len(T[rel.parent])
    BY <2>2, <2>3, MaxUpto
  <2>6. T[rel.parent][Max(hits)] \in RowType(S, rel.parent)
    BY <2>1, <2>5
  <2> QED BY <2>1, <2>4, <2>6 DEF RowType
<1> QED BY <1>1, <1>2

LEMMA DerivedTyped ==
  ASSUME NEW S, NEW T, TablesOK(S, T), NEW t, Sound(S, t), NEW row \in RowType(S, t)
  PROVE  /\ DerivedIn(S, T, t, row) \in RowType(S, t)
         /\ \A c \in ColumnsIn(S, t) \ TargetsIn(S, t) : DerivedIn(S, T, t, row)[c] = row[c]
         /\ \A c \in ColumnsIn(S, t) \cap TargetsIn(S, t) :
              DerivedIn(S, T, t, row)[c] = DerivedCellIn(S, T, t, row, c)
<1>1. DOMAIN row = ColumnsIn(S, t) /\ \A c \in ColumnsIn(S, t) : row[c] \in CellValues
  BY DEF RowType
<1>2. ASSUME NEW c \in ColumnsIn(S, t), c \in TargetsIn(S, t)
      PROVE  DerivedCellIn(S, T, t, row, c) \in CellValues
  <2>1. CASE c \in DOMAIN S[t].derive
    <3>1. S[t].derive[c] \in ColumnsIn(S, t)
      BY <2>1, SoundParts DEF ToSet
    <3> QED BY <1>1, <2>1, <3>1 DEF DerivedCellIn
  <2>2. CASE c \notin DOMAIN S[t].derive
    <3> DEFINE rel == CHOOSE r \in RelsIn(S, t) : c \in DOMAIN r.derive
    <3>1. \E r \in RelsIn(S, t) : c \in DOMAIN r.derive
      BY <1>2, <2>2 DEF TargetsIn
    <3>2. rel \in RelsIn(S, t) /\ c \in DOMAIN rel.derive
      BY <3>1
    <3>3. DerivedCellIn(S, T, t, row, c) = JoinedIn(T, rel, row[rel.fk], rel.derive[c])
      BY <2>2 DEF DerivedCellIn
    <3> HIDE DEF rel
    <3>4. rel.parent \in DOMAIN S => rel.key \in ColumnsIn(S, rel.parent) /\ rel.derive[c] \in ColumnsIn(S, rel.parent)
      BY <3>2, SoundRel
    <3> QED BY <3>3, <3>4, JoinedTyped
  <2> QED BY <2>1, <2>2
<1>3. \A c \in ColumnsIn(S, t) :
        DerivedIn(S, T, t, row)[c] = IF c \in TargetsIn(S, t) THEN DerivedCellIn(S, T, t, row, c) ELSE row[c]
  BY <1>1 DEF DerivedIn
<1>4. DerivedIn(S, T, t, row) = [c \in ColumnsIn(S, t) |-> DerivedIn(S, T, t, row)[c]]
  BY <1>1 DEF DerivedIn
<1>5. \A c \in ColumnsIn(S, t) : DerivedIn(S, T, t, row)[c] \in CellValues
  BY <1>1, <1>2, <1>3
<1> QED BY <1>3, <1>4, <1>5 DEF RowType

(* What a derived cell is read from. *)
ReadIn(S, t) == ToSet(S[t].derive) \cup ForeignIn(S, t)

LEMMA CellReads ==
  ASSUME NEW S, NEW T, NEW t, Sound(S, t), NEW r, NEW q, AgreeOn(ReadIn(S, t), q, r),
         NEW c \in TargetsIn(S, t)
  PROVE  DerivedCellIn(S, T, t, q, c) = DerivedCellIn(S, T, t, r, c)
<1>1. CASE c \in DOMAIN S[t].derive
  <2>1. S[t].derive[c] \in ReadIn(S, t)
    BY <1>1 DEF ReadIn, ToSet
  <2> QED BY <1>1, <2>1 DEF DerivedCellIn, AgreeOn
<1>2. CASE c \notin DOMAIN S[t].derive
  <2> DEFINE rel == CHOOSE p \in RelsIn(S, t) : c \in DOMAIN p.derive
  <2>1. rel \in RelsIn(S, t)
    BY <1>2 DEF TargetsIn
  <2>2. /\ DerivedCellIn(S, T, t, q, c) = JoinedIn(T, rel, q[rel.fk], rel.derive[c])
        /\ DerivedCellIn(S, T, t, r, c) = JoinedIn(T, rel, r[rel.fk], rel.derive[c])
    BY <1>2 DEF DerivedCellIn
  <2> HIDE DEF rel
  <2>3. q[rel.fk] = r[rel.fk]
    BY <2>1 DEF AgreeOn, ReadIn, ForeignIn
  <2> QED BY <2>2, <2>3
<1> QED BY <1>1, <1>2

(* Deriving again changes nothing, and what is fresh stays fresh when      *)
(* neither the derived cells nor those they are read from change.          *)
LEMMA DerivedSettles ==
  ASSUME NEW S, NEW T, TablesOK(S, T), NEW t, Sound(S, t), ForeignIn(S, t) \cap TargetsIn(S, t) = {},
         NEW r \in RowType(S, t)
  PROVE  /\ DerivedIn(S, T, t, DerivedIn(S, T, t, r)) = DerivedIn(S, T, t, r)
         /\ \A q \in RowType(S, t) :
              AgreeOn((ReadIn(S, t) \cup TargetsIn(S, t)) \cap ColumnsIn(S, t), q, r) /\ DerivedIn(S, T, t, r) = r
                => DerivedIn(S, T, t, q) = q
<1> DEFINE D(row) == DerivedIn(S, T, t, row)
<1>0. ReadIn(S, t) \subseteq ColumnsIn(S, t) \ TargetsIn(S, t)
  BY SoundParts DEF ReadIn
<1>1. D(D(r)) = D(r)
  <2> DEFINE q == D(r)
  <2>1. /\ q \in RowType(S, t)
        /\ \A c \in ColumnsIn(S, t) \ TargetsIn(S, t) : q[c] = r[c]
        /\ \A c \in ColumnsIn(S, t) \cap TargetsIn(S, t) : q[c] = DerivedCellIn(S, T, t, r, c)
    BY DerivedTyped
  <2> HIDE DEF q
  <2>2. AgreeOn(ReadIn(S, t), q, r)
    BY <1>0, <2>1 DEF AgreeOn
  <2>3. /\ D(q) \in RowType(S, t)
        /\ \A c \in ColumnsIn(S, t) \ TargetsIn(S, t) : D(q)[c] = q[c]
        /\ \A c \in ColumnsIn(S, t) \cap TargetsIn(S, t) : D(q)[c] = DerivedCellIn(S, T, t, q, c)
    BY <2>1, DerivedTyped
  <2>4. \A c \in TargetsIn(S, t) : DerivedCellIn(S, T, t, q, c) = DerivedCellIn(S, T, t, r, c)
    BY <2>2, CellReads
  <2> HIDE DEF D
  <2>5. \A c \in ColumnsIn(S, t) : D(q)[c] = q[c]
    BY <2>1, <2>3, <2>4
  <2>6. D(q) = q
    BY <2>1, <2>3, <2>5 DEF RowType
  <2> QED BY <2>6 DEF q
<1>2. ASSUME NEW q \in RowType(S, t),
             AgreeOn((ReadIn(S, t) \cup TargetsIn(S, t)) \cap ColumnsIn(S, t), q, r), D(r) = r
      PROVE  D(q) = q
  <2>1. AgreeOn(ReadIn(S, t), q, r) /\ \A c \in ColumnsIn(S, t) \cap TargetsIn(S, t) : q[c] = r[c]
    BY <1>0, <1>2 DEF AgreeOn
  <2>2. /\ D(q) \in RowType(S, t)
        /\ \A c \in ColumnsIn(S, t) \ TargetsIn(S, t) : D(q)[c] = q[c]
        /\ \A c \in ColumnsIn(S, t) \cap TargetsIn(S, t) : D(q)[c] = DerivedCellIn(S, T, t, q, c)
    BY DerivedTyped
  <2>3. \A c \in ColumnsIn(S, t) \cap TargetsIn(S, t) : D(r)[c] = DerivedCellIn(S, T, t, r, c)
    BY DerivedTyped
  <2>4. \A c \in TargetsIn(S, t) : DerivedCellIn(S, T, t, q, c) = DerivedCellIn(S, T, t, r, c)
    BY <2>1, CellReads
  <2> HIDE DEF D
  <2>5. \A c \in ColumnsIn(S, t) : D(q)[c] = q[c]
    BY <1>2, <2>1, <2>2, <2>3, <2>4
  <2> QED BY <2>2, <2>5 DEF RowType
<1> QED BY <1>1, <1>2

FreshIn(S, T, t, rs) == \A i \in DOMAIN rs : DerivedIn(S, T, t, rs[i]) = rs[i]
DeriveMap(S, T, t) == [row \in RowType(S, t) |-> DerivedIn(S, T, t, row)]
Unmoved(S, t) == LeftIn(S, t) \cap (ToSet(S[t].derive) \cup TargetsIn(S, t)) = {}

LEMMA SeqRows ==
  ASSUME NEW S, NEW t, NEW rs \in Seq(RowType(S, t))
  PROVE  /\ Len(rs) \in Nat /\ DOMAIN rs = 1 .. Len(rs)
         /\ rs \in RowsOf(Len(rs), ColumnsIn(S, t), CellValues)
         /\ \A i \in DOMAIN rs : rs[i] \in RowType(S, t) /\ DOMAIN rs[i] = ColumnsIn(S, t)
BY DEF RowsOf, RowType

LEMMA RowsSeq ==
  ASSUME NEW S, NEW t, NEW n \in Nat, NEW rs \in RowsOf(n, ColumnsIn(S, t), CellValues)
  PROVE  rs \in Seq(RowType(S, t)) /\ Len(rs) = n /\ DOMAIN rs = 1 .. n
BY DEF RowsOf, RowType

(* Branch repair of a table's rows. *)
LEMMA TableRepaired ==
  ASSUME NEW S, NEW T, TablesOK(S, T), ValidIn(S), NEW t \in DOMAIN S,
         NEW rs \in Seq(RowType(S, t)), NEW after,
         after = Repair(rs, S[t].branches, DeriveMap(S, T, t)).rows
  PROVE  /\ after \in Seq(RowType(S, t)) /\ Len(after) = Len(rs)
         /\ \A i \in DOMAIN rs : \A c \in ColumnsIn(S, t) \ (SetsIn(S, t) \cup TargetsIn(S, t)) :
              after[i][c] = rs[i][c]
         /\ Unmoved(S, t) /\ FreshIn(S, T, t, rs) => FreshIn(S, T, t, after)
<1> DEFINE n == Len(rs)
           Cs == ColumnsIn(S, t)
           branches == S[t].branches
           derived == DeriveMap(S, T, t)
           K == Cs \ (SetsIn(S, t) \cup TargetsIn(S, t))
           A == IF Unmoved(S, t) THEN (ReadIn(S, t) \cup TargetsIn(S, t)) \cap Cs ELSE {}
<1>0. /\ n \in Nat /\ DOMAIN rs = 1 .. n /\ rs \in RowsOf(n, Cs, CellValues)
      /\ Sound(S, t) /\ RowType(S, t) = [Cs -> CellValues]
      /\ SetsIn(S, t) \cap ForeignIn(S, t) = {} /\ TargetsIn(S, t) \cap ForeignIn(S, t) = {}
  BY SeqRows DEF ValidIn, Written, RowType
<1>1. derived \in [[Cs -> CellValues] -> [Cs -> CellValues]]
  BY <1>0, DerivedTyped DEF DeriveMap
<1>2. \A row \in [Cs -> CellValues] : derived[row] = DerivedIn(S, T, t, row)
  BY <1>0 DEF DeriveMap
<1>3. \A b \in DOMAIN branches :
        DOMAIN branches[b].set \subseteq Cs /\ \A c \in DOMAIN branches[b].set : branches[b].set[c] \in CellValues
  <2>1. \A b \in ToSet(branches) : DOMAIN b.set \subseteq Cs /\ ToSet(b.set) \subseteq Int
    BY <1>0 DEF Sound, ColumnsIn
  <2> SUFFICES ASSUME NEW b \in DOMAIN branches
               PROVE  DOMAIN branches[b].set \subseteq Cs
                      /\ \A c \in DOMAIN branches[b].set : branches[b].set[c] \in CellValues
    OBVIOUS
  <2>2. branches[b] \in ToSet(branches)
    BY DEF ToSet
  <2>3. DOMAIN branches[b].set \subseteq Cs /\ ToSet(branches[b].set) \subseteq Int
    BY <2>1, <2>2
  <2>4. \A c \in DOMAIN branches[b].set : branches[b].set[c] \in ToSet(branches[b].set)
    BY DEF ToSet
  <2> QED BY <2>3, <2>4 DEF CellValues
<1>4. Listed(branches) /\ Len(branches) \in Nat
  <2>1. branches \in Seq(ToSet(branches))
    BY <1>0, SoundParts
  <2> HIDE DEF branches
  <2> QED BY <2>1 DEF Listed
<1>5. Mendable(branches, derived, Cs, CellValues)
  BY <1>1, <1>3, <1>4 DEF Mendable
<1>6. Spared(branches, derived, Cs, CellValues, K, A)
  <2>1. \A row \in [Cs -> CellValues] : AgreeOn(K, derived[row], row)
    BY <1>0, <1>2, DerivedTyped DEF AgreeOn
  <2>2. \A b \in DOMAIN branches : DOMAIN branches[b].set \subseteq SetsIn(S, t)
    BY DEF SetsIn
  <2>3. ASSUME NEW b \in DOMAIN branches, b # Len(branches) PROVE A \cap DOMAIN branches[b].set = {}
    <3>1. DOMAIN branches[b].set \subseteq LeftIn(S, t)
      BY <2>3 DEF LeftIn
    <3>2. LeftIn(S, t) \cap ForeignIn(S, t) = {}
      BY <1>0 DEF LeftIn, SetsIn
    <3> QED BY <3>1, <3>2 DEF Unmoved, ReadIn
  <2> QED BY <2>1, <2>2, <2>3 DEF Spared
<1>7. Unmoved(S, t) => Settled(derived, Cs, CellValues, A)
  <2> SUFFICES ASSUME Unmoved(S, t) PROVE Settled(derived, Cs, CellValues, A)
    OBVIOUS
  <2>0. A = (ReadIn(S, t) \cup TargetsIn(S, t)) \cap Cs
    OBVIOUS
  <2>1. ASSUME NEW r \in [Cs -> CellValues]
        PROVE  /\ DerivedIn(S, T, t, DerivedIn(S, T, t, r)) = DerivedIn(S, T, t, r)
               /\ \A q \in [Cs -> CellValues] :
                    AgreeOn(A, q, r) /\ DerivedIn(S, T, t, r) = r => DerivedIn(S, T, t, q) = q
    BY <1>0, <2>0, DerivedSettles
  <2> HIDE DEF A, derived
  <2> QED BY <1>1, <1>2, <2>1 DEF Settled
<1> HIDE DEF K, A, derived, branches, n, Cs
<1>8. Remains(n, Cs, CellValues, derived, K, A, rs, after)
  BY <1>0, <1>5, <1>6, RepairRemains DEF derived, branches
<1>9. /\ after \in RowsOf(n, Cs, CellValues) /\ \A i \in 1 .. n : AgreeOn(K, after[i], rs[i])
      /\ Settled(derived, Cs, CellValues, A) /\ AllFresh(rs, derived) => AllFresh(after, derived)
  BY <1>8 DEF Remains, Spares
<1>10. after \in Seq(RowType(S, t)) /\ Len(after) = n /\ DOMAIN after = 1 .. n
  BY <1>0, <1>9, RowsSeq DEF Cs
<1>11. (AllFresh(rs, derived) <=> FreshIn(S, T, t, rs)) /\ (AllFresh(after, derived) <=> FreshIn(S, T, t, after))
  BY <1>0, <1>2, <1>9, <1>10 DEF AllFresh, FreshIn, RowsOf
<1> QED BY <1>0, <1>7, <1>9, <1>10, <1>11 DEF AgreeOn, K, n, Cs

(* The pools. *)
ColumnIn(T, p, k) == [i \in DOMAIN T[p] |-> T[p][i][k]]
PoolIn(S, T, t, rel) ==
  LET values == IF rel.fixed # {} THEN SetToSeq(rel.fixed) ELSE ColumnIn(T, rel.parent, rel.key)
  IN  IF S[t].weighted THEN Distinct(values) ELSE values
ValuesIn(T, p, k) == {T[p][i][k] : i \in DOMAIN T[p]}
ApartAt(rs, c) == \A i, j \in DOMAIN rs : i # j => rs[i][c] # rs[j][c]

LEMMA PoolIs ==
  ASSUME NEW S, NEW T, TablesOK(S, T), NEW t, Sound(S, t), NEW rel \in RelsIn(S, t),
         rel.fixed = {} => rel.parent \in DOMAIN T
  PROVE  /\ PoolIn(S, T, t, rel) \in Seq(CellValues)
         /\ rel.fixed = {} => ToSet(PoolIn(S, T, t, rel)) = ValuesIn(T, rel.parent, rel.key)
         /\ rel.fixed = {} /\ ApartAt(T[rel.parent], rel.key) => NoTwice(PoolIn(S, T, t, rel))
<1> DEFINE values == IF rel.fixed # {} THEN SetToSeq(rel.fixed) ELSE ColumnIn(T, rel.parent, rel.key)
           Goal(q) == /\ q \in Seq(CellValues)
                      /\ rel.fixed = {} => ToSet(q) = ValuesIn(T, rel.parent, rel.key)
                      /\ rel.fixed = {} /\ ApartAt(T[rel.parent], rel.key) => NoTwice(q)
<1>1. Goal(values)
  <2>1. CASE rel.fixed # {}
    <3>1. rel.fixed \in SUBSET Int /\ IsFiniteSet(rel.fixed)
      BY SoundRel
    <3>2. SetToSeq(rel.fixed) \in Seq(rel.fixed)
      BY <3>1, SetListed
    <3>3. SetToSeq(rel.fixed) \in Seq(CellValues)
      <4>1. rel.fixed \subseteq CellValues
        BY <3>1 DEF CellValues
      <4> QED BY <3>2, <4>1
    <3> QED BY <2>1, <3>3
  <2>2. CASE rel.fixed = {}
    <3> DEFINE q == T[rel.parent]
    <3>1. rel.parent \in DOMAIN T /\ rel.parent \in DOMAIN S /\ q \in Seq(RowType(S, rel.parent))
      BY <2>2 DEF TablesOK
    <3>2. rel.key \in ColumnsIn(S, rel.parent)
      BY <3>1, SoundRel
    <3>3. Len(q) \in Nat /\ DOMAIN q = 1 .. Len(q) /\ \A i \in DOMAIN q : q[i] \in RowType(S, rel.parent)
      BY <3>1, SeqRows
    <3>4. values = [i \in 1 .. Len(q) |-> q[i][rel.key]]
      BY <2>2, <3>3 DEF ColumnIn
    <3>5. \A i \in 1 .. Len(q) : q[i][rel.key] \in CellValues
      BY <3>2, <3>3 DEF RowType
    <3>6. values \in Seq(CellValues)
      <4> HIDE DEF values, q
      <4> QED BY <3>3, <3>4, <3>5
    <3>7. ToSet(values) = ValuesIn(T, rel.parent, rel.key)
      BY <3>3, <3>4 DEF ToSet, ValuesIn
    <3>8. ApartAt(q, rel.key) => NoTwice(values)
      BY <3>3, <3>4 DEF ApartAt, NoTwice
    <3> QED BY <3>6, <3>7, <3>8
  <2> QED BY <2>1, <2>2
<1> HIDE DEF values
<1>2. Goal(Distinct(values))
  <2>1. values \in Seq(CellValues)
    BY <1>1
  <2>2. /\ Distinct(values) \in Seq(CellValues) /\ NoTwice(Distinct(values))
        /\ ToSet(Distinct(values)) = ToSet(values)
    BY <2>1, DistinctIs
  <2> QED BY <1>1, <2>2
<1>3. PoolIn(S, T, t, rel) = values \/ PoolIn(S, T, t, rel) = Distinct(values)
  BY DEF PoolIn, values
<1> QED BY <1>1, <1>2, <1>3

(* The rows of a modeled count. *)
CountsIn(gov, rel) == {IF IsUnique(gov) THEN Min({n, 1}) ELSE n : n \in rel.fanouts}
Expanded(parents, f, k) ==
  FlattenSeq([p \in DOMAIN parents |-> [n \in 1 .. f[p] |-> parents[p]]]) \o [n \in 1 .. k |-> NULL]
ExpansionsIn(S, T, t, rel) ==
  LET gov == GovIn(S, t, rel.fk)
      parents == Distinct(PoolIn(S, T, t, gov))
  IN  {Expanded(parents, f, k) : f \in [DOMAIN parents -> CountsIn(gov, rel)], k \in rel.orphans}

(* No value but NULL twice. *)
NeverTwice(q) == \A i, j \in DOMAIN q : i # j => q[i] # q[j] \/ q[i] = NULL

LEMMA ExpansionsAre ==
  ASSUME NEW S, NEW T, TablesOK(S, T), NEW t, Sound(S, t), NEW rel \in RelsIn(S, t),
         GovIn(S, t, rel.fk).fixed = {} => GovIn(S, t, rel.fk).parent \in DOMAIN T,
         NEW q \in ExpansionsIn(S, T, t, rel)
  PROVE  LET gov == GovIn(S, t, rel.fk)
         IN  /\ q \in Seq(CellValues)
             /\ gov.fixed = {} => ToSet(q) \subseteq ValuesIn(T, gov.parent, gov.key) \cup {NULL}
             /\ IsUnique(gov) => NeverTwice(q)
<1> DEFINE gov == GovIn(S, t, rel.fk)
           parents == Distinct(PoolIn(S, T, t, gov))
           counts == CountsIn(gov, rel)
<1>1. PICK f \in [DOMAIN parents -> counts], k \in rel.orphans : q = Expanded(parents, f, k)
  BY DEF ExpansionsIn
<1>2. gov \in RelsIn(S, t)
  <2>1. rel.fk \in ForeignIn(S, t) /\ S[t].rels \in Seq(RelsIn(S, t))
    BY SoundRel, SoundParts
  <2> QED BY <2>1, FirstFound
<1>3. k \in Nat /\ rel.fanouts \subseteq Nat
  <2>1. ToSet(S[t].rels) = RelsIn(S, t)
    BY DEF ToSet, RelsIn
  <2>2. rel.fanouts \cup rel.orphans \subseteq Nat
    BY <2>1 DEF Sound
  <2> QED BY <2>2
<1>4. counts \subseteq Nat /\ (IsUnique(gov) => \A n \in counts : n <= 1)
  <2>1. ASSUME NEW n \in rel.fanouts PROVE Min({n, 1}) \in Nat /\ Min({n, 1}) <= 1
    <3>1. n \in Nat
      BY <1>3
    <3>2. Min({n, 1}) = IF n <= 1 THEN n ELSE 1
      BY <3>1, MinOfTwo
    <3> QED BY <3>1, <3>2
  <2> QED BY <1>3, <2>1 DEF CountsIn
<1> DEFINE pool == PoolIn(S, T, t, gov)
<1>5. pool \in Seq(CellValues) /\ (gov.fixed = {} => ToSet(pool) = ValuesIn(T, gov.parent, gov.key))
  BY <1>2, PoolIs
<1>6. parents \in Seq(CellValues) /\ NoTwice(parents) /\ ToSet(parents) = ToSet(pool)
  <2> HIDE DEF pool
  <2> QED BY <1>5, DistinctIs DEF pool
<1> HIDE DEF counts, gov, parents, pool
<1> DEFINE V == ToSet(parents)
           len == Len(parents)
           seqs == [p \in DOMAIN parents |-> [n \in 1 .. f[p] |-> parents[p]]]
<1>7. len \in Nat /\ DOMAIN parents = 1 .. len /\ parents \in [1 .. len -> V]
  BY <1>6 DEF ToSet
<1>8. \A p \in 1 .. len : f[p] \in Nat /\ (IsUnique(gov) => f[p] <= 1)
  BY <1>1, <1>4, <1>7
<1>9. seqs \in [1 .. len -> Seq(V)] /\ RunsOf(seqs, parents)
  <2>1. ASSUME NEW p \in 1 .. len PROVE [n \in 1 .. f[p] |-> parents[p]] \in Seq(V)
    BY <1>7, <1>8
  <2>2. seqs \in [1 .. len -> Seq(V)]
    BY <1>7, <2>1
  <2>3. RunsOf(seqs, parents)
    BY <1>7, <1>8 DEF RunsOf
  <2> QED BY <2>2, <2>3
<1>10. IsUnique(gov) => AtMostOnce(seqs, parents)
  <2>1. \A p \in 1 .. len : Len(seqs[p]) = f[p]
    BY <1>7, <1>8
  <2> HIDE DEF seqs
  <2> QED BY <1>6, <1>7, <1>8, <2>1 DEF AtMostOnce
<1> DEFINE e == FlattenSeq(seqs)
           o == [n \in 1 .. k |-> NULL]
<1>11. e \in Seq(V) /\ (IsUnique(gov) => NoTwice(e))
  <2> HIDE DEF seqs, V, len
  <2> QED BY <1>7, <1>9, <1>10, FlattenIs
<1>12. q = e \o o
  BY <1>1 DEF Expanded
<1>13. o \in Seq({NULL}) /\ Len(o) = k /\ DOMAIN o = 1 .. k /\ ToSet(o) \subseteq {NULL}
  BY <1>3 DEF ToSet
<1> HIDE DEF seqs, e, o, V, len
<1> DEFINE W == V \cup {NULL}
<1>14. e \in Seq(W) /\ o \in Seq(W)
  BY <1>11, <1>13
<1>15. q \in Seq(W)
  BY <1>12, <1>14, ConcatTwice
<1>16. W \subseteq CellValues
  BY <1>6 DEF V, ToSet, CellValues
<1>17. /\ Len(q) = Len(e) + Len(o) /\ Len(e) \in Nat /\ Len(o) \in Nat
       /\ \A i \in 1 .. Len(e) + Len(o) : q[i] = IF i <= Len(e) THEN e[i] ELSE o[i - Len(e)]
  BY <1>12, <1>14, ConcatProperties
<1>18. ASSUME IsUnique(gov) PROVE NeverTwice(q)
  <2> SUFFICES ASSUME NEW i \in DOMAIN q, NEW j \in DOMAIN q, i # j PROVE q[i] # q[j] \/ q[i] = NULL
    BY DEF NeverTwice
  <2>1. DOMAIN q = 1 .. Len(e) + Len(o) /\ DOMAIN e = 1 .. Len(e) /\ DOMAIN o = 1 .. Len(o)
    BY <1>14, <1>15, <1>17
  <2>2. \A x \in DOMAIN q : ~(x <= Len(e)) => q[x] = NULL
    <3> SUFFICES ASSUME NEW x \in DOMAIN q, ~(x <= Len(e)) PROVE q[x] = NULL
      OBVIOUS
    <3>1. x - Len(e) \in DOMAIN o
      BY <1>17, <2>1
    <3>2. q[x] = o[x - Len(e)]
      BY <1>17, <2>1
    <3> QED BY <1>13, <3>1, <3>2
  <2>3. CASE i <= Len(e) /\ j <= Len(e)
    <3>1. i \in DOMAIN e /\ j \in DOMAIN e /\ q[i] = e[i] /\ q[j] = e[j]
      BY <1>17, <2>1, <2>3
    <3> QED BY <1>11, <1>18, <3>1 DEF NoTwice
  <2>4. CASE ~(i <= Len(e))
    BY <2>2, <2>4
  <2>5. CASE i <= Len(e) /\ ~(j <= Len(e))
    BY <2>2, <2>5
  <2> QED BY <2>3, <2>4, <2>5
<1>19. q \in Seq(CellValues)
  BY <1>15, <1>16
<1>20. ToSet(q) \subseteq W
  BY <1>15 DEF ToSet
<1> QED BY <1>5, <1>6, <1>18, <1>19, <1>20 DEF gov, V, W

------------------------------------------------------------------------------
(* The inductive invariant of generation.                                  *)

(* What is claimed of a table's rows. *)
OnceAt(rs, c) == \A i, j \in DOMAIN rs : i # j => rs[i][c] # rs[j][c] \/ rs[i][c] = NULL
ResolvedIn(S, T, t, rs) ==
  \A c \in ForeignIn(S, t) :
    GovIn(S, t, c).fixed = {} =>
      \A i \in DOMAIN rs : rs[i][c] \in ValuesIn(T, GovIn(S, t, c).parent, GovIn(S, t, c).key) \cup {NULL}
UniqueKey(S, t, c) == IsUnique(GovIn(S, t, c)) /\ GovIn(S, t, c).key \in ApartIn(S, GovIn(S, t, c).parent)
UniqueIn(S, t, rs, X) == \A c \in ForeignIn(S, t) \ X : UniqueKey(S, t, c) => OnceAt(rs, c)
DistinctIn(S, t, rs) == \A c \in ApartIn(S, t) : ApartAt(rs, c)
SuppliedIn(S, t) ==
  {c \in S[t].pk \ ForeignIn(S, t) :
     S[t].columns[c].number => Cardinality(S[t].columns[c].space) > 1}
KeyKept(S, t) == SuppliedIn(S, t) # {} /\ S[t].pk \cap Written(S, t) = {}
KeysDiffer(S, t, rs, I) ==
  \A i, j \in I : i # j /\ (\A c \in S[t].pk : rs[i][c] # NULL) => \E c \in S[t].pk : rs[i][c] # rs[j][c]

(* A finished table. *)
Finished(S, T, t, rs) ==
  /\ ResolvedIn(S, T, t, rs) /\ UniqueIn(S, t, rs, {}) /\ DistinctIn(S, t, rs)
  /\ KeyKept(S, t) => KeysDiffer(S, t, rs, DOMAIN rs)
  /\ Unmoved(S, t) => FreshIn(S, T, t, rs)

(* A table in hand: its pools hold parents' values, its counts too. *)
PoolsOK(S, T, t, pl, learned) ==
  /\ DOMAIN pl = DOMAIN S[t].rels /\ \A i \in DOMAIN pl : pl[i] \in Seq(CellValues)
  /\ \A i \in DOMAIN pl : S[t].rels[i].fixed = {} =>
       ToSet(pl[i]) \subseteq ValuesIn(T, S[t].rels[i].parent, S[t].rels[i].key)
  /\ learned \in Seq(CellValues)
  /\ \A c \in CountedIn(S, t) :
       /\ GovIn(S, t, c).fixed = {} =>
            ToSet(learned) \subseteq ValuesIn(T, GovIn(S, t, c).parent, GovIn(S, t, c).key) \cup {NULL}
       /\ IsUnique(GovIn(S, t, c)) => NeverTwice(learned)
InHand(S, T, t, pl, learned, rs, k) ==
  /\ t \in DOMAIN S \ DOMAIN T /\ Rooted(S, T, t)
  /\ rs \in Seq(RowType(S, t)) /\ k \in 1 .. Len(rs) + 1
  /\ PoolsOK(S, T, t, pl, learned)
  /\ ResolvedIn(S, T, t, rs) /\ UniqueIn(S, t, rs, ApartIn(S, t))
(* While it is drawn, a unique foreign key's values leave their pool. *)
Drawn(S, t, pl, learned, rs) ==
  \A c \in ForeignIn(S, t) : UniqueKey(S, t, c) =>
    IF c \in CountedIn(S, t) THEN Len(rs) <= Len(learned) /\ \A i \in DOMAIN rs : rs[i][c] = learned[i]
    ELSE /\ NoTwice(pl[FirstIn(S, t, c)])
         /\ \A i \in DOMAIN rs : rs[i][c] = NULL \/ rs[i][c] \notin ToSet(pl[FirstIn(S, t, c)])
ApartBelow(S, t, rs, k) == \A c \in ApartIn(S, t) : \A i, j \in 1 .. k - 1 : i # j => rs[i][c] # rs[j][c]

Early == {"validate", "invalid", "cycle"}
Working == {"draw", "distinct", "keys", "pin", "derive", "repair", "publish"}
Spaced == {"keys", "pin", "derive", "repair", "publish"}
Keyed == {"pin", "derive", "repair", "publish"}

Stage(S, T, ph, t, pl, learned, rs, k) ==
  /\ InHand(S, T, t, pl, learned, rs, k)
  /\ ph = "draw" => Drawn(S, t, pl, learned, rs)
  /\ ph = "distinct" => ApartBelow(S, t, rs, k)
  /\ ph \in Spaced => DistinctIn(S, t, rs)
  /\ ph = "keys" /\ KeyKept(S, t) => KeysDiffer(S, t, rs, 1 .. k - 1)
  /\ ph \in Keyed /\ KeyKept(S, t) => KeysDiffer(S, t, rs, DOMAIN rs)
  /\ ph = "repair" => FreshIn(S, T, t, rs)
  /\ ph = "publish" /\ Unmoved(S, t) => FreshIn(S, T, t, rs)

Generating(S, T, ph, t, pl, learned, rs, k) ==
  /\ S \in Schemas /\ TablesOK(S, T)
  /\ IF ph \in Early THEN DOMAIN T = {} ELSE ValidIn(S)
  /\ \A u \in DOMAIN T : Finished(S, T, u, T[u])
  /\ ph \in Working => Stage(S, T, ph, t, pl, learned, rs, k)
GenInv == Generating(schema, tables, phase, table, pools, assigned, rows, at)

------------------------------------------------------------------------------
(* Every step keeps it.                                                    *)

LEMMA Reads ==
  ASSUME NEW t
  PROVE  /\ Columns(t) = ColumnsIn(schema, t) /\ Rels(t) = RelsIn(schema, t) /\ Rule(t) = schema[t]
         /\ ForeignKeys(t) = ForeignIn(schema, t) /\ Parents(t) = ParentsIn(schema, t)
         /\ Referenced(t) = ReferencedIn(schema, t) /\ Pinned(t) = PinnedIn(schema, t)
         /\ DeriveTargets(t) = TargetsIn(schema, t) /\ Modeled(t) = ModeledIn(schema, t)
         /\ ModeledColumns(t) = CountedIn(schema, t) /\ DistinctColumns(t) = ApartIn(schema, t)
         /\ Names = DOMAIN schema /\ LeftBehind(t) = LeftIn(schema, t)
<1>1. /\ Columns(t) = ColumnsIn(schema, t) /\ Rels(t) = RelsIn(schema, t) /\ Rule(t) = schema[t]
      /\ Names = DOMAIN schema /\ Modeled(t) = ModeledIn(schema, t)
      /\ \A s : Rels(s) = RelsIn(schema, s)
  BY DEF Columns, Rels, Rule, Names, Modeled, ColumnsIn, RelsIn, ModeledIn
<1>2. /\ ForeignKeys(t) = ForeignIn(schema, t) /\ Parents(t) = ParentsIn(schema, t)
      /\ ModeledColumns(t) = CountedIn(schema, t)
      /\ Pinned(t) = PinnedIn(schema, t)
      /\ DeriveTargets(t) = TargetsIn(schema, t)
  BY <1>1 DEF ForeignKeys, Parents, ModeledColumns, Pinned, DeriveTargets, ForeignIn, ParentsIn,
     CountedIn,
              PinnedIn, TargetsIn
<1>3. Referenced(t) = ReferencedIn(schema, t)
  BY <1>1 DEF Referenced, ReferencedIn
<1>4. LeftBehind(t) = LeftIn(schema, t)
  BY <1>1 DEF LeftBehind, LeftIn
<1>5. DistinctColumns(t) = ApartIn(schema, t)
  BY <1>2, <1>3 DEF DistinctColumns, ApartIn
<1> QED BY <1>1, <1>2, <1>3, <1>4, <1>5

LEMMA ReadsPools ==
  ASSUME NEW t
  PROVE  /\ \A c : RelOf(t, c) = FirstIn(schema, t, c) /\ Governing(t, c) = GovIn(schema, t, c)
         /\ \A rel : Pool(t, rel) = PoolIn(schema, tables, t, rel)
         /\ \A rel : Expansions(t, rel) = ExpansionsIn(schema, tables, t, rel)
<1>1. ASSUME NEW c PROVE RelOf(t, c) = FirstIn(schema, t, c) /\ Governing(t, c) = GovIn(schema, t, c)
  BY DEF RelOf, Governing, Rule, FirstIn, GovIn
<1>2. ASSUME NEW rel PROVE Pool(t, rel) = PoolIn(schema, tables, t, rel)
  BY DEF Pool, ColumnOf, Rule, PoolIn, ColumnIn
<1>3. ASSUME NEW rel PROVE Expansions(t, rel) = ExpansionsIn(schema, tables, t, rel)
  BY DEF Expansions, ExpansionsIn, Expanded, CountsIn, Pool, PoolIn, ColumnOf, ColumnIn, Governing,
     GovIn, RelOf, FirstIn, Rule
<1> QED BY <1>1, <1>2, <1>3

LEMMA ReadsDerived ==
  ASSUME NEW t
  PROVE  \A row : Derived(t, row) = DerivedIn(schema, tables, t, row)
<1>1. ASSUME NEW row, NEW c PROVE DerivedCell(t, row, c) = DerivedCellIn(schema, tables, t, row, c)
  BY DEF DerivedCell, DerivedCellIn, Joined, JoinedIn, Rule, Rels, RelsIn
<1>2. ASSUME NEW row PROVE Derived(t, row) = DerivedIn(schema, tables, t, row)
  BY <1>1, Reads DEF Derived, DerivedIn
<1> QED BY <1>2

(* Rows rewritten in the columns of X only. *)
Rewrites(S, t, rs, qs, X) ==
  /\ qs \in Seq(RowType(S, t)) /\ Len(qs) = Len(rs)
  /\ \A i \in DOMAIN rs : \A c \in ColumnsIn(S, t) \ X : qs[i][c] = rs[i][c]

LEMMA RewritesKeep ==
  ASSUME NEW S, NEW T, NEW t, Sound(S, t), NEW rs \in Seq(RowType(S, t)), NEW qs, NEW X, Rewrites(S, t, rs, qs, X)
  PROVE  /\ DOMAIN qs = DOMAIN rs
         /\ ForeignIn(S, t) \cap X = {} /\ ResolvedIn(S, T, t, rs) => ResolvedIn(S, T, t, qs)
         /\ \A Y : (ForeignIn(S, t) \ Y) \cap X = {} /\ UniqueIn(S, t, rs, Y) => UniqueIn(S, t, qs, Y)
         /\ ApartIn(S, t) \cap X = {} /\ DistinctIn(S, t, rs) => DistinctIn(S, t, qs)
         /\ S[t].pk \cap X = {} /\ KeysDiffer(S, t, rs, DOMAIN rs) => KeysDiffer(S, t, qs, DOMAIN qs)
<1>1. DOMAIN qs = DOMAIN rs /\ \A i \in DOMAIN rs : \A c \in ColumnsIn(S, t) \ X : qs[i][c] = rs[i][c]
  <2>1. qs \in Seq(RowType(S, t)) /\ Len(qs) = Len(rs)
    BY DEF Rewrites
  <2>2. DOMAIN qs = 1 .. Len(qs) /\ DOMAIN rs = 1 .. Len(rs)
    BY <2>1
  <2> QED BY <2>1, <2>2 DEF Rewrites
<1>2. ForeignIn(S, t) \subseteq ColumnsIn(S, t) /\ S[t].pk \subseteq ColumnsIn(S, t) /\ ApartIn(S, t) \subseteq ColumnsIn(S, t)
  BY SoundParts DEF ApartIn, ReferencedIn
<1>3. ASSUME ForeignIn(S, t) \cap X = {}, ResolvedIn(S, T, t, rs) PROVE ResolvedIn(S, T, t, qs)
  <2>1. \A c \in ForeignIn(S, t) : \A i \in DOMAIN rs : qs[i][c] = rs[i][c]
    BY <1>1, <1>2, <1>3
  <2> QED BY <1>1, <1>3, <2>1 DEF ResolvedIn
<1>4. ASSUME NEW Y, (ForeignIn(S, t) \ Y) \cap X = {}, UniqueIn(S, t, rs, Y) PROVE UniqueIn(S, t, qs, Y)
  <2>1. \A c \in ForeignIn(S, t) \ Y : \A i \in DOMAIN rs : qs[i][c] = rs[i][c]
    BY <1>1, <1>2, <1>4
  <2> QED BY <1>1, <1>4, <2>1 DEF UniqueIn, OnceAt
<1>5. ASSUME ApartIn(S, t) \cap X = {}, DistinctIn(S, t, rs) PROVE DistinctIn(S, t, qs)
  <2>1. \A c \in ApartIn(S, t) : \A i \in DOMAIN rs : qs[i][c] = rs[i][c]
    BY <1>1, <1>2, <1>5
  <2> QED BY <1>1, <1>5, <2>1 DEF DistinctIn, ApartAt
<1>6. ASSUME S[t].pk \cap X = {}, KeysDiffer(S, t, rs, DOMAIN rs) PROVE KeysDiffer(S, t, qs, DOMAIN qs)
  <2>1. \A c \in S[t].pk : \A i \in DOMAIN rs : qs[i][c] = rs[i][c]
    BY <1>1, <1>2, <1>6
  <2> QED BY <1>1, <1>6, <2>1 DEF KeysDiffer
<1> QED BY <1>1, <1>3, <1>4, <1>5, <1>6

(* What the phases after the keys may write. *)
LEMMA WrittenKeeps ==
  ASSUME NEW S, NEW T, ValidIn(S), NEW t \in DOMAIN S, NEW pl, NEW learned, NEW rs, NEW k, InHand(S, T, t, pl, learned, rs, k),
         DistinctIn(S, t, rs), KeyKept(S, t) => KeysDiffer(S, t, rs, DOMAIN rs),
         NEW qs, NEW X \in SUBSET Written(S, t), Rewrites(S, t, rs, qs, X)
  PROVE  /\ InHand(S, T, t, pl, learned, qs, 1) /\ DistinctIn(S, t, qs)
         /\ KeyKept(S, t) => KeysDiffer(S, t, qs, DOMAIN qs)
<1>1. /\ Sound(S, t) /\ X \cap ForeignIn(S, t) = {} /\ X \cap ReferencedIn(S, t) = {}
      /\ KeyKept(S, t) => S[t].pk \cap X = {}
  BY DEF ValidIn, KeyKept
<1>2. X \cap ApartIn(S, t) = {} /\ (ForeignIn(S, t) \ ApartIn(S, t)) \cap X = {}
  BY <1>1 DEF ApartIn
<1>3. rs \in Seq(RowType(S, t)) /\ ResolvedIn(S, T, t, rs) /\ UniqueIn(S, t, rs, ApartIn(S, t))
  BY DEF InHand
<1>4. /\ ResolvedIn(S, T, t, qs) /\ UniqueIn(S, t, qs, ApartIn(S, t)) /\ DistinctIn(S, t, qs)
      /\ KeyKept(S, t) => KeysDiffer(S, t, qs, DOMAIN qs)
  BY <1>1, <1>2, <1>3, RewritesKeep
<1>5. qs \in Seq(RowType(S, t)) /\ 1 \in 1 .. Len(qs) + 1
  <2>1. qs \in Seq(RowType(S, t)) /\ Len(qs) \in Nat
    BY DEF Rewrites
  <2> QED BY <2>1
<1> QED BY <1>4, <1>5 DEF InHand

(* The sets of phases. *)
LEMMA PhaseSets ==
  /\ Phases[1] = "draw"
  /\ \A p \in Working : p \notin Early
BY PhasesAre DEF Working, Early

LEMMA InitGen == Init => GenInv
<1> SUFFICES ASSUME Init PROVE GenInv
  OBVIOUS
<1>1. schema \in Schemas /\ DOMAIN tables = {} /\ phase = "validate"
  BY DEF Init
<1>2. TablesOK(schema, tables) /\ \A u \in DOMAIN tables : Finished(schema, tables, u, tables[u])
  BY <1>1 DEF TablesOK
<1>3. phase \in Early /\ phase \notin Working
  BY <1>1 DEF Early, Working
<1> QED BY <1>1, <1>2, <1>3 DEF GenInv, Generating

LEMMA RulesValid == ASSUME schema \in Schemas, ValidRules PROVE ValidIn(schema)
<1> SUFFICES ASSUME NEW t \in DOMAIN schema
             PROVE  /\ Sound(schema, t)
                    /\ Written(schema, t) \cap (ReferencedIn(schema, t) \cup ForeignIn(schema, t)) = {}
                    /\ PinnedIn(schema, t) \cap TargetsIn(schema, t) = {}
                    /\ PinnedIn(schema, t) \cap SetsIn(schema, t) = {}
  BY DEF ValidIn
<1>1. Sound(schema, t)
  BY SynthAssumption
<1>2. PinsValid(t) /\ DerivesValid(t) /\ RepairsValid(t)
  BY Reads DEF ValidRules
<1>3. /\ PinnedIn(schema, t) \cap (ReferencedIn(schema, t) \cup ForeignIn(schema, t)) = {}
      /\ TargetsIn(schema, t) \cap (ReferencedIn(schema, t) \cup ForeignIn(schema, t) \cup PinnedIn(schema, t)) = {}
  BY <1>2, Reads DEF PinsValid, DerivesValid
<1>4. SetsIn(schema, t) \cap (ReferencedIn(schema, t) \cup ForeignIn(schema, t) \cup PinnedIn(schema, t)) = {}
  <2>1. \A b \in DOMAIN schema[t].branches :
          DOMAIN schema[t].branches[b].set
            \cap (ReferencedIn(schema, t) \cup ForeignIn(schema, t) \cup PinnedIn(schema, t)) = {}
    BY <1>2, Reads DEF RepairsValid
  <2> QED BY <2>1 DEF SetsIn
<1> QED BY <1>1, <1>3, <1>4 DEF Written

LEMMA ValidateGen == ASSUME GenInv, Validate PROVE GenInv'
<1>1. /\ schema \in Schemas /\ TablesOK(schema, tables) /\ DOMAIN tables = {}
      /\ \A u \in DOMAIN tables : Finished(schema, tables, u, tables[u])
  BY DEF GenInv, Generating, Validate, Early
<1>2. schema' = schema /\ tables' = tables /\ phase' \in {"invalid", "cycle", "next"}
      /\ (phase' = "next" => ValidRules)
  BY DEF Validate
<1>3. phase' \in Early \/ (phase' \notin Early /\ ValidIn(schema))
  BY <1>1, <1>2, RulesValid DEF Early
<1>4. phase' \notin Working
  BY <1>2 DEF Working
<1> QED BY <1>1, <1>2, <1>3, <1>4 DEF GenInv, Generating

LEMMA FailGen ==
  ASSUME GenInv, phase \notin Early, phase' \in {"refused", "exhausted"}, schema' = schema, tables' = tables
  PROVE  GenInv'
<1>1. phase' \notin Early /\ phase' \notin Working
  BY DEF Early, Working
<1> QED BY <1>1 DEF GenInv, Generating

LEMMA StageNow ==
  ASSUME GenInv, phase \in Working
  PROVE  /\ schema \in Schemas /\ TablesOK(schema, tables) /\ ValidIn(schema)
         /\ \A u \in DOMAIN tables : Finished(schema, tables, u, tables[u])
         /\ Stage(schema, tables, phase, table, pools, assigned, rows, at)
         /\ InHand(schema, tables, table, pools, assigned, rows, at)
         /\ table \in DOMAIN schema /\ table \notin DOMAIN tables /\ Sound(schema, table)
         /\ rows \in Seq(RowType(schema, table)) /\ Len(rows) \in Nat /\ DOMAIN rows = 1 .. Len(rows)
         /\ at \in 1 .. Len(rows) + 1
BY PhaseSets DEF GenInv, Generating, Stage, InHand, ValidIn

LEMMA StageNext ==
  ASSUME GenInv, phase \in Working, schema' = schema, tables' = tables, phase' \in Working,
         Stage(schema, tables, phase', table, pools', assigned', rows', at'), table' = table
  PROVE  GenInv'
BY PhaseSets, StageNow DEF GenInv, Generating

LEMMA PinGen == ASSUME GenInv, Pin PROVE GenInv'
<1> DEFINE S == schema
           t == table
           X == PinnedIn(S, t)
<1>0. phase = "pin" /\ phase \in Working /\ phase \in Spaced /\ phase \in Keyed
  BY DEF Pin, Working, Spaced, Keyed
<1>1. /\ phase' = "derive" /\ at' = 1
      /\ schema' = schema /\ tables' = tables /\ table' = table /\ pools' = pools /\ assigned' = assigned
  BY <1>0, AfterEach DEF Pin, NextPhase
<1>2. /\ ValidIn(S) /\ t \in DOMAIN S /\ InHand(S, tables, t, pools, assigned, rows, at) /\ DistinctIn(S, t, rows)
      /\ KeyKept(S, t) => KeysDiffer(S, t, rows, DOMAIN rows)
      /\ rows \in Seq(RowType(S, t)) /\ Len(rows) \in Nat /\ DOMAIN rows = 1 .. Len(rows) /\ Sound(S, t)
  BY <1>0, StageNow DEF Stage
<1>3. PICK values \in [DOMAIN rows -> [Pinned(table) ->
                    UNION {Rule(table).columns[c].pinned : c \in Pinned(table)}]] :
        /\ \A i \in DOMAIN rows : \A c \in Pinned(table) : values[i][c] \in Rule(table).columns[c].pinned
        /\ rows' = [i \in DOMAIN rows |-> WithKey(rows[i], values[i])]
  BY DEF Pin
<1>4. ASSUME NEW i \in DOMAIN rows
      PROVE  /\ rows'[i] \in RowType(S, t)
             /\ \A c \in ColumnsIn(S, t) \ X : rows'[i][c] = rows[i][c]
  <2>1. rows'[i] = WithKey(rows[i], values[i])
    BY <1>3
  <2>2. DOMAIN values[i] = X /\ \A c \in X : values[i][c] \in S[t].columns[c].pinned
    BY <1>3, Reads
  <2>3. rows[i] \in RowType(S, t) /\ DOMAIN rows[i] = ColumnsIn(S, t)
    BY <1>2 DEF RowType
  <2>4. \A c \in X : values[i][c] \in CellValues
    <3>1. \A c \in ColumnsIn(S, t) : S[t].columns[c].pinned \subseteq Int
      BY <1>2 DEF Sound, ColumnsIn, ColumnType
    <3> QED BY <2>2, <3>1 DEF PinnedIn, CellValues
  <2> HIDE DEF X, S, t
  <2> QED BY <2>1, <2>2, <2>3, <2>4 DEF WithKey, RowType
<1>5. Rewrites(S, t, rows, rows', X)
  <2>1. rows' = [i \in 1 .. Len(rows) |-> rows'[i]]
    BY <1>2, <1>3
  <2> QED BY <1>2, <1>4, <2>1 DEF Rewrites
<1>6. X \in SUBSET Written(S, t)
  BY DEF Written
<1>7. /\ InHand(S, tables, t, pools, assigned, rows', 1) /\ DistinctIn(S, t, rows')
      /\ KeyKept(S, t) => KeysDiffer(S, t, rows', DOMAIN rows')
  BY <1>2, <1>5, <1>6, WrittenKeeps
<1>8. Stage(S, tables, phase', t, pools', assigned', rows', at') /\ phase' \in Working
  BY <1>1, <1>7 DEF Stage, Working
<1> QED BY <1>0, <1>1, <1>8, StageNext

LEMMA DeriveGen == ASSUME GenInv, Derive PROVE GenInv'
<1> DEFINE S == schema
           t == table
           X == TargetsIn(S, t)
<1>0. phase = "derive" /\ phase \in Working /\ phase \in Spaced /\ phase \in Keyed
  BY DEF Derive, Working, Spaced, Keyed
<1>1. /\ phase' = "repair" /\ at' = 1
      /\ schema' = schema /\ tables' = tables /\ table' = table /\ pools' = pools /\ assigned' = assigned
  BY <1>0, AfterEach DEF Derive, NextPhase
<1>2. /\ ValidIn(S) /\ t \in DOMAIN S /\ InHand(S, tables, t, pools, assigned, rows, at) /\ DistinctIn(S, t, rows)
      /\ KeyKept(S, t) => KeysDiffer(S, t, rows, DOMAIN rows)
      /\ rows \in Seq(RowType(S, t)) /\ Len(rows) \in Nat /\ DOMAIN rows = 1 .. Len(rows) /\ Sound(S, t)
      /\ TablesOK(S, tables) /\ ForeignIn(S, t) \cap TargetsIn(S, t) = {}
  BY <1>0, StageNow DEF Stage, ValidIn, Written
<1>3. rows' = [i \in DOMAIN rows |-> DerivedIn(S, tables, t, rows[i])]
  BY ReadsDerived DEF Derive
<1>4. ASSUME NEW i \in DOMAIN rows
      PROVE  /\ rows'[i] \in RowType(S, t)
             /\ \A c \in ColumnsIn(S, t) \ X : rows'[i][c] = rows[i][c]
             /\ DerivedIn(S, tables, t, rows'[i]) = rows'[i]
  <2>1. rows[i] \in RowType(S, t) /\ rows'[i] = DerivedIn(S, tables, t, rows[i])
    BY <1>2, <1>3
  <2> DEFINE row == rows[i]
             new == DerivedIn(S, tables, t, row)
  <2>2. row \in RowType(S, t) /\ rows'[i] = new
    BY <2>1
  <2> HIDE DEF row
  <2>3. new \in RowType(S, t) /\ \A c \in ColumnsIn(S, t) \ X : new[c] = row[c]
    BY <1>2, <2>2, DerivedTyped
  <2>4. DerivedIn(S, tables, t, new) = new
    BY <1>2, <2>2, DerivedSettles
  <2> QED BY <2>2, <2>3, <2>4 DEF row
<1>5. Rewrites(S, t, rows, rows', X)
  <2>1. rows' = [i \in 1 .. Len(rows) |-> rows'[i]]
    BY <1>2, <1>3
  <2> QED BY <1>2, <1>4, <2>1 DEF Rewrites
<1>6. X \in SUBSET Written(S, t)
  BY DEF Written
<1>7. /\ InHand(S, tables, t, pools, assigned, rows', 1) /\ DistinctIn(S, t, rows')
      /\ KeyKept(S, t) => KeysDiffer(S, t, rows', DOMAIN rows')
  BY <1>2, <1>5, <1>6, WrittenKeeps
<1>8. FreshIn(S, tables, t, rows')
  <2>1. DOMAIN rows' = DOMAIN rows
    BY <1>3
  <2> QED BY <1>4, <2>1 DEF FreshIn
<1>9. Stage(S, tables, phase', t, pools', assigned', rows', at') /\ phase' \in Working
  BY <1>1, <1>7, <1>8 DEF Stage, Working
<1> QED BY <1>0, <1>1, <1>9, StageNext

LEMMA RepairGen == ASSUME GenInv, RepairBranches PROVE GenInv'
<1> DEFINE S == schema
           t == table
           X == SetsIn(S, t) \cup TargetsIn(S, t)
<1>0. phase = "repair" /\ phase \in Working /\ phase \in Spaced /\ phase \in Keyed
  BY DEF RepairBranches, Working, Spaced, Keyed
<1>1. /\ phase' = "publish" /\ at' = 1
      /\ schema' = schema /\ tables' = tables /\ table' = table /\ pools' = pools /\ assigned' = assigned
  BY <1>0, AfterEach DEF RepairBranches, NextPhase
<1>2. /\ ValidIn(S) /\ t \in DOMAIN S /\ InHand(S, tables, t, pools, assigned, rows, at) /\ DistinctIn(S, t, rows)
      /\ KeyKept(S, t) => KeysDiffer(S, t, rows, DOMAIN rows)
      /\ rows \in Seq(RowType(S, t)) /\ Len(rows) \in Nat /\ DOMAIN rows = 1 .. Len(rows)
      /\ TablesOK(S, tables) /\ FreshIn(S, tables, t, rows)
  BY <1>0, StageNow DEF Stage
<1>3. rows' = Repair(rows, S[t].branches, DeriveMap(S, tables, t)).rows
  <2>1. [row \in [Columns(table) -> {NULL} \cup Int] |-> Derived(table, row)] = DeriveMap(S, tables, t)
    BY Reads, ReadsDerived DEF DeriveMap, RowType, CellValues
  <2>2. Rule(table).branches = S[t].branches
    BY Reads
  <2> HIDE DEF S, t
  <2> QED BY <2>1, <2>2 DEF RepairBranches
<1>4. /\ rows' \in Seq(RowType(S, t)) /\ Len(rows') = Len(rows)
      /\ \A i \in DOMAIN rows : \A c \in ColumnsIn(S, t) \ X : rows'[i][c] = rows[i][c]
      /\ Unmoved(S, t) => FreshIn(S, tables, t, rows')
  BY <1>2, <1>3, TableRepaired
<1>5. Rewrites(S, t, rows, rows', X) /\ X \in SUBSET Written(S, t)
  BY <1>4 DEF Rewrites, Written
<1>6. /\ InHand(S, tables, t, pools, assigned, rows', 1) /\ DistinctIn(S, t, rows')
      /\ KeyKept(S, t) => KeysDiffer(S, t, rows', DOMAIN rows')
  BY <1>2, <1>5, WrittenKeeps
<1>7. Stage(S, tables, phase', t, pools', assigned', rows', at') /\ phase' \in Working
  BY <1>1, <1>4, <1>6 DEF Stage, Working
<1> QED BY <1>0, <1>1, <1>7, StageNext

(* More finished tables change nothing for those whose parents are there.   *)
LEMMA FinishedStays ==
  ASSUME NEW S, NEW T, NEW T2, DOMAIN T \subseteq DOMAIN T2, DOMAIN T2 \subseteq DOMAIN S,
         \A u \in DOMAIN T : T2[u] = T[u], NEW t, Sound(S, t), Rooted(S, T, t), NEW rs,
         Finished(S, T, t, rs)
  PROVE  Finished(S, T2, t, rs)
<1>1. ASSUME NEW r \in RelsIn(S, t), r.fixed = {} PROVE r.parent \in DOMAIN T
  BY <1>1 DEF Rooted, ParentsIn
<1>2. ASSUME NEW p \in DOMAIN T, NEW k PROVE ValuesIn(T2, p, k) = ValuesIn(T, p, k)
  BY DEF ValuesIn
<1>3. ResolvedIn(S, T2, t, rs)
  <2>1. ASSUME NEW c \in ForeignIn(S, t), GovIn(S, t, c).fixed = {} PROVE GovIn(S, t, c).parent \in DOMAIN T
    <3>1. GovIn(S, t, c) \in RelsIn(S, t)
      BY SoundParts, FirstFound
    <3> QED BY <1>1, <2>1, <3>1
  <2>2. ResolvedIn(S, T, t, rs)
    BY DEF Finished
  <2> QED BY <1>2, <2>1, <2>2 DEF ResolvedIn
<1>4. ASSUME NEW rel \in RelsIn(S, t), NEW value, NEW c
      PROVE  JoinedIn(T2, rel, value, c) = JoinedIn(T, rel, value, c)
  <2>1. CASE rel.parent \in DOMAIN T
    <3>1. T2[rel.parent] = T[rel.parent] /\ rel.parent \in DOMAIN T2
      BY <2>1
    <3> QED BY <2>1, <3>1 DEF JoinedIn
  <2>2. CASE rel.parent \notin DOMAIN T
    <3>1. rel.parent \notin DOMAIN T2
      BY <2>2 DEF Rooted, ParentsIn
    <3> QED BY <2>2, <3>1 DEF JoinedIn
  <2> QED BY <2>1, <2>2
<1>5. ASSUME NEW row PROVE DerivedIn(S, T2, t, row) = DerivedIn(S, T, t, row)
  <2>1. ASSUME NEW c \in TargetsIn(S, t)
        PROVE  DerivedCellIn(S, T2, t, row, c) = DerivedCellIn(S, T, t, row, c)
    <3>1. CASE c \in DOMAIN S[t].derive
      BY <3>1 DEF DerivedCellIn
    <3>2. CASE c \notin DOMAIN S[t].derive
      <4> DEFINE rel == CHOOSE p \in RelsIn(S, t) : c \in DOMAIN p.derive
      <4>1. rel \in RelsIn(S, t)
        BY <3>2 DEF TargetsIn
      <4>2. /\ DerivedCellIn(S, T, t, row, c) = JoinedIn(T, rel, row[rel.fk], rel.derive[c])
            /\ DerivedCellIn(S, T2, t, row, c) = JoinedIn(T2, rel, row[rel.fk], rel.derive[c])
        BY <3>2 DEF DerivedCellIn
      <4> HIDE DEF rel
      <4> QED BY <1>4, <4>1, <4>2
    <3> QED BY <3>1, <3>2
  <2> QED BY <2>1 DEF DerivedIn
<1> QED BY <1>3, <1>5 DEF Finished, FreshIn

LEMMA PublishGen == ASSUME GenInv, Publish PROVE GenInv'
<1> DEFINE S == schema
           T == tables
           t == table
           T2 == tables'
<1>0. phase = "publish" /\ phase \in Working /\ phase \in Spaced /\ phase \in Keyed
  BY DEF Publish, Working, Spaced, Keyed
<1>1. /\ phase' \in {"done", "next"} /\ schema' = schema
      /\ T2 = [u \in DOMAIN T \cup {t} |-> IF u = t THEN rows ELSE T[u]]
  BY DEF Publish
<1>2. /\ S \in Schemas /\ ValidIn(S) /\ t \in DOMAIN S /\ t \notin DOMAIN T /\ TablesOK(S, T) /\ Sound(S, t)
      /\ InHand(S, T, t, pools, assigned, rows, at) /\ DistinctIn(S, t, rows)
      /\ KeyKept(S, t) => KeysDiffer(S, t, rows, DOMAIN rows)
      /\ Unmoved(S, t) => FreshIn(S, T, t, rows)
      /\ rows \in Seq(RowType(S, t))
      /\ \A u \in DOMAIN T : Finished(S, T, u, T[u])
  BY <1>0, StageNow DEF Stage
<1>3. Finished(S, T, t, rows)
  <2>1. ResolvedIn(S, T, t, rows) /\ UniqueIn(S, t, rows, ApartIn(S, t))
    BY <1>2 DEF InHand
  <2>2. UniqueIn(S, t, rows, {})
    BY <1>2, <2>1 DEF UniqueIn, DistinctIn, ApartAt, OnceAt
  <2> QED BY <1>2, <2>1, <2>2 DEF Finished
<1>4. Rooted(S, T, t)
  BY <1>2 DEF InHand
<1>5. /\ DOMAIN T2 = DOMAIN T \cup {t} /\ T2[t] = rows /\ \A u \in DOMAIN T : T2[u] = T[u]
  BY <1>1, <1>2
<1>6. DOMAIN T \subseteq DOMAIN T2 /\ DOMAIN T2 \subseteq DOMAIN S
  BY <1>2, <1>5 DEF TablesOK
<1>7. ASSUME NEW u \in DOMAIN T2
      PROVE  /\ T2[u] \in Seq(RowType(S, u)) /\ Rooted(S, T2, u) /\ Finished(S, T2, u, T2[u])
  <2>1. T2[u] \in Seq(RowType(S, u)) /\ Rooted(S, T, u) /\ Finished(S, T, u, T2[u])
    BY <1>2, <1>3, <1>4, <1>5 DEF TablesOK
  <2>2. Rooted(S, T2, u)
    BY <1>6, <2>1 DEF Rooted
  <2>3. Sound(S, u)
    BY <1>2, <1>6 DEF ValidIn
  <2> HIDE DEF S, T, T2
  <2>4. Finished(S, T2, u, T2[u])
    BY <1>5, <1>6, <2>1, <2>3, FinishedStays
  <2> QED BY <2>1, <2>2, <2>4
<1>8. TablesOK(S, T2)
  BY <1>6, <1>7 DEF TablesOK
<1>9. phase' \notin Early /\ phase' \notin Working
  BY <1>1 DEF Early, Working
<1> QED BY <1>1, <1>2, <1>7, <1>8, <1>9 DEF GenInv, Generating

LEMMA OneAtMost ==
  ASSUME NEW M, IsFiniteSet(M), Cardinality(M) <= 1, NEW i \in M, NEW j \in M
  PROVE  i = j
<1> SUFFICES ASSUME i # j PROVE FALSE
  OBVIOUS
<1>1. IsFiniteSet(M \ {i}) /\ Cardinality(M \ {i}) = Cardinality(M) - 1
  BY FS_RemoveElement
<1>2. Cardinality(M) \in Nat /\ Cardinality(M \ {i}) \in Nat
  BY <1>1, FS_CardinalityType
<1>3. Cardinality(M \ {i}) = 0
  BY <1>1, <1>2
<1>4. M \ {i} = {}
  BY <1>1, <1>3, FS_EmptySet
<1> QED BY <1>4

LEMMA BeginGen == ASSUME GenInv, NEW t \in Names, BeginTable(t) PROVE GenInv'
<1> DEFINE S == schema
           T == tables
           pl == pools'
           learned == assigned'
<1>1. /\ phase = "next" /\ t \notin DOMAIN T /\ ParentsIn(S, t) \subseteq DOMAIN T /\ ~PoolsRefused(t)
      /\ table' = t /\ rows' = <<>> /\ phase' = "draw" /\ at' = 1 /\ schema' = schema /\ tables' = tables
  BY Reads, PhasesAre DEF BeginTable
<1>2. /\ S \in Schemas /\ ValidIn(S) /\ TablesOK(S, T) /\ t \in DOMAIN S /\ Sound(S, t)
      /\ \A u \in DOMAIN T : Finished(S, T, u, T[u])
  BY <1>1 DEF GenInv, Generating, Early, ValidIn, Names
<1>3. /\ \A r \in RelsIn(S, t) : r.fixed = {} => r.parent \in DOMAIN S
      /\ Cardinality(ModeledIn(S, t)) <= 1
  <2>1. /\ \A r \in RelsIn(S, t) : r.fixed = {} => r.parent \in DOMAIN S
        /\ ~(Cardinality(ModeledIn(S, t)) > 1)
    BY <1>1, Reads DEF PoolsRefused
  <2>2. IsFiniteSet(ModeledIn(S, t))
    <3>1. S[t].rels \in Seq(RelsIn(S, t))
      BY <1>2, SoundParts
    <3>2. Len(S[t].rels) \in Nat /\ DOMAIN S[t].rels = 1 .. Len(S[t].rels)
      BY <3>1
    <3>3. IsFiniteSet(1 .. Len(S[t].rels)) /\ ModeledIn(S, t) \in SUBSET (1 .. Len(S[t].rels))
      BY <3>2, FS_Interval DEF ModeledIn
    <3> QED BY <3>3, FS_Subset
  <2>3. Cardinality(ModeledIn(S, t)) \in Nat
    BY <2>2, FS_CardinalityType
  <2> QED BY <2>1, <2>3
<1>4. IsFiniteSet(ModeledIn(S, t)) /\ S[t].rels \in Seq(RelsIn(S, t))
  <2>1. S[t].rels \in Seq(RelsIn(S, t))
    BY <1>2, SoundParts
  <2>2. Len(S[t].rels) \in Nat /\ DOMAIN S[t].rels = 1 .. Len(S[t].rels)
    BY <2>1
  <2>3. IsFiniteSet(1 .. Len(S[t].rels)) /\ ModeledIn(S, t) \in SUBSET (1 .. Len(S[t].rels))
    BY <2>2, FS_Interval DEF ModeledIn
  <2> QED BY <2>1, <2>3, FS_Subset
<1>5. Rooted(S, T, t) /\ \A r \in RelsIn(S, t) : r.fixed = {} => r.parent \in DOMAIN T
  BY <1>1, <1>3 DEF Rooted, ParentsIn
<1>6. pl = [i \in DOMAIN S[t].rels |-> PoolIn(S, T, t, S[t].rels[i])]
  BY Reads, ReadsPools DEF BeginTable
<1>7. \/ ModeledIn(S, t) = {} /\ learned = <<>>
      \/ \E i \in ModeledIn(S, t) : learned \in ExpansionsIn(S, T, t, S[t].rels[i])
  BY Reads, ReadsPools DEF BeginTable
<1> HIDE DEF S, T, pl, learned
<1>8. ASSUME NEW c \in ForeignIn(S, t)
      PROVE  /\ FirstIn(S, t, c) \in DOMAIN S[t].rels /\ GovIn(S, t, c) \in RelsIn(S, t)
             /\ GovIn(S, t, c).fixed = {} => GovIn(S, t, c).parent \in DOMAIN T
             /\ pl[FirstIn(S, t, c)] = PoolIn(S, T, t, GovIn(S, t, c))
  BY <1>4, <1>5, <1>6, FirstFound DEF GovIn
<1>9. ASSUME NEW i \in DOMAIN S[t].rels
      PROVE  /\ pl[i] \in Seq(CellValues)
             /\ S[t].rels[i].fixed = {} =>
                  ToSet(pl[i]) = ValuesIn(T, S[t].rels[i].parent, S[t].rels[i].key)
  <2>1. S[t].rels[i] \in RelsIn(S, t)
    BY DEF RelsIn
  <2> QED BY <1>2, <1>5, <1>6, <2>1, PoolIs
<1>10. /\ learned \in Seq(CellValues)
       /\ \A c \in CountedIn(S, t) :
            /\ GovIn(S, t, c).fixed = {} =>
                 ToSet(learned) \subseteq ValuesIn(T, GovIn(S, t, c).parent, GovIn(S, t, c).key) \cup {NULL}
            /\ IsUnique(GovIn(S, t, c)) => NeverTwice(learned)
  <2>1. CASE ModeledIn(S, t) = {} /\ learned = <<>>
    BY <2>1 DEF CountedIn
  <2>2. CASE \E i \in ModeledIn(S, t) : learned \in ExpansionsIn(S, T, t, S[t].rels[i])
    <3>1. PICK i \in ModeledIn(S, t) : learned \in ExpansionsIn(S, T, t, S[t].rels[i])
      BY <2>2
    <3> DEFINE rel == S[t].rels[i]
    <3>2. rel \in RelsIn(S, t) /\ rel.fk \in ForeignIn(S, t)
      BY DEF ModeledIn, RelsIn, ForeignIn
    <3>3. \A c \in CountedIn(S, t) : c = rel.fk
      <4>1. \A j \in ModeledIn(S, t) : j = i
        BY <1>3, <1>4, OneAtMost
      <4> QED BY <4>1 DEF CountedIn
    <3> HIDE DEF rel
    <3>4. GovIn(S, t, rel.fk).fixed = {} => GovIn(S, t, rel.fk).parent \in DOMAIN T
      BY <1>8, <3>2
    <3>5. LET gov == GovIn(S, t, rel.fk)
          IN  /\ learned \in Seq(CellValues)
              /\ gov.fixed = {} => ToSet(learned) \subseteq ValuesIn(T, gov.parent, gov.key) \cup {NULL}
              /\ IsUnique(gov) => NeverTwice(learned)
      BY <1>2, <3>1, <3>2, <3>4, ExpansionsAre DEF rel
    <3> QED BY <3>3, <3>5
  <2> QED BY <1>7, <2>1, <2>2
<1>11. PoolsOK(S, T, t, pl, learned)
  BY <1>6, <1>9, <1>10 DEF PoolsOK
<1> DEFINE none == <<>>
<1>16. /\ none \in Seq(RowType(S, t)) /\ none = rows' /\ Len(none) = 0 /\ 1 \in 1 .. Len(none) + 1
       /\ \A i : i \notin DOMAIN none
  BY <1>1
<1> HIDE DEF none
<1>12. InHand(S, T, t, pl, learned, none, 1)
  <2>2. ResolvedIn(S, T, t, none) /\ UniqueIn(S, t, none, ApartIn(S, t))
    BY <1>16 DEF ResolvedIn, UniqueIn, OnceAt
  <2> QED BY <1>1, <1>2, <1>5, <1>11, <1>16, <2>2 DEF InHand, T, S
<1>13. Drawn(S, t, pl, learned, none)
  <2> SUFFICES ASSUME NEW c \in ForeignIn(S, t), UniqueKey(S, t, c)
               PROVE  IF c \in CountedIn(S, t) THEN Len(none) <= Len(learned) /\ \A i \in DOMAIN none : none[i][c] = learned[i]
                      ELSE /\ NoTwice(pl[FirstIn(S, t, c)])
                           /\ \A i \in DOMAIN none :
                                none[i][c] = NULL \/ none[i][c] \notin ToSet(pl[FirstIn(S, t, c)])
    BY DEF Drawn
  <2> DEFINE gov == GovIn(S, t, c)
  <2>1. Len(none) <= Len(learned) /\ \A i \in DOMAIN none : none[i][c] = learned[i]
    BY <1>10, <1>16
  <2>2. NoTwice(pl[FirstIn(S, t, c)])
    <3>1. gov \in RelsIn(S, t) /\ gov.fixed = {} /\ gov.parent \in DOMAIN T /\ gov.key \in ApartIn(S, gov.parent)
      BY <1>8 DEF UniqueKey, IsUnique
    <3>2. ApartAt(T[gov.parent], gov.key)
      <4>1. Finished(S, T, gov.parent, T[gov.parent])
        BY <1>2, <3>1 DEF S, T
      <4> QED BY <3>1, <4>1 DEF Finished, DistinctIn
    <3>3. NoTwice(PoolIn(S, T, t, gov))
      <4> HIDE DEF gov
      <4> QED BY <1>2, <3>1, <3>2, PoolIs
    <3> QED BY <1>8, <3>3
  <2>3. \A i \in DOMAIN none : none[i][c] = NULL \/ none[i][c] \notin ToSet(pl[FirstIn(S, t, c)])
    BY <1>16
  <2>4. CASE c \in CountedIn(S, t)
    BY <2>1, <2>4
  <2>5. CASE c \notin CountedIn(S, t)
    BY <2>2, <2>3, <2>5
  <2> QED BY <2>4, <2>5
<1>14. Stage(S, T, "draw", t, pl, learned, none, 1)
  BY <1>12, <1>13 DEF Stage, Spaced, Keyed
<1>15. "draw" \in Working /\ "draw" \notin Early
  BY DEF Working, Early
<1> QED BY <1>1, <1>2, <1>14, <1>15, <1>16 DEF GenInv, Generating, S, T, pl, learned

(* Steps that end the run, and those that end a phase. *)
LEMMA FailsGen ==
  ASSUME GenInv,
         \/ \E t \in Names : RefuseTable(t)
         \/ DrawFails \/ RefuseDistinct \/ DistinguishFails \/ KeyFails
  PROVE  GenInv'
<1>1. phase \in {"next", "draw", "distinct", "keys"} /\ schema' = schema /\ tables' = tables
  BY DEF RefuseTable, DrawFails, RefuseDistinct, DistinguishFails, KeyFails, Fail
<1>2. phase' \in {"refused", "exhausted"}
  BY DEF RefuseTable, DrawFails, RefuseDistinct, DistinguishFails, KeyFails, Fail
<1>3. phase \notin Early
  BY <1>1 DEF Early
<1> QED BY <1>1, <1>2, <1>3, FailGen

LEMMA EndedGen == ASSUME GenInv, UNCHANGED vars PROVE GenInv'
BY DEF vars, GenInv

LEMMA HandMoves ==
  ASSUME NEW S, NEW T, NEW t, NEW pl, NEW learned, NEW rs, NEW k, NEW k2,
         InHand(S, T, t, pl, learned, rs, k), k2 \in 1 .. Len(rs) + 1
  PROVE  InHand(S, T, t, pl, learned, rs, k2)
BY DEF InHand

LEMMA DrawEndsGen == ASSUME GenInv, DrawEnds PROVE GenInv'
<1> DEFINE S == schema
           T == tables
           t == table
<1>1. /\ phase = "draw" /\ phase' = "distinct" /\ at' = 1
      /\ schema' = S /\ tables' = T /\ table' = t /\ pools' = pools /\ assigned' = assigned /\ rows' = rows
  BY AfterEach DEF DrawEnds, NextPhase
<1>2. phase \in Working /\ phase' \in Working /\ phase' \notin Spaced /\ phase' \notin Keyed
  BY <1>1 DEF Working, Spaced, Keyed
<1>3. InHand(S, T, t, pools, assigned, rows, at) /\ Len(rows) \in Nat
  BY <1>2, StageNow
<1>4. 1 \in 1 .. Len(rows) + 1
  BY <1>3
<1>5. InHand(S, T, t, pools, assigned, rows, 1)
  BY <1>3, <1>4, HandMoves
<1>6. ApartBelow(S, t, rows, 1)
  BY DEF ApartBelow
<1>7. Stage(S, T, phase', t, pools', assigned', rows', at')
  BY <1>1, <1>2, <1>5, <1>6 DEF Stage
<1> QED BY <1>1, <1>2, <1>7, StageNext

LEMMA DistinguishEndsGen == ASSUME GenInv, DistinguishEnds PROVE GenInv'
<1> DEFINE S == schema
           T == tables
           t == table
<1>1. /\ phase = "distinct" /\ phase' = "keys" /\ at' = 1 /\ at > Len(rows)
      /\ schema' = S /\ tables' = T /\ table' = t /\ pools' = pools /\ assigned' = assigned /\ rows' = rows
  BY AfterEach DEF DistinguishEnds, NextPhase
<1>2. phase \in Working /\ phase' \in Working /\ phase' \notin Keyed
  BY <1>1 DEF Working, Spaced, Keyed
<1>3. /\ InHand(S, T, t, pools, assigned, rows, at) /\ Len(rows) \in Nat /\ DOMAIN rows = 1 .. Len(rows)
      /\ at \in 1 .. Len(rows) + 1 /\ ApartBelow(S, t, rows, at)
  BY <1>1, <1>2, StageNow DEF Stage
<1>4. 1 \in 1 .. Len(rows) + 1 /\ at = Len(rows) + 1
  BY <1>1, <1>3
<1>5. InHand(S, T, t, pools, assigned, rows, 1)
  BY <1>3, <1>4, HandMoves
<1>6. DistinctIn(S, t, rows)
  <2>1. at - 1 = Len(rows)
    BY <1>3, <1>4
  <2> QED BY <1>3, <2>1 DEF ApartBelow, DistinctIn, ApartAt
<1>7. KeysDiffer(S, t, rows, 1 .. 1 - 1)
  BY DEF KeysDiffer
<1>8. Stage(S, T, phase', t, pools', assigned', rows', at')
  BY <1>1, <1>2, <1>5, <1>6, <1>7 DEF Stage
<1> QED BY <1>1, <1>2, <1>8, StageNext

LEMMA KeysEndGen == ASSUME GenInv, KeysEnd PROVE GenInv'
<1> DEFINE S == schema
           T == tables
           t == table
<1>1. /\ phase = "keys" /\ phase' = "pin" /\ at' = 1 /\ at > Len(rows)
      /\ schema' = S /\ tables' = T /\ table' = t /\ pools' = pools /\ assigned' = assigned /\ rows' = rows
  BY AfterEach DEF KeysEnd, NextPhase
<1>2. phase \in Working /\ phase' \in Working /\ phase \in Spaced
  BY <1>1 DEF Working, Spaced, Keyed
<1>3. /\ InHand(S, T, t, pools, assigned, rows, at) /\ Len(rows) \in Nat /\ DOMAIN rows = 1 .. Len(rows)
      /\ at \in 1 .. Len(rows) + 1 /\ DistinctIn(S, t, rows)
      /\ KeyKept(S, t) => KeysDiffer(S, t, rows, 1 .. at - 1)
  BY <1>1, <1>2, StageNow DEF Stage
<1>4. 1 \in 1 .. Len(rows) + 1 /\ at - 1 = Len(rows)
  BY <1>1, <1>3
<1>5. InHand(S, T, t, pools, assigned, rows, 1)
  BY <1>3, <1>4, HandMoves
<1>6. Stage(S, T, phase', t, pools', assigned', rows', at')
  BY <1>1, <1>3, <1>4, <1>5 DEF Stage
<1> QED BY <1>1, <1>2, <1>6, StageNext

LEMMA Appended ==
  ASSUME NEW A, NEW q \in Seq(A), NEW e \in A
  PROVE  /\ Append(q, e) \in Seq(A) /\ Len(Append(q, e)) = Len(q) + 1 /\ Len(q) \in Nat
         /\ \A i \in DOMAIN q : Append(q, e)[i] = q[i] /\ i \in DOMAIN Append(q, e) /\ i # Len(q) + 1
         /\ Append(q, e)[Len(q) + 1] = e
         /\ \A i \in DOMAIN Append(q, e) : i \in DOMAIN q \/ i = Len(q) + 1
OBVIOUS

(* A drawn row's cells: the learned counts, a foreign key's pool, its space. *)
DrawsIn(S, t, pl, learned, rs, c) ==
  IF c \in CountedIn(S, t) THEN {learned[Len(rs) + 1]}
  ELSE IF c \in ForeignIn(S, t) THEN ToSet(pl[FirstIn(S, t, c)]) \cup {NULL} ELSE Int \cup {NULL}

LEMMA DrawRowTyped ==
  ASSUME NEW c \in ColumnsIn(schema, table), Sound(schema, table), NEW v \in Draws(c)
  PROVE  v \in DrawsIn(schema, table, pools, assigned, rows, c)
<1>1. ModeledColumns(table) = CountedIn(schema, table) /\ ForeignKeys(table) = ForeignIn(schema, table)
      /\ PoolOf(c) = pools[FirstIn(schema, table, c)]
  BY Reads, ReadsPools DEF PoolOf
<1>2. Space(c) \subseteq Int
  BY DEF Space, Rule, Sound, ColumnsIn, ColumnType
<1> QED BY <1>1, <1>2 DEF Draws, DrawsIn

(* The rows so far with one more. *)
LEMMA OneMoreResolved ==
  ASSUME NEW S, NEW T, NEW t, NEW pl, NEW learned, NEW rs, NEW k, InHand(S, T, t, pl, learned, rs, k), Sound(S, t),
         NEW row \in RowType(S, t),
         \A c \in ColumnsIn(S, t) : row[c] \in DrawsIn(S, t, pl, learned, rs, c),
         \A c \in CountedIn(S, t) : Len(rs) + 1 \in 1 .. Len(learned)
  PROVE  ResolvedIn(S, T, t, Append(rs, row))
<1> DEFINE more == Append(rs, row)
<1>1. /\ \A i \in DOMAIN rs : more[i] = rs[i]
      /\ more[Len(rs) + 1] = row
      /\ \A i \in DOMAIN more : i \in DOMAIN rs \/ i = Len(rs) + 1
  BY Appended DEF InHand
<1> HIDE DEF more
<1>2. ASSUME NEW c \in ForeignIn(S, t), GovIn(S, t, c).fixed = {}
      PROVE  row[c] \in ValuesIn(T, GovIn(S, t, c).parent, GovIn(S, t, c).key) \cup {NULL}
  <2>1. /\ c \in ColumnsIn(S, t) /\ FirstIn(S, t, c) \in DOMAIN S[t].rels
        /\ row[c] \in DrawsIn(S, t, pl, learned, rs, c)
    BY SoundParts, FirstFound
  <2>2. CASE c \in CountedIn(S, t)
    <3>1. row[c] = learned[Len(rs) + 1] /\ Len(rs) + 1 \in 1 .. Len(learned) /\ learned \in Seq(CellValues)
      BY <2>1, <2>2 DEF DrawsIn, InHand, PoolsOK
    <3>2. row[c] \in ToSet(learned)
      BY <3>1 DEF ToSet
    <3> QED BY <1>2, <2>2, <3>2 DEF InHand, PoolsOK
  <2>3. CASE c \notin CountedIn(S, t)
    <3>1. row[c] \in ToSet(pl[FirstIn(S, t, c)]) \cup {NULL}
      BY <2>1, <2>3 DEF DrawsIn
    <3>2. ToSet(pl[FirstIn(S, t, c)]) \subseteq ValuesIn(T, GovIn(S, t, c).parent, GovIn(S, t, c).key)
      BY <1>2, <2>1 DEF InHand, PoolsOK, GovIn
    <3> QED BY <3>1, <3>2
  <2> QED BY <2>2, <2>3
<1> QED BY <1>1, <1>2 DEF ResolvedIn, InHand, more

(* A unique foreign key stays so: its value is the next of the learned     *)
(* assignment, or has just left the pool.                                  *)
LEMMA OneMoreUnique ==
  ASSUME NEW S, NEW T, NEW t, NEW pl, NEW learned, NEW rs, NEW k, InHand(S, T, t, pl, learned, rs, k), Sound(S, t),
         Drawn(S, t, pl, learned, rs),
         NEW row \in RowType(S, t),
         \A c \in ColumnsIn(S, t) : row[c] \in DrawsIn(S, t, pl, learned, rs, c),
         \A c \in CountedIn(S, t) : Len(rs) + 1 \in 1 .. Len(learned),
         NEW pl2,
         \A c \in ForeignIn(S, t) : UniqueKey(S, t, c) /\ c \notin CountedIn(S, t) =>
            pl2[FirstIn(S, t, c)] = IF row[c] # NULL THEN RemoveFirst(pl[FirstIn(S, t, c)], row[c])
                                    ELSE pl[FirstIn(S, t, c)]
  PROVE  /\ UniqueIn(S, t, Append(rs, row), ApartIn(S, t))
         /\ Drawn(S, t, pl2, learned, Append(rs, row))
<1> DEFINE more == Append(rs, row)
<1>1. /\ Len(rs) \in Nat /\ Len(more) = Len(rs) + 1
      /\ \A i \in DOMAIN rs : more[i] = rs[i] /\ i # Len(rs) + 1
      /\ more[Len(rs) + 1] = row
      /\ \A i \in DOMAIN more : i \in DOMAIN rs \/ i = Len(rs) + 1
      /\ DOMAIN rs = 1 .. Len(rs)
  BY Appended DEF InHand
<1> HIDE DEF more
<1>2. ASSUME NEW c \in ForeignIn(S, t), UniqueKey(S, t, c), c \in CountedIn(S, t)
      PROVE  Len(more) <= Len(learned) /\ (\A i \in DOMAIN more : more[i][c] = learned[i]) /\ OnceAt(more, c)
  <2>1. /\ Len(rs) + 1 \in 1 .. Len(learned) /\ learned \in Seq(CellValues) /\ Len(learned) \in Nat
        /\ IsUnique(GovIn(S, t, c)) /\ NeverTwice(learned)
    BY <1>2 DEF UniqueKey, InHand, PoolsOK
  <2>2. \A i \in DOMAIN rs : rs[i][c] = learned[i]
    BY <1>2 DEF Drawn
  <2>3. row[c] = learned[Len(rs) + 1]
    BY <1>2, SoundParts DEF DrawsIn
  <2>4. \A i \in DOMAIN more : more[i][c] = learned[i] /\ i \in DOMAIN learned
    BY <1>1, <2>1, <2>2, <2>3
  <2>5. OnceAt(more, c)
    BY <2>1, <2>4 DEF OnceAt, NeverTwice
  <2> QED BY <1>1, <2>1, <2>4, <2>5
<1>3. ASSUME NEW c \in ForeignIn(S, t), UniqueKey(S, t, c), c \notin CountedIn(S, t)
      PROVE  /\ NoTwice(pl2[FirstIn(S, t, c)])
             /\ \A i \in DOMAIN more : more[i][c] = NULL \/ more[i][c] \notin ToSet(pl2[FirstIn(S, t, c)])
             /\ ~(\A i, j \in DOMAIN rs : i # j => rs[i][c] # rs[j][c] \/ rs[i][c] = NULL) \/ OnceAt(more, c)
  <2> DEFINE p == pl[FirstIn(S, t, c)]
             p2 == pl2[FirstIn(S, t, c)]
  <2>1. /\ NoTwice(p) /\ \A i \in DOMAIN rs : rs[i][c] = NULL \/ rs[i][c] \notin ToSet(p)
    BY <1>3 DEF Drawn
  <2>2. p2 = IF row[c] # NULL THEN RemoveFirst(p, row[c]) ELSE p
    BY <1>3
  <2>3. p \in Seq(CellValues)
    BY SoundParts, FirstFound DEF InHand, PoolsOK
  <2>4. row[c] \in ToSet(p) \cup {NULL}
    BY <1>3, SoundParts DEF DrawsIn
  <2> HIDE DEF p, p2
  <2>5. NoTwice(p2) /\ ToSet(p2) \subseteq ToSet(p) /\ (row[c] = NULL \/ row[c] \notin ToSet(p2))
    BY <2>1, <2>2, <2>3, RemovedFirst
  <2>6. \A i \in DOMAIN more : more[i][c] = NULL \/ more[i][c] \notin ToSet(p2)
    BY <1>1, <2>1, <2>5
  <2>7. ASSUME \A i, j \in DOMAIN rs : i # j => rs[i][c] # rs[j][c] \/ rs[i][c] = NULL
        PROVE  OnceAt(more, c)
    <3> SUFFICES ASSUME NEW i \in DOMAIN more, NEW j \in DOMAIN more, i # j
                 PROVE  more[i][c] # more[j][c] \/ more[i][c] = NULL
      BY DEF OnceAt
    <3>1. CASE i \in DOMAIN rs /\ j \in DOMAIN rs
      BY <1>1, <2>7, <3>1
    <3>2. CASE i \in DOMAIN rs /\ j = Len(rs) + 1
      BY <1>1, <2>1, <2>4, <3>2
    <3>3. CASE i = Len(rs) + 1 /\ j \in DOMAIN rs
      BY <1>1, <2>1, <2>4, <3>3
    <3> QED BY <1>1, <3>1, <3>2, <3>3
  <2> QED BY <2>5, <2>6, <2>7 DEF p, p2
<1>4. UniqueIn(S, t, more, ApartIn(S, t))
  <2> SUFFICES ASSUME NEW c \in ForeignIn(S, t) \ ApartIn(S, t), UniqueKey(S, t, c)
               PROVE  OnceAt(more, c)
    BY DEF UniqueIn
  <2>1. OnceAt(rs, c)
    BY DEF InHand, UniqueIn
  <2> QED BY <1>2, <1>3, <2>1 DEF OnceAt
<1>5. Drawn(S, t, pl2, learned, more)
  BY <1>2, <1>3 DEF Drawn
<1> QED BY <1>4, <1>5 DEF more

LEMMA PoolsTaken ==
  ASSUME NEW S, NEW T, NEW t, NEW pl, NEW learned, PoolsOK(S, T, t, pl, learned), NEW pl2, DOMAIN pl2 = DOMAIN pl,
         \A i \in DOMAIN pl : pl2[i] = pl[i] \/ \E e : pl2[i] = RemoveFirst(pl[i], e)
  PROVE  PoolsOK(S, T, t, pl2, learned)
<1>1. ASSUME NEW i \in DOMAIN pl
      PROVE  pl2[i] \in Seq(CellValues) /\ ToSet(pl2[i]) \subseteq ToSet(pl[i])
  <2> DEFINE p == pl[i]
  <2>1. p \in Seq(CellValues)
    BY DEF PoolsOK
  <2>2. CASE pl2[i] = p
    BY <2>1, <2>2
  <2>3. CASE \E e : pl2[i] = RemoveFirst(p, e)
    <3>1. PICK e : pl2[i] = RemoveFirst(p, e)
      BY <2>3
    <3> HIDE DEF p
    <3>2. RemoveFirst(p, e) \in Seq(CellValues) /\ ToSet(RemoveFirst(p, e)) \subseteq ToSet(p)
      BY <2>1, RemovedFirst
    <3> QED BY <3>1, <3>2 DEF p
  <2> QED BY <2>2, <2>3
<1>2. \A i \in DOMAIN pl2 : S[t].rels[i].fixed = {} =>
        ToSet(pl2[i]) \subseteq ValuesIn(T, S[t].rels[i].parent, S[t].rels[i].key)
  BY <1>1 DEF PoolsOK
<1> QED BY <1>1, <1>2 DEF PoolsOK

LEMMA DrawRowGen == ASSUME GenInv, DrawRow PROVE GenInv'
<1> DEFINE S == schema
           T == tables
           t == table
           pl == pools
           learned == assigned
           pl2 == pools'
<1>1. /\ phase = "draw" /\ phase' = phase /\ Len(rows) < RowCount /\ at' = at
      /\ schema' = S /\ tables' = T /\ table' = t /\ assigned' = assigned
  BY DEF DrawRow
<1>2. phase \in Working /\ phase \notin Spaced /\ phase \notin Keyed
  BY <1>1 DEF Working, Spaced, Keyed
<1>3. /\ InHand(S, T, t, pl, learned, rows, at) /\ Drawn(S, t, pl, learned, rows) /\ Sound(S, t)
      /\ rows \in Seq(RowType(S, t)) /\ Len(rows) \in Nat /\ at \in 1 .. Len(rows) + 1
      /\ learned \in Seq(CellValues) /\ PoolsOK(S, T, t, pl, learned)
  BY <1>1, <1>2, StageNow DEF Stage, InHand, PoolsOK
<1>4. PICK row \in [Columns(t) -> UNION {Draws(c) : c \in Columns(t)}] :
       /\ \A c \in Columns(t) : row[c] \in Draws(c)
       /\ rows' = Append(rows, row)
       /\ pools' = [i \in DOMAIN pools |->
                      IF TakesFrom(i, row)
                      THEN RemoveFirst(pools[i], row[Rule(t).rels[i].fk]) ELSE pools[i]]
  BY DEF DrawRow
<1>5. Columns(t) = ColumnsIn(S, t) /\ ModeledColumns(t) = CountedIn(S, t) /\ Rule(t) = S[t]
  BY Reads
<1>6. \A c \in CountedIn(S, t) : Len(rows) + 1 \in 1 .. Len(learned)
  <2> SUFFICES ASSUME NEW c \in CountedIn(S, t) PROVE Len(rows) + 1 \in 1 .. Len(learned)
    OBVIOUS
  <2>1. RowCount = Len(learned)
    BY <1>5 DEF RowCount
  <2>2. Len(learned) \in Nat
    BY <1>3
  <2> QED BY <1>1, <1>3, <2>1, <2>2
<1>7. \A c \in ColumnsIn(S, t) : row[c] \in DrawsIn(S, t, pl, learned, rows, c)
  BY <1>3, <1>4, <1>5, DrawRowTyped
<1>8. row \in RowType(S, t)
  <2> SUFFICES ASSUME NEW c \in ColumnsIn(S, t) PROVE row[c] \in CellValues
    BY <1>4, <1>5 DEF RowType
  <2>1. row[c] \in DrawsIn(S, t, pl, learned, rows, c)
    BY <1>7
  <2>2. CASE c \in CountedIn(S, t)
    <3>1. row[c] = learned[Len(rows) + 1]
      BY <2>1, <2>2 DEF DrawsIn
    <3> QED BY <1>3, <1>6, <2>2, <3>1
  <2>3. CASE c \notin CountedIn(S, t) /\ c \in ForeignIn(S, t)
    <3> DEFINE p == pl[FirstIn(S, t, c)]
    <3>1. p \in Seq(CellValues)
      BY <1>3, <2>3, SoundParts, FirstFound DEF PoolsOK
    <3>2. row[c] \in ToSet(p) \cup {NULL}
      BY <2>1, <2>3 DEF DrawsIn
    <3> HIDE DEF p
    <3> QED BY <3>1, <3>2 DEF ToSet, CellValues
  <2>4. CASE c \notin CountedIn(S, t) /\ c \notin ForeignIn(S, t)
    BY <2>1, <2>4 DEF DrawsIn, CellValues
  <2> QED BY <2>2, <2>3, <2>4
<1>9. ASSUME NEW c \in ForeignIn(S, t), UniqueKey(S, t, c), c \notin CountedIn(S, t)
      PROVE  pl2[FirstIn(S, t, c)] = IF row[c] # NULL THEN RemoveFirst(pl[FirstIn(S, t, c)], row[c])
                                     ELSE pl[FirstIn(S, t, c)]
  <2> DEFINE i == FirstIn(S, t, c)
  <2>1. i \in DOMAIN S[t].rels /\ S[t].rels[i].fk = c /\ S[t].rels[i] = GovIn(S, t, c) /\ i \in DOMAIN pl
    BY <1>3, SoundParts, FirstFound DEF PoolsOK, GovIn
  <2>2. RelOf(t, c) = i
    BY ReadsPools
  <2>3. TakesFrom(i, row) <=> row[c] # NULL
    <3> HIDE DEF i
    <3> QED BY <1>5, <1>9, <2>1, <2>2 DEF TakesFrom, UniqueKey
  <2> HIDE DEF i
  <2>4. pl2[i] = IF row[c] # NULL THEN RemoveFirst(pl[i], row[c]) ELSE pl[i]
    BY <1>4, <1>5, <2>1, <2>3
  <2> QED BY <2>4 DEF i
<1>10. DOMAIN pl2 = DOMAIN pl /\ \A i \in DOMAIN pl : pl2[i] = pl[i] \/ \E e : pl2[i] = RemoveFirst(pl[i], e)
  BY <1>4
<1> DEFINE more == rows'
<1>11. more = Append(rows, row)
  BY <1>4
<1> HIDE DEF S, T, t, pl, learned, pl2, more
<1>12. PoolsOK(S, T, t, pl2, learned)
  BY <1>3, <1>10, PoolsTaken
<1>13. ResolvedIn(S, T, t, more)
  BY <1>3, <1>6, <1>7, <1>8, <1>11, OneMoreResolved
<1>14. UniqueIn(S, t, more, ApartIn(S, t)) /\ Drawn(S, t, pl2, learned, more)
  BY <1>3, <1>6, <1>7, <1>8, <1>9, <1>11, OneMoreUnique
<1>15. more \in Seq(RowType(S, t)) /\ at \in 1 .. Len(more) + 1
  BY <1>3, <1>8, <1>11
<1>16. InHand(S, T, t, pl2, learned, more, at)
  BY <1>3, <1>12, <1>13, <1>14, <1>15 DEF InHand
<1>17. Stage(S, T, phase, t, pl2, learned, more, at)
  BY <1>1, <1>2, <1>14, <1>16 DEF Stage
<1> QED BY <1>1, <1>2, <1>17, StageNext DEF S, T, t, pl, learned, pl2, more

(* A cell of a referenced column after its redraw: none of the values above *)
(* it, and its own, one of its pool or one of its space.                    *)
RedrawnIn(S, t, pl, rs, k, c, v) ==
  /\ \A j \in 1 .. k - 1 : v # rs[j][c]
  /\ v = rs[k][c] \/ IF c \in ForeignIn(S, t) THEN v \in ToSet(pl[FirstIn(S, t, c)]) ELSE v \in Int

LEMMA RedrawsRead ==
  ASSUME NEW c \in ColumnsIn(schema, table), Sound(schema, table), NEW v \in Redraws(c)
  PROVE  RedrawnIn(schema, table, pools, rows, at, c, v)
<1>1. ForeignKeys(table) = ForeignIn(schema, table) /\ PoolOf(c) = pools[FirstIn(schema, table, c)]
  BY Reads, ReadsPools DEF PoolOf
<1>2. Space(c) \subseteq Int
  BY DEF Space, Rule, Sound, ColumnsIn, ColumnType
<1>3. \A j \in 1 .. at - 1 : v # rows[j][c]
  BY DEF Redraws, Seen
<1>4. v = rows[at][c] \/ v \in Source(c)
  BY DEF Redraws
<1> QED BY <1>1, <1>2, <1>3, <1>4 DEF Source, RedrawnIn

(* One row of a table replaced, in the columns of X. *)
LEMMA OneRewritten ==
  ASSUME NEW S, NEW t, NEW rs \in Seq(RowType(S, t)), NEW k \in 1 .. Len(rs), NEW row \in RowType(S, t), NEW X,
         \A c \in ColumnsIn(S, t) \ X : row[c] = rs[k][c]
  PROVE  /\ Rewrites(S, t, rs, [rs EXCEPT ![k] = row], X)
         /\ [rs EXCEPT ![k] = row][k] = row
         /\ \A i \in DOMAIN rs : i # k => [rs EXCEPT ![k] = row][i] = rs[i]
<1> DEFINE qs == [rs EXCEPT ![k] = row]
<1>1. qs \in Seq(RowType(S, t)) /\ Len(qs) = Len(rs) /\ qs[k] = row /\ \A i \in DOMAIN rs : i # k => qs[i] = rs[i]
  OBVIOUS
<1> HIDE DEF qs
<1>2. \A i \in DOMAIN rs : \A c \in ColumnsIn(S, t) \ X : qs[i][c] = rs[i][c]
  BY <1>1
<1> QED BY <1>1, <1>2 DEF Rewrites, qs

LEMMA DistinguishGen == ASSUME GenInv, Distinguish PROVE GenInv'
<1> DEFINE S == schema
           T == tables
           t == table
           pl == pools
           learned == assigned
           X == ApartIn(S, t)
<1>1. /\ phase = "distinct" /\ phase' = phase /\ at <= Len(rows) /\ at' = at + 1
      /\ schema' = S /\ tables' = T /\ table' = t /\ assigned' = assigned /\ pools' = pools
  BY DEF Distinguish
<1>2. phase \in Working /\ phase \notin Spaced /\ phase \notin Keyed
  BY <1>1 DEF Working, Spaced, Keyed
<1>3. /\ InHand(S, T, t, pl, learned, rows, at) /\ Sound(S, t) /\ ApartBelow(S, t, rows, at)
      /\ rows \in Seq(RowType(S, t)) /\ Len(rows) \in Nat /\ at \in 1 .. Len(rows) + 1
      /\ PoolsOK(S, T, t, pl, learned) /\ DOMAIN rows = 1 .. Len(rows)
  BY <1>1, <1>2, StageNow DEF Stage, InHand
<1>4. at \in 1 .. Len(rows)
  BY <1>1, <1>3
<1>5. Columns(t) = ColumnsIn(S, t) /\ DistinctColumns(t) = X /\ X \subseteq ColumnsIn(S, t)
  BY Reads DEF ApartIn, ReferencedIn
<1>6. PICK new \in [DistinctColumns(t) -> UNION {Redraws(c) : c \in DistinctColumns(t)}] :
       /\ \A c \in DistinctColumns(t) : new[c] \in Redraws(c)
       /\ rows' = [rows EXCEPT ![at] =
                    [c \in Columns(t) |-> IF c \in DOMAIN new THEN new[c] ELSE @[c]]]
  BY DEF Distinguish
<1> DEFINE row == [c \in ColumnsIn(S, t) |-> IF c \in X THEN new[c] ELSE rows[at][c]]
<1>7. DOMAIN new = X /\ rows' = [rows EXCEPT ![at] = row]
  BY <1>5, <1>6
<1>8. \A c \in X : RedrawnIn(S, t, pl, rows, at, c, new[c])
  BY <1>3, <1>5, <1>6, RedrawsRead
<1>9. rows[at] \in RowType(S, t)
  BY <1>3, <1>4
<1>10. ASSUME NEW c \in X PROVE new[c] \in CellValues
  <2>1. new[c] = rows[at][c] \/ IF c \in ForeignIn(S, t) THEN new[c] \in ToSet(pl[FirstIn(S, t, c)]) ELSE new[c] \in Int
    BY <1>8 DEF RedrawnIn
  <2>2. CASE new[c] = rows[at][c]
    BY <1>5, <1>9, <2>2 DEF RowType
  <2>3. CASE c \in ForeignIn(S, t) /\ new[c] \in ToSet(pl[FirstIn(S, t, c)])
    <3> DEFINE p == pl[FirstIn(S, t, c)]
    <3>1. p \in Seq(CellValues)
      BY <1>3, <2>3, SoundParts, FirstFound DEF PoolsOK
    <3>2. new[c] \in ToSet(p)
      BY <2>3
    <3> HIDE DEF p
    <3> QED BY <3>1, <3>2 DEF ToSet
  <2>4. CASE c \notin ForeignIn(S, t) /\ new[c] \in Int
    BY <2>4 DEF CellValues
  <2> QED BY <2>1, <2>2, <2>3, <2>4
<1>11. row \in RowType(S, t)
  BY <1>9, <1>10 DEF RowType
<1>12. /\ \A c \in ColumnsIn(S, t) \ X : row[c] = rows[at][c]
       /\ \A c \in X : row[c] = new[c]
  BY <1>5
<1> DEFINE more == rows'
<1> HIDE DEF S, T, t, pl, learned, X, more, row
<1>13. more = [rows EXCEPT ![at] = row]
  BY <1>7 DEF more
<1>14. /\ Rewrites(S, t, rows, more, X) /\ more[at] = row
       /\ \A i \in DOMAIN rows : i # at => more[i] = rows[i]
  BY <1>3, <1>4, <1>11, <1>12, <1>13, OneRewritten
<1>15. more \in Seq(RowType(S, t)) /\ Len(more) = Len(rows) /\ DOMAIN more = DOMAIN rows
  BY <1>3, <1>14, RewritesKeep DEF Rewrites
<1>16. UniqueIn(S, t, more, X)
  <2>1. UniqueIn(S, t, rows, X)
    BY <1>3 DEF InHand, X
  <2>2. Sound(S, t) /\ rows \in Seq(RowType(S, t)) /\ Rewrites(S, t, rows, more, X)
    BY <1>3, <1>14
  <2>3. \A Y : (ForeignIn(S, t) \ Y) \cap X = {} /\ UniqueIn(S, t, rows, Y) => UniqueIn(S, t, more, Y)
    BY <2>2, RewritesKeep
  <2>4. (ForeignIn(S, t) \ X) \cap X = {}
    OBVIOUS
  <2> QED BY <2>1, <2>3, <2>4
<1>17. ResolvedIn(S, T, t, more)
  <2> SUFFICES ASSUME NEW c \in ForeignIn(S, t), GovIn(S, t, c).fixed = {}, NEW i \in DOMAIN more
               PROVE  more[i][c] \in ValuesIn(T, GovIn(S, t, c).parent, GovIn(S, t, c).key) \cup {NULL}
    BY DEF ResolvedIn
  <2>1. rows[i][c] \in ValuesIn(T, GovIn(S, t, c).parent, GovIn(S, t, c).key) \cup {NULL}
    BY <1>3, <1>15 DEF InHand, ResolvedIn
  <2>2. CASE i # at \/ c \notin X
    <3>1. c \in ColumnsIn(S, t)
      BY <1>3, SoundParts
    <3> QED BY <1>12, <1>14, <1>15, <2>1, <2>2, <3>1
  <2>3. CASE i = at /\ c \in X
    <3>1. more[i][c] = new[c]
      BY <1>12, <1>14, <2>3
    <3>2. ToSet(pl[FirstIn(S, t, c)]) \subseteq ValuesIn(T, GovIn(S, t, c).parent, GovIn(S, t, c).key)
      BY <1>3, SoundParts, FirstFound DEF PoolsOK, GovIn
    <3>3. new[c] = rows[at][c] \/ new[c] \in ToSet(pl[FirstIn(S, t, c)])
      BY <1>8, <2>3 DEF RedrawnIn
    <3> QED BY <2>1, <2>3, <3>1, <3>2, <3>3
  <2> QED BY <2>2, <2>3
<1>18. ApartBelow(S, t, more, at + 1)
  <2>0. (at + 1) - 1 = at
    BY <1>4
  <2> SUFFICES ASSUME NEW c \in ApartIn(S, t), NEW i \in 1 .. at, NEW j \in 1 .. at, i # j
               PROVE  more[i][c] # more[j][c]
    BY <2>0 DEF ApartBelow
  <2>1. i \in 1 .. at - 1 \/ i = at
    BY <1>4
  <2>2. j \in 1 .. at - 1 \/ j = at
    BY <1>4
  <2>3. \A l \in 1 .. at - 1 : more[l] = rows[l] /\ more[at][c] # rows[l][c]
    <3> SUFFICES ASSUME NEW l \in 1 .. at - 1 PROVE more[l] = rows[l] /\ more[at][c] # rows[l][c]
      OBVIOUS
    <3>1. l \in DOMAIN rows /\ l # at
      BY <1>3, <1>4
    <3>2. new[c] # rows[l][c]
      BY <1>8 DEF RedrawnIn, X
    <3> QED BY <1>12, <1>14, <3>1, <3>2 DEF X
  <2>4. CASE i \in 1 .. at - 1 /\ j \in 1 .. at - 1
    BY <1>3, <2>3, <2>4 DEF ApartBelow
  <2> QED BY <2>1, <2>2, <2>3, <2>4
<1>19. InHand(S, T, t, pl, learned, more, at + 1)
  <2>1. at + 1 \in 1 .. Len(more) + 1
    BY <1>3, <1>4, <1>15
  <2> QED BY <1>3, <1>15, <1>16, <1>17, <2>1 DEF InHand, X
<1>20. Stage(S, T, phase, t, pl, learned, more, at + 1)
  BY <1>1, <1>2, <1>18, <1>19 DEF Stage
<1> QED BY <1>1, <1>2, <1>20, StageNext DEF S, T, t, pl, learned, more

LEMMA KeysOneMore ==
  ASSUME NEW S, NEW t, NEW rs, NEW k \in Nat \ {0}, KeysDiffer(S, t, rs, 1 .. k - 1),
         \/ \E c \in S[t].pk : rs[k][c] = NULL
         \/ \A j \in 1 .. k - 1 : (\A c \in S[t].pk : rs[j][c] # NULL) => \E c \in S[t].pk : rs[k][c] # rs[j][c]
  PROVE  KeysDiffer(S, t, rs, 1 .. k)
<1> DEFINE Full(i) == \A c \in S[t].pk : rs[i][c] # NULL
           Differ(i, j) == \E c \in S[t].pk : rs[i][c] # rs[j][c]
<1>1. \A i, j \in 1 .. k - 1 : i # j /\ Full(i) => Differ(i, j)
  BY DEF KeysDiffer
<1>2. ASSUME NEW j \in 1 .. k - 1 PROVE (Full(k) => Differ(k, j)) /\ (Full(j) => Differ(j, k))
  <2>1. CASE \E c \in S[t].pk : rs[k][c] = NULL
    BY <2>1
  <2>2. CASE \A l \in 1 .. k - 1 : Full(l) => Differ(k, l)
    <3>1. Full(j) => Differ(k, j) /\ Differ(j, k)
      BY <2>2
    <3>2. ~Full(j) /\ Full(k) => Differ(k, j)
      OBVIOUS
    <3> QED BY <3>1, <3>2
  <2> QED BY <2>1, <2>2
<1>3. \A i \in 1 .. k : i \in 1 .. k - 1 \/ i = k
  OBVIOUS
<1> HIDE DEF Full, Apart
<1>4. \A i, j \in 1 .. k : i # j /\ Full(i) => Differ(i, j)
  BY <1>1, <1>2, <1>3
<1> QED BY <1>4 DEF KeysDiffer, Full, Apart

(* What NeedsKey compares: the complete keys of the rows above. *)
LEMMA KeysRead ==
  ASSUME schema \in Schemas, Sound(schema, table), rows \in Seq(RowType(schema, table)),
         at \in 1 .. Len(rows), NEW row
  PROVE  /\ KeyMissing(row) <=> \E c \in schema[table].pk : row[c] = NULL
         /\ KeyOf(row) \in KeysSeen <=>
              \E j \in 1 .. at - 1 : /\ \A c \in schema[table].pk : rows[j][c] # NULL
                                     /\ \A c \in schema[table].pk : row[c] = rows[j][c]
<1>1. Key = schema[table].pk
  BY Reads DEF Key
<1>2. \A r : KeyMissing(r) <=> \E c \in schema[table].pk : r[c] = NULL
  BY <1>1 DEF KeyMissing
<1>3. ASSUME NEW r PROVE KeyOf(row) = KeyOf(r) <=> \A c \in schema[table].pk : row[c] = r[c]
  <2>1. KeyOf(row) = [c \in schema[table].pk |-> row[c]] /\ KeyOf(r) = [c \in schema[table].pk |-> r[c]]
    BY <1>1 DEF KeyOf
  <2> QED BY <2>1
<1>4. KeyOf(row) \in KeysSeen <=> \E j \in 1 .. at - 1 : ~KeyMissing(rows[j]) /\ KeyOf(row) = KeyOf(rows[j])
  BY DEF KeysSeen
<1> QED BY <1>2, <1>3, <1>4

LEMMA KeepKeyGen == ASSUME GenInv, KeepKey PROVE GenInv'
<1> DEFINE S == schema
           T == tables
           t == table
<1>1. /\ phase = "keys" /\ phase' = phase /\ at <= Len(rows) /\ at' = at + 1 /\ ~NeedsKey
      /\ schema' = S /\ tables' = T /\ table' = t /\ assigned' = assigned /\ pools' = pools /\ rows' = rows
  BY DEF KeepKey
<1>2. phase \in Working /\ phase \in Spaced /\ phase \notin Keyed
  BY <1>1 DEF Working, Spaced, Keyed
<1>3. /\ InHand(S, T, t, pools, assigned, rows, at) /\ Sound(S, t) /\ DistinctIn(S, t, rows) /\ S \in Schemas
      /\ rows \in Seq(RowType(S, t)) /\ Len(rows) \in Nat /\ at \in 1 .. Len(rows) + 1
      /\ KeyKept(S, t) => KeysDiffer(S, t, rows, 1 .. at - 1)
  BY <1>1, <1>2, StageNow DEF Stage
<1>4. at \in 1 .. Len(rows) /\ at \in Nat \ {0} /\ (at + 1) - 1 = at
  BY <1>1, <1>3
<1>5. ASSUME KeyKept(S, t) PROVE KeysDiffer(S, t, rows, 1 .. at)
  <2>1. Redrawable # {}
    <3>1. PICK c \in SuppliedIn(S, t) : TRUE
      BY <1>5 DEF KeyKept
    <3>2. /\ c \in S[t].pk /\ c \notin ForeignIn(S, t) /\ c \notin PinnedIn(S, t)
          /\ S[t].columns[c].number => Cardinality(S[t].columns[c].space) > 1
      BY <1>5, <3>1 DEF SuppliedIn, KeyKept, Written
    <3>3. S[t].columns[c].number => Cardinality(S[t].columns[c].space) # 1
      <4>1. IsFiniteSet(S[t].columns[c].space)
        BY <1>3, <3>2 DEF Sound
      <4>2. Cardinality(S[t].columns[c].space) \in Nat
        BY <4>1, FS_CardinalityType
      <4> QED BY <3>2, <4>2
    <3>4. ~Frozen(c) /\ c \in Key
      BY <3>2, <3>3, Reads DEF Frozen, Key, Space
    <3> QED BY <3>4 DEF Redrawable
  <2>2. CASE Len(rows) > 1
    <3>1. KeyMissing(rows[at]) \/ KeyOf(rows[at]) \notin KeysSeen
      BY <1>1, <2>1, <2>2 DEF NeedsKey
    <3>2. \/ \E c \in S[t].pk : rows[at][c] = NULL
          \/ \A j \in 1 .. at - 1 : (\A c \in S[t].pk : rows[j][c] # NULL) => \E c \in S[t].pk : rows[at][c] # rows[j][c]
      BY <1>3, <1>4, <3>1, KeysRead
    <3> QED BY <1>3, <1>4, <1>5, <3>2, KeysOneMore
  <2>3. CASE ~(Len(rows) > 1)
    <3>1. at = 1
      BY <1>3, <1>4, <2>3
    <3>2. \A i, j \in 1 .. at : i = j
      BY <3>1
    <3> QED BY <3>2 DEF KeysDiffer
  <2> QED BY <2>2, <2>3
<1>6. InHand(S, T, t, pools, assigned, rows, at + 1)
  <2>1. at + 1 \in 1 .. Len(rows) + 1
    BY <1>3, <1>4
  <2> QED BY <1>3, <2>1, HandMoves
<1>7. Stage(S, T, phase, t, pools, assigned, rows, at + 1)
  <2>1. KeyKept(S, t) => KeysDiffer(S, t, rows, 1 .. (at + 1) - 1)
    BY <1>4, <1>5
  <2> QED BY <1>1, <1>2, <1>3, <1>6, <2>1 DEF Stage
<1> QED BY <1>1, <1>2, <1>7, StageNext

LEMMA ColumnFinite ==
  ASSUME NEW n \in Nat, NEW f, NEW V \in SUBSET {f[i] : i \in 1 .. n}
  PROVE  IsFiniteSet(V)
<1> DEFINE A == {f[i] : i \in 1 .. n}
           g == [i \in 1 .. n |-> f[i]]
<1>1. g \in Surjection(1 .. n, A)
  BY DEF Surjection
<1>2. IsFiniteSet(1 .. n)
  BY FS_Interval
<1> HIDE DEF g, A
<1>3. IsFiniteSet(A)
  BY <1>1, <1>2, FS_Surjection
<1> QED BY <1>3, FS_Subset DEF A

(* A fresh key sets free members of the key only, to integers.              *)
LEMMA FreshTyped ==
  ASSUME Sound(schema, table), rows \in Seq(RowType(schema, table)), at \in 1 .. Len(rows), NeedsKey,
         NEW f \in FreshKeys
  PROVE  DOMAIN f = Redrawable /\ \A c \in Redrawable : f[c] \in Int
<1> DEFINE S == schema
           t == table
<1>1. Key = S[t].pk /\ Redrawable \subseteq Key /\ Redrawable # {}
  BY Reads DEF Key, NeedsKey, Redrawable
<1>2. /\ S[t].pk \subseteq ColumnsIn(S, t) /\ IsFiniteSet(S[t].pk)
      /\ \A c \in ColumnsIn(S, t) : Space(c) \in SUBSET Int /\ IsFiniteSet(Space(c)) /\ Space(c) # {}
  <2>1. /\ S[t].pk \in SUBSET ColumnsIn(S, t) /\ IsFiniteSet(ColumnsIn(S, t))
    BY DEF Sound, ColumnsIn
  <2>2. \A c \in ColumnsIn(S, t) : Space(c) \in SUBSET Int /\ IsFiniteSet(Space(c)) /\ Space(c) # {}
    BY DEF Space, Rule, Sound, ColumnsIn, ColumnType
  <2> QED BY <2>1, <2>2, FS_Subset
<1>3. CASE Cardinality(Key) = 1
  <2>1. PICK c : Key = {c}
    BY <1>1, <1>2, <1>3, FS_Singleton
  <2>2. Redrawable = Key /\ f \in [Key -> FreshValues(c)]
    BY <1>1, <1>3, <2>1 DEF FreshKeys
  <2>3. Beyond(c) \in Int
    <3> DEFINE V == {k[c] : k \in KeysSeen}
               F == [j \in 1 .. at - 1 |-> rows[j][c]]
    <3>1. at - 1 \in Nat /\ \A j \in 1 .. at - 1 : rows[j] \in RowType(S, t)
      <4>1. Len(rows) \in Nat
        OBVIOUS
      <4> QED BY <4>1
    <3>2. \A k \in KeysSeen : \E j \in 1 .. at - 1 : k[c] = F[j] /\ k[c] \in Int
      <4> SUFFICES ASSUME NEW k \in KeysSeen PROVE \E j \in 1 .. at - 1 : k[c] = F[j] /\ k[c] \in Int
        OBVIOUS
      <4>1. PICK j \in 1 .. at - 1 : ~KeyMissing(rows[j]) /\ k = KeyOf(rows[j])
        BY DEF KeysSeen
      <4>2. k[c] = rows[j][c] /\ rows[j][c] # NULL
        BY <2>1, <4>1 DEF KeyMissing, KeyOf
      <4>3. rows[j][c] \in CellValues
        BY <1>1, <1>2, <2>1, <3>1 DEF RowType
      <4> QED BY <4>2, <4>3 DEF CellValues
    <3>3. V \in SUBSET {F[j] : j \in 1 .. at - 1} /\ V \in SUBSET Int
      BY <3>2
    <3> HIDE DEF V, F
    <3>4. IsFiniteSet(V)
      BY <3>1, <3>3, ColumnFinite
    <3>5. c \in ColumnsIn(S, t)
      BY <1>1, <1>2, <2>1
    <3>6. Space(c) \cup V \in SUBSET Int /\ IsFiniteSet(Space(c) \cup V) /\ Space(c) \cup V # {}
      BY <1>2, <3>3, <3>4, <3>5, FS_Union
    <3>7. Max(Space(c) \cup V) \in Int
      BY <3>6, MaxFinite
    <3> QED BY <3>7 DEF Beyond, V
  <2>4. FreshValues(c) \subseteq Int
    <3>1. c \in ColumnsIn(S, t)
      BY <1>1, <1>2, <2>1
    <3> QED BY <1>2, <2>3, <3>1 DEF FreshValues
  <2> QED BY <2>2, <2>4
<1>4. CASE Cardinality(Key) # 1
  <2>1. f \in FreshMembers
    BY <1>4 DEF FreshKeys
  <2> DEFINE M == {[c \in Redrawable |-> Space(c)]}
                    \cup {[c \in Redrawable |-> Continued(c, k)] : k \in 1 .. MaxExtra}
  <2>2. PICK own \in M : /\ f \in [Redrawable -> UNION {own[c] : c \in Redrawable}]
                       /\ \A c \in Redrawable : f[c] \in own[c]
    BY <2>1 DEF FreshMembers
  <2>3. ASSUME NEW c \in Redrawable PROVE own[c] \subseteq Int
    <3>1. c \in ColumnsIn(S, t)
      BY <1>1, <1>2
    <3>2. Space(c) \in SUBSET Int /\ IsFiniteSet(Space(c)) /\ Space(c) # {}
      BY <1>2, <3>1
    <3>3. Max(Space(c)) \in Int
      BY <3>2, MaxFinite
    <3>4. \A k \in 1 .. MaxExtra : Continued(c, k) \subseteq Int
      BY <3>2, <3>3 DEF Continued
    <3> QED BY <2>2, <3>2, <3>4
  <2> QED BY <2>2, <2>3
<1> QED BY <1>3, <1>4

LEMMA RedrawKeyGen == ASSUME GenInv, RedrawKey PROVE GenInv'
<1> DEFINE S == schema
           T == tables
           t == table
           X == Redrawable
<1>1. /\ phase = "keys" /\ phase' = phase /\ at <= Len(rows) /\ at' = at + 1 /\ NeedsKey
      /\ schema' = S /\ tables' = T /\ table' = t /\ assigned' = assigned /\ pools' = pools
  BY DEF RedrawKey
<1>2. phase \in Working /\ phase \in Spaced /\ phase \notin Keyed
  BY <1>1 DEF Working, Spaced, Keyed
<1>3. /\ InHand(S, T, t, pools, assigned, rows, at) /\ Sound(S, t) /\ DistinctIn(S, t, rows) /\ S \in Schemas
      /\ rows \in Seq(RowType(S, t)) /\ Len(rows) \in Nat /\ at \in 1 .. Len(rows) + 1
      /\ KeyKept(S, t) => KeysDiffer(S, t, rows, 1 .. at - 1)
      /\ DOMAIN rows = 1 .. Len(rows)
  BY <1>1, <1>2, StageNow DEF Stage
<1>4. at \in 1 .. Len(rows) /\ at \in Nat \ {0} /\ (at + 1) - 1 = at
  BY <1>1, <1>3
<1>5. PICK row \in {r \in FreshRows : KeyOf(r) \notin KeysSeen} : rows' = [rows EXCEPT ![at] = row]
  BY DEF RedrawKey
<1>6. PICK f \in FreshKeys : row = WithKey(rows[at], f)
  BY <1>5 DEF FreshRows
<1>7. DOMAIN f = X /\ \A c \in X : f[c] \in Int
  BY <1>1, <1>3, <1>4, FreshTyped
<1>8. rows[at] \in RowType(S, t)
  BY <1>3, <1>4
<1>9. row \in RowType(S, t) /\ \A c \in ColumnsIn(S, t) \ X : row[c] = rows[at][c]
  BY <1>6, <1>7, <1>8 DEF WithKey, RowType, CellValues
<1>10. X \subseteq S[t].pk /\ ForeignIn(S, t) \cap X = {}
  BY Reads DEF Redrawable, Key, Frozen
<1>11. ApartIn(S, t) \cap X = {}
  <2> SUFFICES ASSUME NEW c \in ApartIn(S, t), c \in X PROVE FALSE
    OBVIOUS
  <2>1. PICK j \in 1 .. at - 1 : \A d \in S[t].pk : rows[at][d] = rows[j][d]
    BY <1>1, <1>3, <1>4, KeysRead DEF NeedsKey
  <2>2. rows[at][c] = rows[j][c]
    BY <1>10, <2>1
  <2>3. j \in DOMAIN rows /\ at \in DOMAIN rows /\ j # at
    BY <1>3, <1>4
  <2> QED BY <1>3, <2>2, <2>3 DEF DistinctIn, ApartAt
<1> DEFINE more == rows'
<1>12. more = [rows EXCEPT ![at] = row]
  BY <1>5
<1>20. \A j \in 1 .. at - 1 : (\A c \in S[t].pk : rows[j][c] # NULL) => \E c \in S[t].pk : row[c] # rows[j][c]
  BY <1>3, <1>4, <1>5, KeysRead
<1> HIDE DEF S, T, t, X, more
<1>13. /\ Rewrites(S, t, rows, more, X) /\ more[at] = row
       /\ \A i \in DOMAIN rows : i # at => more[i] = rows[i]
  BY <1>3, <1>4, <1>9, <1>12, OneRewritten
<1>14. more \in Seq(RowType(S, t)) /\ Len(more) = Len(rows) /\ DOMAIN more = DOMAIN rows
  BY <1>3, <1>13, RewritesKeep DEF Rewrites
<1>15. /\ ResolvedIn(S, T, t, more) /\ UniqueIn(S, t, more, ApartIn(S, t)) /\ DistinctIn(S, t, more)
  <2>1. ResolvedIn(S, T, t, rows) /\ UniqueIn(S, t, rows, ApartIn(S, t))
    BY <1>3 DEF InHand
  <2>2. (ForeignIn(S, t) \ ApartIn(S, t)) \cap X = {}
    BY <1>10
  <2> QED BY <1>3, <1>10, <1>11, <1>13, <2>1, <2>2, RewritesKeep
<1>16. ASSUME KeyKept(S, t) PROVE KeysDiffer(S, t, more, 1 .. at)
  <2>1. \A j \in 1 .. at - 1 : more[j] = rows[j]
    BY <1>3, <1>4, <1>13
  <2>2. KeysDiffer(S, t, more, 1 .. at - 1)
    <3>1. KeysDiffer(S, t, rows, 1 .. at - 1)
      BY <1>3, <1>16
    <3> QED BY <2>1, <3>1 DEF KeysDiffer
  <2>3. \A j \in 1 .. at - 1 : (\A c \in S[t].pk : more[j][c] # NULL) => \E c \in S[t].pk : more[at][c] # more[j][c]
    BY <1>13, <1>20, <2>1
  <2> QED BY <1>4, <2>2, <2>3, KeysOneMore
<1>17. InHand(S, T, t, pools, assigned, more, at + 1)
  <2>1. at + 1 \in 1 .. Len(more) + 1
    BY <1>3, <1>4, <1>14
  <2> QED BY <1>3, <1>14, <1>15, <2>1 DEF InHand
<1>18. Stage(S, T, phase, t, pools, assigned, more, at + 1)
  <2>1. KeyKept(S, t) => KeysDiffer(S, t, more, 1 .. (at + 1) - 1)
    BY <1>4, <1>16
  <2> QED BY <1>1, <1>2, <1>15, <1>17, <2>1 DEF Stage
<1> QED BY <1>1, <1>2, <1>18, StageNext DEF S, T, t, more

------------------------------------------------------------------------------
(* What generation promises.                                               *)

LEMMA GenStep == ASSUME GenInv, [Next]_vars PROVE GenInv'
<1>1. CASE Validate
  BY <1>1, ValidateGen
<1>2. CASE \E t \in Names : BeginTable(t)
  BY <1>2, BeginGen
<1>3. CASE (\E t \in Names : RefuseTable(t)) \/ DrawFails \/ RefuseDistinct \/ DistinguishFails \/ KeyFails
  BY <1>3, FailsGen
<1>4. CASE DrawRow
  BY <1>4, DrawRowGen
<1>5. CASE DrawEnds
  BY <1>5, DrawEndsGen
<1>6. CASE Distinguish
  BY <1>6, DistinguishGen
<1>7. CASE DistinguishEnds
  BY <1>7, DistinguishEndsGen
<1>8. CASE KeepKey
  BY <1>8, KeepKeyGen
<1>9. CASE RedrawKey
  BY <1>9, RedrawKeyGen
<1>10. CASE KeysEnd
  BY <1>10, KeysEndGen
<1>11. CASE Pin
  BY <1>11, PinGen
<1>12. CASE Derive
  BY <1>12, DeriveGen
<1>13. CASE RepairBranches
  BY <1>13, RepairGen
<1>14. CASE Publish
  BY <1>14, PublishGen
<1>15. CASE Ended \/ UNCHANGED vars
  BY <1>15, EndedGen DEF Ended
<1> QED BY <1>1, <1>2, <1>3, <1>4, <1>5, <1>6, <1>7, <1>8, <1>9, <1>10, <1>11, <1>12, <1>13, <1>14,
           <1>15 DEF Next

LEMMA GenAlways == Spec => []GenInv
<1>1. Init => GenInv
  BY InitGen
<1>2. GenInv /\ [Next]_vars => GenInv'
  BY GenStep
<1> QED BY <1>1, <1>2, PTL DEF Spec

LEMMA TablesFinished ==
  ASSUME GenInv, NEW t \in DOMAIN tables
  PROVE  /\ Finished(schema, tables, t, tables[t]) /\ tables[t] \in Seq(RowType(schema, t))
         /\ t \in DOMAIN schema /\ Sound(schema, t)
         /\ \A c \in ForeignIn(schema, t) : GovIn(schema, t, c).fixed = {} => GovIn(schema, t, c).parent \in DOMAIN tables
<1>1. /\ Finished(schema, tables, t, tables[t]) /\ tables[t] \in Seq(RowType(schema, t)) /\ t \in DOMAIN schema
      /\ Rooted(schema, tables, t)
  BY DEF GenInv, Generating, TablesOK
<1>2. Sound(schema, t)
  BY <1>1, SynthAssumption DEF GenInv, Generating
<1>3. ASSUME NEW c \in ForeignIn(schema, t), GovIn(schema, t, c).fixed = {} PROVE GovIn(schema, t, c).parent \in DOMAIN tables
  <2>1. GovIn(schema, t, c) \in RelsIn(schema, t)
    BY <1>2, SoundParts, FirstFound
  <2> QED BY <1>1, <1>3, <2>1 DEF Rooted, ParentsIn
<1> QED BY <1>1, <1>2, <1>3

(* Every foreign key of a finished table is NULL or a key of its parent's  *)
(* finished rows, however the parent's keys were redrawn, continued and     *)
(* repaired and the child's redrawn in turn (generator.rs:529-573, 707-724, *)
(* 661-667).                                                                *)
THEOREM GeneratedKeysResolve == Spec => []KeysResolve
<1>1. ASSUME GenInv PROVE KeysResolve
  <2> SUFFICES ASSUME NEW t \in DOMAIN tables, NEW c \in ForeignKeys(t), Governing(t, c).fixed = {}
               PROVE  ToSet(ColumnOf(t, c)) \subseteq
                        ToSet(ColumnOf(Governing(t, c).parent, Governing(t, c).key)) \cup {NULL}
    BY DEF KeysResolve
  <2> DEFINE gov == GovIn(schema, t, c)
  <2>1. c \in ForeignIn(schema, t) /\ Governing(t, c) = gov
    BY Reads, ReadsPools
  <2>2. \A i \in DOMAIN tables[t] : tables[t][i][c] \in ValuesIn(tables, gov.parent, gov.key) \cup {NULL}
    BY <1>1, <2>1, TablesFinished DEF Finished, ResolvedIn
  <2> HIDE DEF gov
  <2>3. \A p, k : ToSet(ColumnOf(p, k)) = ValuesIn(tables, p, k)
    BY DEF ToSet, ColumnOf, ValuesIn
  <2> QED BY <2>1, <2>2, <2>3 DEF ValuesIn
<1> QED BY <1>1, GenAlways, PTL

(* A column another table refers to has no value twice, and a unique        *)
(* foreign key no parent twice, once the table is finished                  *)
(* (generator.rs:476-483, 413-423).                                         *)
THEOREM GeneratedReferencedDistinct == Spec => []ReferencedDistinct
<1>1. ASSUME GenInv PROVE ReferencedDistinct
  <2> SUFFICES ASSUME NEW t \in DOMAIN tables, NEW i \in DOMAIN tables[t], NEW j \in DOMAIN tables[t], i # j
               PROVE  /\ \A c \in DistinctColumns(t) : tables[t][i][c] # tables[t][j][c]
                      /\ \A c \in ForeignKeys(t) :
                           IsUnique(Governing(t, c))
                             /\ Governing(t, c).key \in DistinctColumns(Governing(t, c).parent) =>
                               tables[t][i][c] # tables[t][j][c] \/ tables[t][i][c] = NULL
    BY DEF ReferencedDistinct
  <2>1. Finished(schema, tables, t, tables[t])
    BY <1>1, TablesFinished
  <2>2. \A c \in DistinctColumns(t) : tables[t][i][c] # tables[t][j][c]
    BY <2>1, Reads DEF Finished, DistinctIn, ApartAt
  <2>3. ASSUME NEW c \in ForeignKeys(t), IsUnique(Governing(t, c)),
               Governing(t, c).key \in DistinctColumns(Governing(t, c).parent)
        PROVE  tables[t][i][c] # tables[t][j][c] \/ tables[t][i][c] = NULL
    <3>1. c \in ForeignIn(schema, t) /\ UniqueKey(schema, t, c)
      BY <2>3, Reads, ReadsPools DEF UniqueKey
    <3> QED BY <2>1, <3>1 DEF Finished, UniqueIn, OnceAt
  <2> QED BY <2>2, <2>3
<1> QED BY <1>1, GenAlways, PTL

(* Two finished rows agree in a complete primary key only if every member   *)
(* of it is out of the generator's hands, or if the rules overwrite a       *)
(* member afterwards (generator.rs:576-594, 699-706).                       *)
THEOREM GeneratedPrimaryKeysDistinct == Spec => []PrimaryKeysDistinct
<1>1. ASSUME GenInv PROVE PrimaryKeysDistinct
  <2> SUFFICES ASSUME NEW t \in DOMAIN tables, NEW i \in DOMAIN tables[t], NEW j \in DOMAIN tables[t],
                      i # j, Supplied(t) # {}, Rule(t).pk \cap Overwritten(t) = {},
                      \A c \in Rule(t).pk : tables[t][i][c] # NULL
               PROVE  \E c \in Rule(t).pk : tables[t][i][c] # tables[t][j][c]
    BY DEF PrimaryKeysDistinct
  <2>1. Rule(t) = schema[t] /\ Supplied(t) = SuppliedIn(schema, t) /\ Overwritten(t) = Written(schema, t)
    BY Reads DEF Supplied, SuppliedIn, Overwritten, Written, SetsIn
  <2>2. KeysDiffer(schema, t, tables[t], DOMAIN tables[t])
    BY <1>1, <2>1, TablesFinished DEF Finished, KeyKept
  <2> QED BY <2>1, <2>2 DEF KeysDiffer
<1> QED BY <1>1, GenAlways, PTL

(* A derived cell follows the row and the parent row it was derived from as *)
(* they are in the end, after the redraws and repairs that changed both     *)
(* (generator.rs:608-639, 1656-1667), where no undone round of repairs can  *)
(* leave behind what derived cells are read from or written to.             *)
THEOREM GeneratedDerivedFresh == Spec => []DerivedFresh
<1>1. ASSUME GenInv PROVE DerivedFresh
  <2> SUFFICES ASSUME NEW t \in DOMAIN tables, NEW i \in DOMAIN tables[t],
                      LeftBehind(t) \cap (ToSet(Rule(t).derive) \cup DeriveTargets(t)) = {}
               PROVE  tables[t][i] = Derived(t, tables[t][i])
    BY DEF DerivedFresh
  <2>1. Unmoved(schema, t)
    BY Reads DEF Unmoved
  <2>2. FreshIn(schema, tables, t, tables[t])
    BY <1>1, <2>1, TablesFinished DEF Finished
  <2> QED BY <2>2, ReadsDerived DEF FreshIn
<1> QED BY <1>1, GenAlways, PTL

(* The variables of the table in hand belong together. *)
Shaped(S, ph, t, pl, rs, k) ==
  /\ ph \in ToSet(Phases) \cup {"validate", "next", "done", "invalid", "cycle", "refused", "exhausted"}
  /\ t \in DOMAIN S \cup {NULL} /\ k \in 1 .. Len(rs) + 1
  /\ Len(pl) = IF t = NULL THEN 0 ELSE Len(S[t].rels)
ShapeInv == GenInv /\ Shaped(schema, phase, table, pools, rows, at)

LEMMA PhaseNames == ToSet(Phases) = Working
<1>1. \A i \in 1 .. 7 : Phases[i] \in Working
  BY PhasesAre DEF Working, Phases
<1>2. \A p \in Working : \E i \in 1 .. 7 : p = Phases[i]
  <2>1. 1 \in 1 .. 7 /\ 2 \in 1 .. 7 /\ 3 \in 1 .. 7 /\ 4 \in 1 .. 7 /\ 5 \in 1 .. 7 /\ 6 \in 1 .. 7 /\ 7 \in 1 .. 7
    OBVIOUS
  <2> QED BY <2>1, PhasesAre DEF Working
<1> QED BY <1>1, <1>2, PhasesAre DEF ToSet

LEMMA ShapeInit == Init => ShapeInv
<1> SUFFICES ASSUME Init PROVE ShapeInv
  OBVIOUS
<1>1. Len(pools) = 0 /\ Len(rows) = 0
  BY DEF Init
<1> QED BY <1>1, InitGen DEF Init, ShapeInv, Shaped

LEMMA ShapeStep == ASSUME ShapeInv, [Next]_vars PROVE ShapeInv'
<1>1. GenInv /\ GenInv' /\ Shaped(schema, phase, table, pools, rows, at)
  BY GenStep DEF ShapeInv
<1>2. CASE UNCHANGED vars \/ Ended
  BY <1>1, <1>2 DEF vars, Ended, ShapeInv
<1>3. CASE \/ Validate \/ DrawFails \/ RefuseDistinct \/ DistinguishFails \/ KeyFails
           \/ \E t \in Names : RefuseTable(t)
  <2>1. /\ schema' = schema /\ table' = table /\ pools' = pools /\ rows' = rows /\ at' = at
        /\ phase' \in {"invalid", "cycle", "next", "refused", "exhausted"}
    BY <1>3 DEF Validate, DrawFails, RefuseDistinct, DistinguishFails, KeyFails, RefuseTable, Fail
  <2> QED BY <1>1, <2>1 DEF ShapeInv, Shaped
<1>4. CASE \E t \in Names : BeginTable(t)
  <2>1. PICK t \in Names : BeginTable(t)
    BY <1>4
  <2>2. /\ phase' = "draw" /\ table' = t /\ rows' = <<>> /\ at' = 1 /\ schema' = schema
        /\ pools' = [i \in DOMAIN schema[t].rels |-> Pool(t, schema[t].rels[i])]
    BY <2>1, PhasesAre, Reads DEF BeginTable
  <2>3. phase = "next"
    BY <2>1 DEF BeginTable
  <2>4. t \in DOMAIN schema /\ t # NULL /\ Sound(schema, t)
    BY <1>1, <2>3, SynthAssumption DEF GenInv, Generating, Names
  <2>5. Len(schema[t].rels) \in Nat /\ DOMAIN schema[t].rels = 1 .. Len(schema[t].rels)
    <3>1. schema[t].rels \in Seq(RelsIn(schema, t))
      BY <2>4, SoundParts
    <3> QED BY <3>1
  <2>6. Len(pools') = Len(schema[t].rels)
    BY <2>2, <2>5
  <2>7. phase' \in ToSet(Phases)
    BY <2>2, PhaseNames DEF Working
  <2>8. 1 \in 1 .. Len(rows') + 1
    <3>1. Len(rows') = 0
      BY <2>2
    <3> QED BY <3>1
  <2> QED BY <1>1, <2>2, <2>4, <2>6, <2>7, <2>8 DEF ShapeInv, Shaped
<1>5. CASE Publish
  <2>1. /\ schema' = schema /\ table' = NULL /\ rows' = <<>> /\ pools' = <<>> /\ at' = 1 /\ phase' \in {"done", "next"}
    BY <1>5 DEF Publish
  <2>2. Len(pools') = 0 /\ Len(rows') = 0
    BY <2>1
  <2>3. at' \in 1 .. Len(rows') + 1
    BY <2>1, <2>2
  <2> QED BY <1>1, <2>1, <2>2, <2>3 DEF ShapeInv, Shaped
<1>6. CASE \/ DrawRow \/ DrawEnds \/ Distinguish \/ DistinguishEnds \/ KeepKey \/ RedrawKey \/ KeysEnd
           \/ Pin \/ Derive \/ RepairBranches
  <2>1. schema' = schema /\ table' = table /\ phase \in Working
    BY <1>6 DEF Working, DrawRow, DrawEnds, Distinguish, DistinguishEnds, KeepKey, RedrawKey,
       KeysEnd, Pin, Derive, RepairBranches
  <2>2. phase' \in Working
    <3>1. \A p \in Working \ {"publish"} : After(p) \in Working
      BY AfterEach DEF Working
    <3>2. phase' = phase \/ (phase' = After(phase) /\ phase # "publish")
      BY <1>6 DEF DrawRow, DrawEnds, Distinguish, DistinguishEnds, KeepKey, RedrawKey, KeysEnd,
         Pin, Derive, RepairBranches, NextPhase
    <3> QED BY <2>1, <3>1, <3>2
  <2>3. InHand(schema', tables', table', pools', assigned', rows', at')
    BY <1>1, <2>2, PhaseSets DEF GenInv, Generating, Stage
  <2>4. at' \in 1 .. Len(rows') + 1 /\ table \in DOMAIN schema /\ table # NULL
    BY <1>1, <2>1, <2>3, SynthAssumption DEF InHand, GenInv, Generating
  <2>5. Len(pools') = Len(schema[table].rels)
    <3>1. CASE pools' = pools
      BY <1>1, <2>4, <3>1 DEF Shaped
    <3>2. CASE DrawRow
      <4>1. DOMAIN pools = DOMAIN schema[table].rels /\ Sound(schema, table)
        BY <1>1, <2>1, StageNow DEF InHand, PoolsOK
      <4>2. schema[table].rels \in Seq(RelsIn(schema, table))
        BY <4>1, SoundParts
      <4>3. Len(schema[table].rels) \in Nat /\ DOMAIN pools = 1 .. Len(schema[table].rels)
        BY <4>1, <4>2
      <4>4. PICK row : pools' = [i \in DOMAIN pools |->
                      IF TakesFrom(i, row)
                      THEN RemoveFirst(pools[i], row[Rule(table).rels[i].fk]) ELSE pools[i]]
        BY <3>2 DEF DrawRow
      <4> QED BY <4>3, <4>4
    <3>3. pools' = pools \/ DrawRow
      BY <1>6 DEF DrawEnds, Distinguish, DistinguishEnds, KeepKey, RedrawKey, KeysEnd, Pin, Derive,
         RepairBranches
    <3> QED BY <3>1, <3>2, <3>3
  <2> QED BY <1>1, <2>1, <2>2, <2>4, <2>5, PhaseNames DEF ShapeInv, Shaped
<1> QED BY <1>2, <1>3, <1>4, <1>5, <1>6 DEF Next

(* The generator's state is well formed: finished tables of full rows, a    *)
(* pool for each relationship of the table in hand                          *)
(* (generator.rs:240-760).                                                  *)
THEOREM GeneratorTypes == Spec => []TypeOK
<1>1. Init => ShapeInv
  BY ShapeInit
<1>2. ShapeInv /\ [Next]_vars => ShapeInv'
  BY ShapeStep
<1>3. ASSUME ShapeInv PROVE TypeOK
  <2>1. GenInv /\ Shaped(schema, phase, table, pools, rows, at) /\ TablesOK(schema, tables)
    BY <1>3 DEF ShapeInv, GenInv, Generating
  <2>2. \A t \in DOMAIN tables : \A i \in DOMAIN tables[t] : DOMAIN tables[t][i] = Columns(t)
    <3> SUFFICES ASSUME NEW t \in DOMAIN tables, NEW i \in DOMAIN tables[t]
                 PROVE  DOMAIN tables[t][i] = Columns(t)
      OBVIOUS
    <3>1. tables[t] \in Seq(RowType(schema, t))
      BY <2>1 DEF TablesOK
    <3> QED BY <3>1, SeqRows, Reads
  <2>3. DOMAIN tables \subseteq Names
    BY <2>1 DEF TablesOK, Names
  <2> QED BY <2>1, <2>2, <2>3 DEF TypeOK, Shaped, Names, Rule
<1> QED BY <1>1, <1>2, <1>3, PTL DEF Spec

------------------------------------------------------------------------------
(* The summaries of iblt_diff and their decoding. *)

(* The summary of a sample x in k cells, as its operators read it.         *)
CellIn(x, k, rs, j) == <<j, Number(Xor([r \in rs |-> x.word[r][j]])) % k>>
CellsIn(k) == (1 .. Subtables) \X (0 .. k - 1)
KeyIn(x, rs) == Xor([r \in rs |-> x.key[r]])
Own(x, k, c) == {r \in Rows : CellIn(x, k, {r}, c[1]) = c}
DiffIn(x, k) ==
  [c \in CellsIn(k) |->
     [cnt |-> Total(x.net, Own(x, k, c)), rows |-> {r \in Own(x, k, c) : x.net[r] % 2 = 1}]]

LEMMA SummaryRead ==
  /\ Cells = CellsIn(m)
  /\ \A rs, j : CellOf(rs, j) = CellIn(sample, m, rs, j)
  /\ \A rs : KeyXor(rs) = KeyIn(sample, rs)
  /\ Difference = DiffIn(sample, m)
<1>1. Cells = CellsIn(m)
  BY DEF Cells, CellsIn
<1>2. \A rs, j : CellOf(rs, j) = CellIn(sample, m, rs, j)
  BY DEF CellOf, CellIn
<1>3. \A rs : KeyXor(rs) = KeyIn(sample, rs)
  BY DEF KeyXor, KeyIn
<1>4. Difference = DiffIn(sample, m)
  BY DEF Difference, DiffIn, Total, Own, Cells, CellsIn, CellOf, CellIn
<1> QED BY <1>1, <1>2, <1>3, <1>4

(* The number of a finite set of bits, and the cell of a row. *)
LEMMA NumberInt == ASSUME NEW S \in SUBSET Nat, IsFiniteSet(S) PROVE Number(S) \in Int
<1> DEFINE w == [b \in S |-> 2 ^ b]
           Of(f) == f = [s \in SUBSET S |-> IF s = {} THEN 0 ELSE 2 ^ Pick(s) + f[s \ {Pick(s)}]]
<1>0. \A b \in Nat : 2 ^ b \in Int
  OBVIOUS
<1>1. \A x \in S : w[x] \in Int /\ w[x] = 2 ^ x
  BY <1>0
<1> HIDE DEF w
<1>2. ASSUME NEW f PROVE Of(f) <=> Sums(f, w, S)
  <2>1. \A s \in SUBSET S : s # {} => w[Pick(s)] = 2 ^ Pick(s)
    BY <1>1, PickIn
  <2>2. [s \in SUBSET S |-> IF s = {} THEN 0 ELSE 2 ^ Pick(s) + f[s \ {Pick(s)}]]
          = [s \in SUBSET S |-> IF s = {} THEN 0 ELSE w[Pick(s)] + f[s \ {Pick(s)}]]
    BY <2>1
  <2> QED BY <2>2 DEF Sums
<1>3. PICK f : Sums(f, w, S)
  BY <1>1, SumsExist
<1>4. \E h : Of(h)
  BY <1>2, <1>3
<1>5. \E g : Of(g) /\ Number(S) = g[S]
  BY <1>4 DEF Number, MapThenSumSet, MapThenFoldSet, Pick
<1>6. PICK g : Sums(g, w, S) /\ Number(S) = g[S]
  BY <1>2, <1>5
<1>7. S \in SUBSET S
  OBVIOUS
<1>8. Total(w, S) = g[S]
  BY <1>1, <1>6, <1>7, TotalIs
<1>9. Total(w, S) \in Int
  BY <1>1, TotalInt
<1> QED BY <1>6, <1>8, <1>9

LEMMA OneKey ==
  ASSUME NEW x \in SampleType, NEW r \in Rows
  PROVE  KeyIn(x, {r}) = x.key[r]
<1>1. x.key[r] \subseteq Bits
  BY DEF SampleType
<1> DEFINE f == [s \in {r} |-> x.key[s]]
<1>2. DOMAIN f = {r} /\ f[r] = x.key[r]
  OBVIOUS
<1>3. ASSUME NEW b \in Bits
      PROVE  Cardinality({s \in DOMAIN f : b \in f[s]}) % 2 = 1 <=> b \in x.key[r]
  <2>1. CASE b \in x.key[r]
    <3>1. {s \in DOMAIN f : b \in f[s]} = {r}
      BY <1>2, <2>1
    <3>2. Cardinality({s \in DOMAIN f : b \in f[s]}) = 1
      BY <3>1, FS_Singleton
    <3>3. 1 % 2 = 1
      OBVIOUS
    <3> QED BY <2>1, <3>2, <3>3
  <2>2. CASE b \notin x.key[r]
    <3>1. {s \in DOMAIN f : b \in f[s]} = {}
      BY <1>2, <2>2
    <3>2. Cardinality({s \in DOMAIN f : b \in f[s]}) = 0
      BY <3>1, FS_EmptySet
    <3>3. 0 % 2 # 1
      OBVIOUS
    <3> QED BY <2>2, <3>2, <3>3
  <2> QED BY <2>1, <2>2
<1> HIDE DEF f
<1>4. Xor(f) = x.key[r]
  BY <1>1, <1>3 DEF Xor
<1> QED BY <1>4 DEF KeyIn, f

(* The totals of a cell when one row's share changes, and of rows owed none. *)
LEMMA TotalChange ==
  ASSUME NEW S, IsFiniteSet(S), NEW w, NEW v, \A y \in S : w[y] \in Int /\ v[y] \in Int,
         NEW r \in S, \A y \in S \ {r} : v[y] = w[y]
  PROVE  Total(v, S) = Total(w, S) + (v[r] - w[r])
<1>1. Total(w, S) = w[r] + Total(w, S \ {r}) /\ Total(v, S) = v[r] + Total(v, S \ {r})
  BY TotalRemove
<1>2. IsFiniteSet(S \ {r})
  BY FS_RemoveElement
<1>3. Total(w, S \ {r}) = Total(v, S \ {r}) /\ Total(w, S \ {r}) \in Int
  BY <1>2, TotalAgree, TotalInt
<1> DEFINE rest == Total(w, S \ {r})
<1> HIDE DEF rest
<1>4. Total(w, S) = w[r] + rest /\ Total(v, S) = v[r] + rest /\ rest \in Int
  BY <1>1, <1>3 DEF rest
<1>5. w[r] \in Int /\ v[r] \in Int
  OBVIOUS
<1> QED BY <1>4, <1>5

LEMMA TotalNone ==
  ASSUME NEW S, IsFiniteSet(S), NEW w, \A y \in S : w[y] = 0
  PROVE  Total(w, S) = 0
<1> DEFINE Good == {T \in SUBSET S : Total(w, T) = 0}
<1>1. {} \in Good
  BY TotalEmpty
<1>2. ASSUME NEW T \in SUBSET S, NEW y \in T, T \ {y} \in Good PROVE T \in Good
  <2>1. IsFiniteSet(T) /\ \A z \in T : w[z] \in Int
    BY FS_Subset
  <2>2. Total(w, T) = w[y] + Total(w, T \ {y})
    BY <2>1, TotalRemove
  <2> QED BY <1>2, <2>2
<1> HIDE DEF Good
<1>3. S \in Good
  BY <1>1, <1>2, SubsetInduction
<1> QED BY <1>3 DEF Good

LEMMA TotalAlone ==
  ASSUME NEW S, IsFiniteSet(S), NEW w, NEW r \in S, w[r] \in Int, \A y \in S \ {r} : w[y] = 0
  PROVE  Total(w, S) = w[r]
<1>1. \A y \in S : w[y] \in Int
  OBVIOUS
<1>2. Total(w, S) = w[r] + Total(w, S \ {r})
  BY <1>1, TotalRemove
<1>3. IsFiniteSet(S \ {r})
  BY FS_RemoveElement
<1>4. Total(w, S \ {r}) = 0
  BY <1>3, TotalNone
<1> QED BY <1>2, <1>4

Odd(x, r) == x.net[r] % 2 = 1
Taken(E, r) == \E e \in E : e.rows = {r}
Single(E) == \A e \in E : \E r \in Rows : e.rows = {r}
Small(x) == \A r \in Rows : x.net[r] \in {-1, 0, 1}
Alone(x, k, r, c) == r \in Own(x, k, c) /\ \A s \in Own(x, k, c) \ {r} : x.net[s] = 0
EntryOf(x, r) == [rows |-> {r}, left |-> x.net[r] > 0]
Owed(x, E) == [r \in Rows |-> IF Taken(E, r) THEN 0 ELSE x.net[r]]

(* What is left of a row that was taken once is gone from every cell.      *)
Parity(x, k, cs, E) ==
  /\ DOMAIN cs = CellsIn(k)
  /\ \A c \in CellsIn(k) : cs[c].rows = {r \in Own(x, k, c) : Odd(x, r) /\ ~Taken(E, r)}
  /\ \A r \in Rows : Taken(E, r) => Odd(x, r)

(* A cell counts the rows in it that are not taken yet.                    *)
Counted(x, k, cs, E) ==
  Small(x) =>
    /\ \A c \in CellsIn(k) : cs[c].cnt = Total(Owed(x, E), Own(x, k, c))
    /\ E \subseteq {EntryOf(x, r) : r \in Rows}

(* A cell in which a row is the only difference counts its copies.         *)
OwnCell(x, k, cs, E) ==
  \A r \in Rows : \A c \in CellsIn(k) : Alone(x, k, r, c) =>
    cs[c].cnt \in (IF Taken(E, r) THEN {x.net[r] - 1, x.net[r] + 1} ELSE {x.net[r]})

KeysApart(x, E, rep) == ~rep => \A e, f \in E : KeyIn(x, e.rows) = KeyIn(x, f.rows) => e = f

LEMMA CellOfRows ==
  ASSUME NEW x, NEW k \in Nat \ {0}, NEW rs, NEW j \in 1 .. Subtables
  PROVE  CellIn(x, k, rs, j) \in CellsIn(k) /\ CellIn(x, k, rs, j)[1] = j
<1> DEFINE bits == Xor([s \in rs |-> x.word[s][j]])
<1>1. bits \in SUBSET Bits
  BY DEF Xor
<1>2. bits \in SUBSET Nat /\ IsFiniteSet(bits)
  BY <1>1, IbltAssumption, FS_Subset
<1> HIDE DEF bits
<1>3. Number(bits) \in Int
  BY <1>2, NumberInt
<1>4. Number(bits) % k \in 0 .. k - 1
  BY <1>3
<1> QED BY <1>4 DEF CellIn, CellsIn, bits

LEMMA OwnFinite ==
  ASSUME NEW x, NEW k, NEW c
  PROVE  IsFiniteSet(Own(x, k, c)) /\ Own(x, k, c) \subseteq Rows
<1>1. Own(x, k, c) \subseteq Rows
  BY DEF Own
<1> QED BY <1>1, IbltAssumption, FS_Subset

(* The summary before anything is taken. *)
LEMMA PeelStarts ==
  ASSUME NEW x \in SampleType, NEW k \in Nat \ {0}
  PROVE  /\ Parity(x, k, DiffIn(x, k), {}) /\ Counted(x, k, DiffIn(x, k), {})
         /\ OwnCell(x, k, DiffIn(x, k), {})
<1> DEFINE cs == DiffIn(x, k)
<1>0. x.net \in [Rows -> Int]
  BY DEF SampleType
<1>1. /\ DOMAIN cs = CellsIn(k)
      /\ \A c \in CellsIn(k) : /\ cs[c].cnt = Total(x.net, Own(x, k, c))
                               /\ cs[c].rows = {r \in Own(x, k, c) : x.net[r] % 2 = 1}
  BY DEF DiffIn
<1>2. \A r : ~Taken({}, r)
  BY DEF Taken
<1> HIDE DEF cs
<1>3. Parity(x, k, cs, {})
  BY <1>1, <1>2 DEF Parity, Odd
<1>4. Owed(x, {}) = x.net
  BY <1>0, <1>2 DEF Owed
<1>5. Counted(x, k, cs, {})
  BY <1>1, <1>4 DEF Counted
<1>6. ASSUME NEW r \in Rows, NEW c \in CellsIn(k), Alone(x, k, r, c)
      PROVE  cs[c].cnt = x.net[r]
  <2>1. IsFiniteSet(Own(x, k, c)) /\ x.net[r] \in Int
    BY <1>0, OwnFinite
  <2>2. Total(x.net, Own(x, k, c)) = x.net[r]
    BY <1>6, <2>1, TotalAlone DEF Alone
  <2> QED BY <1>1, <2>2
<1>7. OwnCell(x, k, cs, {})
  BY <1>2, <1>6 DEF OwnCell
<1> QED BY <1>3, <1>5, <1>7 DEF cs

(* One row is taken out of the cells it is in. *)
TakenOut(x, k, cs, r, sign) ==
  [c \in CellsIn(k) |->
     IF c = CellIn(x, k, {r}, c[1])
       THEN [cnt |-> cs[c].cnt - sign, rows |-> (cs[c].rows \ {r}) \cup ({r} \ cs[c].rows)]
       ELSE cs[c]]

LEMMA PeelKeeps ==
  ASSUME NEW x \in SampleType, NEW k \in Nat \ {0}, NEW cs, NEW E, NEW at0 \in CellsIn(k),
         NEW r \in Rows, Parity(x, k, cs, E), cs[at0].rows = {r}, cs[at0].cnt \in {-1, 1}
  PROVE  LET cs2 == TakenOut(x, k, cs, r, cs[at0].cnt)
             E2 == E \cup {[rows |-> {r}, left |-> cs[at0].cnt > 0]}
         IN  /\ Parity(x, k, cs2, E2)
             /\ Counted(x, k, cs, E) => Counted(x, k, cs2, E2)
             /\ OwnCell(x, k, cs, E) => OwnCell(x, k, cs2, E2)
<1> DEFINE sign == cs[at0].cnt
           cs2 == TakenOut(x, k, cs, r, sign)
           e == [rows |-> {r}, left |-> sign > 0]
           E2 == E \cup {e}
<1>0. x.net \in [Rows -> Int]
  BY DEF SampleType
<1>1. r \in Own(x, k, at0) /\ Odd(x, r) /\ ~Taken(E, r)
  BY DEF Parity
<1>2. \A y : Taken(E2, y) <=> Taken(E, y) \/ y = r
  <2>1. e.rows = {r} /\ \A y : {r} = {y} <=> y = r
    OBVIOUS
  <2> HIDE DEF e
  <2> QED BY <2>1 DEF Taken
<1>3. DOMAIN cs2 = CellsIn(k)
  BY DEF TakenOut
<1>4. ASSUME NEW c \in CellsIn(k), r \in Own(x, k, c)
      PROVE  cs2[c].cnt = cs[c].cnt - sign
             /\ cs2[c].rows = (cs[c].rows \ {r}) \cup ({r} \ cs[c].rows)
  BY <1>4 DEF TakenOut, Own
<1>5. ASSUME NEW c \in CellsIn(k), r \notin Own(x, k, c)
      PROVE  cs2[c] = cs[c]
  BY <1>5 DEF TakenOut, Own
<1> HIDE DEF cs2, E2
<1>6. Parity(x, k, cs2, E2)
  <2>1. ASSUME NEW c \in CellsIn(k)
        PROVE  cs2[c].rows = {y \in Own(x, k, c) : Odd(x, y) /\ ~Taken(E2, y)}
    <3>1. CASE r \in Own(x, k, c)
      <4>1. r \in cs[c].rows
        BY <1>1, <3>1 DEF Parity
      <4>2. cs2[c].rows = cs[c].rows \ {r}
        BY <1>4, <3>1, <4>1
      <4> QED BY <1>2, <4>2 DEF Parity
    <3>2. CASE r \notin Own(x, k, c)
      BY <1>2, <1>5, <3>2 DEF Parity
    <3> QED BY <3>1, <3>2
  <2>2. \A y \in Rows : Taken(E2, y) => Odd(x, y)
    BY <1>1, <1>2 DEF Parity
  <2> QED BY <1>3, <2>1, <2>2 DEF Parity
<1>7. ASSUME Counted(x, k, cs, E) PROVE Counted(x, k, cs2, E2)
  <2> SUFFICES ASSUME Small(x)
               PROVE  /\ \A c \in CellsIn(k) : cs2[c].cnt = Total(Owed(x, E2), Own(x, k, c))
                      /\ E2 \subseteq {EntryOf(x, y) : y \in Rows}
    BY DEF Counted
  <2> DEFINE w == Owed(x, E)
             v == Owed(x, E2)
  <2>1. \A y \in Rows : w[y] \in Int /\ v[y] \in Int
    BY <1>0 DEF Owed
  <2>2. w[r] = x.net[r] /\ v[r] = 0 /\ \A y \in Rows \ {r} : v[y] = w[y]
    BY <1>1, <1>2 DEF Owed
  <2>3. \A y \in Own(x, k, at0) \ {r} : w[y] = 0
    <3>1. ASSUME NEW y \in Own(x, k, at0) \ {r} PROVE w[y] = 0
      <4>1. y \in Rows /\ (Taken(E, y) \/ ~Odd(x, y))
        BY DEF Parity, Own
      <4>2. x.net[y] \in {-1, 0, 1}
        BY <4>1 DEF Small
      <4>3. ~Odd(x, y) => x.net[y] = 0
        BY <4>2 DEF Odd
      <4> QED BY <4>1, <4>3 DEF Owed
    <3> QED BY <3>1
  <2>4. \A c \in CellsIn(k) : cs[c].cnt = Total(w, Own(x, k, c))
    BY <1>7 DEF Counted
  <2> HIDE DEF w, v
  <2>5. sign = x.net[r]
    <3>1. Total(w, Own(x, k, at0)) = w[r]
      BY <1>1, <2>1, <2>3, OwnFinite, TotalAlone
    <3> QED BY <2>2, <2>4, <3>1
  <2>6. ASSUME NEW c \in CellsIn(k) PROVE cs2[c].cnt = Total(v, Own(x, k, c))
    <3>0. IsFiniteSet(Own(x, k, c)) /\ Own(x, k, c) \subseteq Rows
      BY OwnFinite
    <3>1. CASE r \in Own(x, k, c)
      <4>1. Total(v, Own(x, k, c)) = Total(w, Own(x, k, c)) + (v[r] - w[r])
        BY <2>1, <2>2, <3>0, <3>1, TotalChange
      <4>2. Total(w, Own(x, k, c)) \in Int
        BY <2>1, <3>0, TotalInt
      <4>3. x.net[r] \in Int
        BY <1>0
      <4>4. cs2[c].cnt = cs[c].cnt - sign
        BY <1>4, <3>1
      <4> HIDE DEF sign
      <4> QED BY <2>2, <2>4, <2>5, <4>1, <4>2, <4>3, <4>4
    <3>2. CASE r \notin Own(x, k, c)
      <4>1. Total(v, Own(x, k, c)) = Total(w, Own(x, k, c))
        BY <2>1, <2>2, <3>0, <3>2, TotalAgree
      <4> QED BY <1>5, <2>4, <3>2, <4>1
    <3> QED BY <3>1, <3>2
  <2>7. e = EntryOf(x, r)
    BY <2>5 DEF EntryOf
  <2>8. E2 \subseteq {EntryOf(x, y) : y \in Rows}
    BY <1>7, <2>7 DEF Counted, E2
  <2> QED BY <2>6, <2>8 DEF v
<1>8. ASSUME OwnCell(x, k, cs, E) PROVE OwnCell(x, k, cs2, E2)
  <2> SUFFICES ASSUME NEW y \in Rows, NEW c \in CellsIn(k), Alone(x, k, y, c)
               PROVE  cs2[c].cnt \in (IF Taken(E2, y) THEN {x.net[y] - 1, x.net[y] + 1} ELSE {x.net[y]})
    BY DEF OwnCell
  <2>0. x.net[y] \in Int
    BY <1>0
  <2>1. cs[c].cnt \in (IF Taken(E, y) THEN {x.net[y] - 1, x.net[y] + 1} ELSE {x.net[y]})
    BY <1>8 DEF OwnCell
  <2>2. CASE y = r
    <3>1. cs[c].cnt = x.net[y] /\ Taken(E2, y)
      BY <1>1, <1>2, <2>1, <2>2
    <3>2. cs2[c].cnt = cs[c].cnt - sign
      BY <1>4, <2>2 DEF Alone
    <3>3. cs2[c].cnt \in {x.net[y] - 1, x.net[y] + 1}
      BY <2>0, <3>1, <3>2
    <3> QED BY <3>1, <3>3
  <2>3. CASE y # r
    <3>1. r \notin Own(x, k, c)
      <4>1. 0 % 2 # 1
        OBVIOUS
      <4>2. x.net[r] # 0
        BY <1>1, <4>1 DEF Odd
      <4> QED BY <2>3, <4>2 DEF Alone
    <3>2. cs2[c] = cs[c]
      BY <1>5, <3>1
    <3>3. Taken(E2, y) <=> Taken(E, y)
      BY <1>2, <2>3
    <3> QED BY <2>1, <3>2, <3>3
  <2> QED BY <2>2, <2>3
<1> QED BY <1>6, <1>7, <1>8 DEF cs2, E2

(* Nothing is left: every difference was taken, and taken as what it is.   *)
CopiesSeen(x, k) ==
  \A r \in Rows : x.net[r] \notin {-1, 0, 1} => \E c \in CellsIn(k) : Alone(x, k, r, c)

LEMMA PeelEnd ==
  ASSUME NEW x \in SampleType, NEW k \in Nat \ {0}, NEW cs, NEW E,
         Parity(x, k, cs, E), Counted(x, k, cs, E), OwnCell(x, k, cs, E),
         \A c \in CellsIn(k) : cs[c].cnt = 0 /\ cs[c].rows = {}
  PROVE  /\ CopiesSeen(x, k) => Small(x)
         /\ Small(x) => E = {EntryOf(x, r) : r \in {s \in Rows : x.net[s] # 0}}
<1>0. x.net \in [Rows -> Int]
  BY DEF SampleType
<1>1. ASSUME CopiesSeen(x, k), NEW r \in Rows PROVE x.net[r] \in {-1, 0, 1}
  <2> SUFFICES ASSUME x.net[r] \notin {-1, 0, 1} PROVE FALSE
    OBVIOUS
  <2>1. PICK c \in CellsIn(k) : Alone(x, k, r, c)
    BY <1>1 DEF CopiesSeen
  <2>2. 0 \in {x.net[r] - 1, x.net[r] + 1} \cup {x.net[r]}
    BY <2>1 DEF OwnCell
  <2>3. x.net[r] \in Int
    BY <1>0
  <2> QED BY <2>2, <2>3
<1>2. ASSUME Small(x) PROVE E = {EntryOf(x, r) : r \in {s \in Rows : x.net[s] # 0}}
  <2>1. ASSUME NEW e \in E PROVE \E r \in {s \in Rows : x.net[s] # 0} : e = EntryOf(x, r)
    <3>1. PICK r \in Rows : e = EntryOf(x, r)
      BY <1>2 DEF Counted
    <3>2. Taken(E, r)
      BY <3>1 DEF Taken, EntryOf
    <3>3. Odd(x, r) /\ 0 % 2 # 1
      BY <3>2 DEF Parity
    <3>4. x.net[r] # 0
      BY <3>3 DEF Odd
    <3> QED BY <3>1, <3>4
  <2>2. ASSUME NEW r \in Rows, x.net[r] # 0 PROVE EntryOf(x, r) \in E
    <3>1. 1 \in 1 .. Subtables
      BY IbltAssumption
    <3> DEFINE c == CellIn(x, k, {r}, 1)
    <3>2. c \in CellsIn(k) /\ c[1] = 1
      BY <3>1, CellOfRows
    <3>3. r \in Own(x, k, c)
      BY <3>2 DEF Own
    <3> HIDE DEF c
    <3>4. Odd(x, r)
      <4>1. x.net[r] \in {-1, 1}
        BY <1>2, <2>2 DEF Small
      <4>2. x.net[r] % 2 = 1
        BY <4>1
      <4> QED BY <4>2 DEF Odd
    <3>5. PICK e \in E : e.rows = {r}
      BY <3>2, <3>3, <3>4 DEF Parity, Taken
    <3>6. PICK y \in Rows : e = EntryOf(x, y)
      BY <1>2 DEF Counted
    <3>7. {y} = {r}
      BY <3>5, <3>6 DEF EntryOf
    <3>8. y = r
      BY <3>7
    <3> QED BY <3>6, <3>8
  <2> QED BY <2>1, <2>2
<1> QED BY <1>1, <1>2 DEF Small

(* The differences of two tables, as a report should name them.            *)
KeysOn(x, E, side) == {KeyIn(x, e.rows) : e \in {f \in E : f.left = side}}
Named3(l, r) ==
  [key : l \ r, status : {"missing_right"}] \cup [key : r \ l, status : {"missing_left"}]
    \cup [key : l \cap r, status : {"modified"}]
LeftKeys(x) == {x.key[r] : r \in {y \in Rows : x.net[y] > 0}}
RightKeys(x) == {x.key[r] : r \in {y \in Rows : x.net[y] < 0}}

LEMMA KeysTaken ==
  ASSUME NEW x \in SampleType, NEW E, E = {EntryOf(x, r) : r \in {s \in Rows : x.net[s] # 0}}
  PROVE  KeysOn(x, E, TRUE) = LeftKeys(x) /\ KeysOn(x, E, FALSE) = RightKeys(x)
<1>0. \A r \in Rows : x.net[r] \in Int /\ KeyIn(x, {r}) = x.key[r]
  BY OneKey DEF SampleType
<1>1. ASSUME NEW r \in Rows
      PROVE  /\ EntryOf(x, r).rows = {r}
             /\ x.net[r] > 0 => EntryOf(x, r).left = TRUE
             /\ ~(x.net[r] > 0) => EntryOf(x, r).left = FALSE
  <2>1. EntryOf(x, r).rows = {r} /\ EntryOf(x, r).left = (x.net[r] > 0)
    BY Zenon DEF EntryOf
  <2>2. CASE x.net[r] > 0
    <3>1. (x.net[r] > 0) = TRUE
      BY <2>2
    <3> QED BY <2>1, <2>2, <3>1
  <2>3. CASE ~(x.net[r] > 0)
    <3>1. (x.net[r] > 0) = FALSE
      BY <2>3
    <3> QED BY <2>1, <2>3, <3>1
  <2> QED BY <2>1, <2>2, <2>3
<1>2. ASSUME NEW r \in Rows
      PROVE  (x.net[r] > 0 => x.net[r] # 0) /\ (x.net[r] < 0 <=> x.net[r] # 0 /\ ~(x.net[r] > 0))
  <2> DEFINE n == x.net[r]
  <2>1. n \in Int
    BY <1>0
  <2> HIDE DEF n
  <2>2. (n > 0 => n # 0) /\ (n < 0 <=> n # 0 /\ ~(n > 0))
    BY <2>1
  <2> QED BY <2>2 DEF n
<1> DEFINE more == {y \in Rows : x.net[y] > 0}
           less == {y \in Rows : x.net[y] < 0}
           some == {y \in Rows : x.net[y] # 0}
<1>3. more \cup less = some /\ \A y \in some : y \in less <=> y \notin more
  BY <1>2
<1>4. \A y \in some : (y \in more => EntryOf(x, y).left = TRUE) /\ (y \in less => EntryOf(x, y).left = FALSE)
  BY <1>1, <1>2
<1>5. \A y \in some : KeyIn(x, EntryOf(x, y).rows) = x.key[y]
  BY <1>0, <1>1
<1>6. E = {EntryOf(x, y) : y \in some} /\ LeftKeys(x) = {x.key[y] : y \in more}
      /\ RightKeys(x) = {x.key[y] : y \in less}
  BY DEF LeftKeys, RightKeys
<1> HIDE DEF more, less, some
<1>7. \A f \in E : \E y \in some : f = EntryOf(x, y)
  BY <1>6
<1>8. \A y \in some : EntryOf(x, y) \in E
  BY <1>6
<1>9. ASSUME NEW v PROVE v \in KeysOn(x, E, TRUE) <=> v \in LeftKeys(x)
  <2>1. ASSUME NEW f \in E, f.left = TRUE, v = KeyIn(x, f.rows) PROVE v \in LeftKeys(x)
    <3>1. PICK y \in some : f = EntryOf(x, y)
      BY <1>7
    <3>2. y \in more
      BY <1>3, <1>4, <2>1, <3>1
    <3> QED BY <1>5, <1>6, <2>1, <3>1, <3>2
  <2>2. ASSUME NEW y \in more, v = x.key[y] PROVE v \in KeysOn(x, E, TRUE)
    <3>1. EntryOf(x, y) \in {f \in E : f.left = TRUE} /\ KeyIn(x, EntryOf(x, y).rows) = v
      BY <1>3, <1>4, <1>5, <1>8, <2>2
    <3> QED BY <3>1 DEF KeysOn
  <2> QED BY <1>6, <2>1, <2>2 DEF KeysOn
<1>10. ASSUME NEW v PROVE v \in KeysOn(x, E, FALSE) <=> v \in RightKeys(x)
  <2>1. ASSUME NEW f \in E, f.left = FALSE, v = KeyIn(x, f.rows) PROVE v \in RightKeys(x)
    <3>1. PICK y \in some : f = EntryOf(x, y)
      BY <1>7
    <3>2. y \in less
      BY <1>3, <1>4, <2>1, <3>1
    <3> QED BY <1>5, <1>6, <2>1, <3>1, <3>2
  <2>2. ASSUME NEW y \in less, v = x.key[y] PROVE v \in KeysOn(x, E, FALSE)
    <3>1. EntryOf(x, y) \in {f \in E : f.left = FALSE} /\ KeyIn(x, EntryOf(x, y).rows) = v
      BY <1>3, <1>4, <1>5, <1>8, <2>2
    <3> QED BY <3>1 DEF KeysOn
  <2> QED BY <1>6, <2>1, <2>2 DEF KeysOn
<1> QED BY <1>9, <1>10 DEF KeysOn, LeftKeys, RightKeys

LEMMA SummaryNames ==
  /\ Classified = Named3(KeysOn(sample, entries, TRUE), KeysOn(sample, entries, FALSE))
  /\ Truth = Named3(LeftKeys(sample), RightKeys(sample))
<1>1. \A side : Keys(side) = KeysOn(sample, entries, side)
  BY DEF Keys, KeysOn, KeyXor, KeyIn
<1>2. Classified = Named3(KeysOn(sample, entries, TRUE), KeysOn(sample, entries, FALSE))
  BY <1>1 DEF Classified, Named3
<1>3. Truth = Named3(LeftKeys(sample), RightKeys(sample))
  BY DEF Truth, Named3, LeftKeys, RightKeys
<1> QED BY <1>2, <1>3

LEMMA CellsFinite == ASSUME NEW k \in Nat PROVE IsFiniteSet(CellsIn(k))
<1>1. Subtables \in Int /\ k - 1 \in Int
  BY IbltAssumption
<1>2. IsFiniteSet(1 .. Subtables) /\ IsFiniteSet(0 .. k - 1)
  BY <1>1, FS_Interval
<1> QED BY <1>2, FS_Product DEF CellsIn

(* The capacity of the second round is a number of cells. *)
LEMMA LoadInt == ASSUME NEW d, IsFiniteSet(Cells), \A c \in Cells : d[c].cnt \in Int PROVE Load(d) \in Int
<1> DEFINE w == [c \in Cells |-> Abs(d[c].cnt)]
           Of(f) == f = [s \in SUBSET Cells |-> IF s = {} THEN 0 ELSE Abs(d[Pick(s)].cnt) + f[s \ {Pick(s)}]]
<1>1. \A c \in Cells : w[c] \in Int /\ w[c] = Abs(d[c].cnt)
  BY DEF Abs
<1> HIDE DEF w
<1>2. ASSUME NEW f PROVE Of(f) <=> Sums(f, w, Cells)
  <2>1. \A s \in SUBSET Cells : s # {} => w[Pick(s)] = Abs(d[Pick(s)].cnt)
    BY <1>1, PickIn
  <2>2. [s \in SUBSET Cells |-> IF s = {} THEN 0 ELSE Abs(d[Pick(s)].cnt) + f[s \ {Pick(s)}]]
          = [s \in SUBSET Cells |-> IF s = {} THEN 0 ELSE w[Pick(s)] + f[s \ {Pick(s)}]]
    BY <2>1
  <2> QED BY <2>2 DEF Sums
<1>3. PICK f : Sums(f, w, Cells)
  BY <1>1, SumsExist
<1>4. \E h : Of(h)
  BY <1>2, <1>3
<1>5. \E g : Of(g) /\ Load(d) = g[Cells]
  BY <1>4 DEF Load, MapThenSumSet, MapThenFoldSet, Pick
<1>6. PICK g : Sums(g, w, Cells) /\ Load(d) = g[Cells]
  BY <1>2, <1>5
<1>7. Cells \in SUBSET Cells
  OBVIOUS
<1>8. Total(w, Cells) = g[Cells]
  BY <1>1, <1>6, <1>7, TotalIs
<1>9. Total(w, Cells) \in Int
  BY <1>1, TotalInt
<1> QED BY <1>6, <1>8, <1>9

LEMMA NextCellsType ==
  ASSUME sample \in SampleType, m \in Nat \ {0}
  PROVE  NextCells \in Nat \ {0}
<1>1. Cells = CellsIn(m) /\ Difference = DiffIn(sample, m)
  BY SummaryRead
<1>2. ASSUME NEW c \in Cells PROVE Difference[c].cnt \in Int
  <2>1. Difference[c].cnt = Total(sample.net, Own(sample, m, c))
    BY <1>1 DEF DiffIn
  <2>2. \A r \in Rows : sample.net[r] \in Int
    BY DEF SampleType
  <2>3. IsFiniteSet(Own(sample, m, c)) /\ Own(sample, m, c) \subseteq Rows
    BY OwnFinite
  <2> QED BY <2>1, <2>2, <2>3, TotalInt
<1>3. IsFiniteSet(Cells)
  BY <1>1, CellsFinite
<1>4. Load(Difference) \in Int
  BY <1>2, <1>3, LoadInt
<1> DEFINE n == 3 * ((Load(Difference) + 1) \div 2)
<1>5. n \in Int
  BY <1>4
<1>6. AutoMin \in Nat \ {0} /\ AutoMax \in Nat \ {0}
  BY IbltAssumption
<1> HIDE DEF n
<1>7. Max({AutoMin, n}) \in Nat \ {0}
  BY <1>5, <1>6, MaxOfTwo
<1>8. Min({AutoMax, Max({AutoMin, n})}) \in Nat \ {0}
  BY <1>6, <1>7, MinOfTwo
<1> QED BY <1>8 DEF NextCells, Clamp, n

(* The queue holds cells. *)
Queues(f, waiting, path, left) ==
  f = [s \in SUBSET DOMAIN path |->
         IF s = {} THEN waiting
         ELSE IF Pure(left[path[Max(s)]]) THEN Append(f[s \ {Max(s)}], path[Max(s)])
                                          ELSE f[s \ {Max(s)}]]

LEMMA QueuedCells ==
  ASSUME NEW CS, NEW n \in Nat, NEW path \in [1 .. n -> CS], NEW left, NEW waiting \in Seq(CS)
  PROVE  Queued(waiting, path, left) \in Seq(CS)
<1> DEFINE Values == Seq(CS)
           Grown(q, i) == IF Pure(left[path[i]]) THEN Append(q, path[i]) ELSE q
           g == [i \in 1 .. n |-> [q \in Values |-> Grown(q, i)]]
<1>1. DOMAIN path = 1 .. n /\ \A i \in 1 .. n : path[i] \in CS
  OBVIOUS
<1>2. \A i \in 1 .. n : \A q \in Values : Grown(q, i) \in Values
  BY <1>1
<1> HIDE DEF Values, Grown
<1>3. g \in [1 .. n -> [Values -> Values]]
  BY <1>2
<1>4. waiting \in Values
  BY DEF Values
<1>5. PICK f \in [SUBSET (1 .. n) -> Values] : FoldsInOrder(f, n, waiting, g)
  <2> HIDE DEF g
  <2> QED BY <1>3, <1>4, FoldsUpto
<1>6. ASSUME NEW s \in SUBSET (1 .. n)
      PROVE  f[s] = IF s = {} THEN waiting ELSE Grown(f[s \ {Max(s)}], Max(s))
  <2>1. f[s] = IF s = {} THEN waiting ELSE g[Max(s)][f[s \ {Max(s)}]]
    BY <1>5 DEF FoldsInOrder
  <2>2. s # {} => Max(s) \in 1 .. n /\ f[s \ {Max(s)}] \in Values
    BY <1>5, MaxUpto
  <2> QED BY <2>1, <2>2
<1>7. Queues(f, waiting, path, left)
  <2>1. f = [s \in SUBSET (1 .. n) |-> IF s = {} THEN waiting ELSE Grown(f[s \ {Max(s)}], Max(s))]
    BY <1>5, <1>6
  <2> QED BY <1>1, <2>1 DEF Queues, Grown
<1>8. Queued(waiting, path, left) = (CHOOSE h : Queues(h, waiting, path, left))[DOMAIN path]
  BY DEF Queued, FoldLeft, MapThenFoldSet, Queues
<1>9. PICK h : Queues(h, waiting, path, left) /\ Queued(waiting, path, left) = h[DOMAIN path]
  BY <1>7, <1>8
<1> DEFINE Good == {i \in 0 .. n : h[1 .. i] \in Values}
<1>10. 0 \in Good
  <2>1. 1 .. 0 = {} /\ {} \in SUBSET DOMAIN path
    OBVIOUS
  <2>2. h[{}] = waiting
    BY <1>9, <2>1 DEF Queues
  <2> QED BY <1>4, <2>1, <2>2
<1>11. ASSUME NEW i \in 1 .. n, i - 1 \in Good PROVE i \in Good
  <2>1. Max(1 .. i) = i /\ (1 .. i) \ {i} = 1 .. i - 1 /\ 1 .. i \in SUBSET DOMAIN path /\ 1 .. i # {}
    BY <1>1, PrefixMax
  <2>2. h[1 .. i] = IF Pure(left[path[i]]) THEN Append(h[1 .. i - 1], path[i]) ELSE h[1 .. i - 1]
    <3> DEFINE S == 1 .. i
               R == 1 .. i - 1
    <3>1. Max(S) = i /\ S \ {i} = R /\ S \in SUBSET DOMAIN path /\ S # {}
      BY <2>1
    <3> HIDE DEF S, R
    <3>2. h[S] = IF Pure(left[path[i]]) THEN Append(h[R], path[i]) ELSE h[R]
      BY <1>9, <3>1 DEF Queues
    <3> QED BY <3>2 DEF S, R
  <2>3. h[1 .. i] = Grown(h[1 .. i - 1], i)
    BY <2>2 DEF Grown
  <2>4. h[1 .. i - 1] \in Values
    BY <1>11
  <2>5. i \in 0 .. n
    OBVIOUS
  <2> QED BY <1>2, <2>3, <2>4, <2>5
<1> HIDE DEF Good
<1>12. n \in Good
  <2>1. \A i \in 0 .. n : i \in Good
    BY <1>10, <1>11, UptoInduction
  <2> QED BY <2>1
<1> QED BY <1>1, <1>9, <1>12 DEF Good, Values

(* Keyless counts: each row has a key of its own among those that differ. *)
OneRowPerKey(x) ==
  \A r, s \in Rows : x.net[r] # 0 /\ x.net[s] # 0 /\ x.key[r] = x.key[s] => r = s

NamedOf(x, S, status) == [key : {x.key[r] : r \in S}, status : {status}]

LEMMA CountedByKey ==
  ASSUME NEW x, NEW S \in SUBSET Rows, NEW status,
         \A r, s \in S : x.key[r] = x.key[s] => r = s
  PROVE  Cardinality(NamedOf(x, S, status)) = Cardinality(S)
<1> DEFINE T == NamedOf(x, S, status)
           f == [r \in S |-> [key |-> x.key[r], status |-> status]]
<1>1. f \in [S -> T] /\ \A r \in S : f[r].key = x.key[r]
  BY DEF NamedOf
<1>2. \A d \in T : \E r \in S : f[r] = d
  BY DEF NamedOf
<1> HIDE DEF f, T
<1>3. \A r, s \in S : f[r] = f[s] => r = s
  BY <1>1
<1>4. f \in Bijection(S, T)
  BY <1>1, <1>2, <1>3 DEF Bijection, Injection, IsInjective, Surjection
<1>5. ExistsBijection(S, T)
  BY <1>4 DEF ExistsBijection
<1>6. IsFiniteSet(S)
  BY IbltAssumption, FS_Subset
<1> QED BY <1>5, <1>6, FS_Bijection DEF T

LEMMA TruthCounted ==
  ASSUME NEW x \in SampleType, OneRowPerKey(x), NEW diffs, diffs = Named3(LeftKeys(x), RightKeys(x))
  PROVE  /\ \A d \in diffs : d.status # "modified"
         /\ Cardinality({d \in diffs : d.status = "missing_right"})
              = Cardinality({r \in Rows : x.net[r] > 0})
         /\ Cardinality({d \in diffs : d.status = "missing_left"})
              = Cardinality({r \in Rows : x.net[r] < 0})
<1> DEFINE more == {r \in Rows : x.net[r] > 0}
           less == {r \in Rows : x.net[r] < 0}
<1>1. ASSUME NEW r \in more, NEW s \in less PROVE r \in Rows /\ s \in Rows /\ x.net[r] # 0 /\ x.net[s] # 0 /\ r # s
  <2>1. x.net[r] \in Int /\ x.net[s] \in Int /\ x.net[r] > 0 /\ x.net[s] < 0 /\ r \in Rows /\ s \in Rows
    BY DEF SampleType
  <2>2. x.net[r] # 0 /\ x.net[s] # 0 /\ ~(x.net[r] < 0)
    BY <2>1
  <2> QED BY <2>1, <2>2
<1>2. \A r \in more \cup less : r \in Rows /\ x.net[r] # 0
  BY DEF SampleType
<1>3. LeftKeys(x) = {x.key[r] : r \in more} /\ RightKeys(x) = {x.key[r] : r \in less}
  BY DEF LeftKeys, RightKeys
<1>4. more \in SUBSET Rows /\ less \in SUBSET Rows
  OBVIOUS
<1> HIDE DEF more, less
<1>5. LeftKeys(x) \cap RightKeys(x) = {}
  BY <1>1, <1>3 DEF OneRowPerKey
<1>6. diffs = [key : LeftKeys(x), status : {"missing_right"}]
                \cup [key : RightKeys(x), status : {"missing_left"}]
  BY <1>5 DEF Named3
<1>7. {d \in diffs : d.status = "missing_right"} = [key : LeftKeys(x), status : {"missing_right"}]
  BY <1>6
<1>8. {d \in diffs : d.status = "missing_left"} = [key : RightKeys(x), status : {"missing_left"}]
  BY <1>6
<1>9. \A r, s \in more : x.key[r] = x.key[s] => r = s
  BY <1>2 DEF OneRowPerKey
<1>10. \A r, s \in less : x.key[r] = x.key[s] => r = s
  BY <1>2 DEF OneRowPerKey
<1>11. \A d \in diffs : d.status # "modified"
  BY <1>6
<1>12. Cardinality({d \in diffs : d.status = "missing_right"}) = Cardinality(more)
  <2>1. Cardinality(NamedOf(x, more, "missing_right")) = Cardinality(more)
    BY <1>4, <1>9, CountedByKey
  <2> QED BY <1>3, <1>7, <2>1 DEF NamedOf
<1>13. Cardinality({d \in diffs : d.status = "missing_left"}) = Cardinality(less)
  <2>1. Cardinality(NamedOf(x, less, "missing_left")) = Cardinality(less)
    BY <1>4, <1>10, CountedByKey
  <2> QED BY <1>3, <1>8, <2>1 DEF NamedOf
<1> QED BY <1>11, <1>12, <1>13 DEF more, less

Peeled(x, k, cs, E) == Parity(x, k, cs, E) /\ Counted(x, k, cs, E) /\ OwnCell(x, k, cs, E)

Peeling ==
  pc = "peel" =>
    /\ first \subseteq CellsIn(m) /\ queue \in Seq(CellsIn(m))
    /\ Single(entries) => Peeled(sample, m, cells, entries)
    /\ KeysApart(sample, entries, repeated)

Telling ==
  /\ pc # "done" => outcome = "none"
  /\ (pc = "decoded" \/ outcome = "report") /\ Single(entries)
       /\ (mode.keyed \/ CopiesSeen(sample, m)) =>
         found = Named3(LeftKeys(sample), RightKeys(sample)) /\ (mode.keyed \/ OneRowPerKey(sample))

Sampled ==
  /\ sample \in SampleType /\ mode \in ModeType /\ m \in Nat \ {0}
  /\ mode.keyed => Small(sample)

IbltInv == Sampled /\ Peeling /\ Telling

LEMMA IbltStart == InitIblt => IbltInv
<1> SUFFICES ASSUME InitIblt PROVE IbltInv
  OBVIOUS
<1> USE DEF InitIblt
<1>1. sample \in SampleType /\ mode \in ModeType
  BY IbltAssumption
<1>2. m \in Nat \ {0}
  BY IbltAssumption
<1>3. mode.keyed => Small(sample)
  BY DEF WellKeyed, Small
<1>4. Peeling /\ Telling
  BY DEF Peeling, Telling
<1> QED BY <1>1, <1>2, <1>3, <1>4 DEF IbltInv, Sampled

LEMMA SummarizeKeeps == ASSUME IbltInv, Summarize PROVE IbltInv'
<1> USE DEF Summarize
<1>1. Sampled'
  BY DEF IbltInv, Sampled
<1>2. Cells = CellsIn(m) /\ Difference = DiffIn(sample, m)
  BY SummaryRead
<1>3. first' \subseteq CellsIn(m') /\ queue' \in Seq(CellsIn(m'))
  BY <1>2
<1>4. Peeled(sample', m', cells', entries')
  <2>1. Peeled(sample, m, DiffIn(sample, m), {})
    BY PeelStarts DEF Peeled, IbltInv, Sampled
  <2> QED BY <1>2, <2>1
<1>5. KeysApart(sample', entries', repeated')
  BY DEF KeysApart
<1>6. Peeling'
  BY <1>3, <1>4, <1>5 DEF Peeling
<1>7. Telling'
  BY DEF IbltInv, Telling
<1> QED BY <1>1, <1>6, <1>7 DEF IbltInv

LEMMA EventCell ==
  ASSUME IbltInv, pc = "peel", NEW c \in Events
  PROVE  c \in CellsIn(m) /\ Rest \in Seq(CellsIn(m))
<1>1. first \subseteq CellsIn(m) /\ queue \in Seq(CellsIn(m))
  BY DEF IbltInv, Peeling
<1>2. CASE first # {}
  BY <1>1, <1>2 DEF Events, Rest
<1>3. CASE first = {}
  <2>1. 1 \in DOMAIN queue /\ c = queue[1]
    BY <1>3 DEF Events
  <2>2. queue # <<>>
    BY <2>1
  <2> QED BY <1>1, <1>3, <2>1, <2>2 DEF Rest
<1> QED BY <1>2, <1>3

LEMMA NotPureKeeps == ASSUME IbltInv, NotPure PROVE IbltInv'
<1> USE DEF NotPure
<1>1. PICK c \in Events : Take(c) /\ queue' = Rest
  OBVIOUS
<1>2. c \in CellsIn(m) /\ Rest \in Seq(CellsIn(m))
  BY <1>1, EventCell
<1>3. Sampled'
  BY DEF IbltInv, Sampled
<1>4. first' \subseteq CellsIn(m')
  BY <1>1 DEF Take, IbltInv, Peeling
<1>5. Peeling'
  BY <1>1, <1>2, <1>4 DEF IbltInv, Peeling
<1>6. Telling'
  BY DEF IbltInv, Telling
<1> QED BY <1>3, <1>5, <1>6 DEF IbltInv

LEMMA PeelStep == ASSUME IbltInv, Peel PROVE IbltInv'
<1> USE DEF Peel
<1> DEFINE path(c) == [j \in 1 .. Subtables |-> CellOf(cells[c].rows, j)]
           entry(c) == [rows |-> cells[c].rows, left |-> cells[c].cnt > 0]
           left(c) == [d \in Cells |->
             IF d = path(c)[d[1]]
               THEN [cnt |-> cells[d].cnt - cells[c].cnt,
                     rows |-> (cells[d].rows \ cells[c].rows) \cup (cells[c].rows \ cells[d].rows)]
               ELSE cells[d]]
<1>1. PICK c \in Events :
        /\ Pure(cells[c]) /\ cells' = left(c) /\ Take(c)
        /\ queue' = Queued(Rest, path(c), left(c))
        /\ entries' = entries \cup {entry(c)}
        /\ repeated' = (repeated \/ Repeats(entry(c)))
  OBVIOUS
<1>0. pc = "peel" /\ pc' = "peel" /\ m' = m /\ sample' = sample /\ mode' = mode
  OBVIOUS
<1>2. c \in CellsIn(m) /\ Rest \in Seq(CellsIn(m))
  BY <1>0, EventCell
<1>3. sample \in SampleType /\ m \in Nat \ {0}
  BY DEF IbltInv, Sampled
<1>4. Sampled'
  BY DEF IbltInv, Sampled
<1>5. first' \subseteq CellsIn(m')
  BY <1>0, <1>1 DEF Take, IbltInv, Peeling
<1>6. Cells = CellsIn(m) /\ \A rs, j : CellOf(rs, j) = CellIn(sample, m, rs, j)
  BY SummaryRead
<1>7. queue' \in Seq(CellsIn(m'))
  <2>1. path(c) \in [1 .. Subtables -> CellsIn(m)]
    BY <1>3, <1>6, CellOfRows
  <2>2. Subtables \in Nat
    BY IbltAssumption
  <2> HIDE DEF path, left
  <2>3. Queued(Rest, path(c), left(c)) \in Seq(CellsIn(m))
    BY <1>2, <2>1, <2>2, QueuedCells
  <2> QED BY <1>0, <1>1, <2>3
<1>8. ASSUME Single(entries') PROVE Peeled(sample', m', cells', entries')
  <2>1. PICK r \in Rows : cells[c].rows = {r}
    <3>1. entry(c) \in entries' /\ entry(c).rows = cells[c].rows
      BY <1>1
    <3> QED BY <1>8, <3>1 DEF Single
  <2>2. Single(entries)
    BY <1>1, <1>8 DEF Single
  <2>3. Peeled(sample, m, cells, entries)
    BY <1>0, <2>2 DEF IbltInv, Peeling
  <2>4. cells[c].cnt \in {-1, 1}
    BY <1>1 DEF Pure
  <2>5. left(c) = TakenOut(sample, m, cells, r, cells[c].cnt)
    <3>1. ASSUME NEW d \in CellsIn(m) PROVE path(c)[d[1]] = CellIn(sample, m, {r}, d[1])
      <4>1. d[1] \in 1 .. Subtables
        BY DEF CellsIn
      <4> QED BY <1>6, <2>1, <4>1
    <3> HIDE DEF path
    <3>2. ASSUME NEW d \in CellsIn(m)
          PROVE  left(c)[d] = TakenOut(sample, m, cells, r, cells[c].cnt)[d]
      BY <1>6, <2>1, <3>1 DEF TakenOut
    <3>3. /\ left(c) = [d \in CellsIn(m) |-> left(c)[d]]
          /\ TakenOut(sample, m, cells, r, cells[c].cnt)
               = [d \in CellsIn(m) |-> TakenOut(sample, m, cells, r, cells[c].cnt)[d]]
      BY <1>6 DEF TakenOut
    <3> HIDE DEF left
    <3> QED BY <3>2, <3>3
  <2>6. entry(c) = [rows |-> {r}, left |-> cells[c].cnt > 0]
    BY <2>1
  <2> HIDE DEF entry, left
  <2>7. LET cs2 == TakenOut(sample, m, cells, r, cells[c].cnt)
            E2 == entries \cup {[rows |-> {r}, left |-> cells[c].cnt > 0]}
        IN  Peeled(sample, m, cs2, E2)
    BY <1>2, <1>3, <2>1, <2>3, <2>4, PeelKeeps DEF Peeled
  <2>8. Peeled(sample, m, left(c), entries \cup {entry(c)})
    BY <2>5, <2>6, <2>7
  <2> QED BY <1>0, <1>1, <2>8
<1>9. KeysApart(sample', entries', repeated')
  <2> DEFINE e == entry(c)
  <2>1. entries' = entries \cup {e} /\ (repeated' = (repeated \/ Repeats(e)))
    BY <1>1
  <2> HIDE DEF e
  <2>2. KeysApart(sample, entries, repeated)
    BY <1>0 DEF IbltInv, Peeling
  <2>3. \A rs : KeyXor(rs) = KeyIn(sample, rs)
    BY SummaryRead
  <2>4. ASSUME ~repeated' PROVE \A f, g \in entries' : KeyIn(sample, f.rows) = KeyIn(sample, g.rows) => f = g
    <3>1. ~repeated /\ ~Repeats(e)
      BY <2>1, <2>4
    <3>2. \A f \in entries : KeyIn(sample, f.rows) # KeyIn(sample, e.rows)
      BY <2>3, <3>1 DEF Repeats
    <3>3. \A f, g \in entries : KeyIn(sample, f.rows) = KeyIn(sample, g.rows) => f = g
      BY <2>2, <3>1 DEF KeysApart
    <3> QED BY <2>1, <3>2, <3>3
  <2> QED BY <1>0, <2>4 DEF KeysApart
<1>10. Peeling'
  BY <1>5, <1>7, <1>8, <1>9 DEF Peeling
<1>11. Telling'
  BY <1>0 DEF IbltInv, Telling
<1> QED BY <1>4, <1>10, <1>11 DEF IbltInv

LEMMA GiveUpKeeps == ASSUME IbltInv, GiveUp PROVE IbltInv'
<1>1. outcome' # "report" /\ pc' = "done"
  BY DEF GiveUp, IbltInv, Sampled, ModeType
<1>2. Sampled'
  BY DEF GiveUp, IbltInv, Sampled
<1> QED BY <1>1, <1>2 DEF IbltInv, Peeling, Telling

LEMMA SecondRoundKeeps == ASSUME IbltInv, SecondRound PROVE IbltInv'
<1> USE DEF SecondRound
<1>1. sample \in SampleType /\ m \in Nat \ {0}
  BY DEF IbltInv, Sampled
<1>2. NextCells \in Nat \ {0}
  BY <1>1, NextCellsType
<1>3. Sampled'
  BY <1>2 DEF IbltInv, Sampled
<1>4. pc = "peel" /\ pc' = "sum" /\ outcome' = outcome
  BY DEF PeelFails
<1> QED BY <1>3, <1>4 DEF IbltInv, Peeling, Telling

LEMMA DecodedKeeps == ASSUME IbltInv, Decoded PROVE IbltInv'
<1> USE DEF Decoded
<1>0. /\ pc = "peel" /\ pc' = "decoded" /\ outcome' = outcome /\ sample' = sample /\ mode' = mode
      /\ m' = m /\ entries' = entries /\ found' = Classified /\ (mode.keyed \/ ~repeated)
  OBVIOUS
<1>1. Sampled'
  BY <1>0 DEF IbltInv, Sampled
<1>2. sample \in SampleType /\ m \in Nat \ {0} /\ (mode.keyed => Small(sample))
  BY DEF IbltInv, Sampled
<1>3. ASSUME Single(entries), mode.keyed \/ CopiesSeen(sample, m)
      PROVE  Classified = Named3(LeftKeys(sample), RightKeys(sample)) /\ (mode.keyed \/ OneRowPerKey(sample))
  <2>1. Peeled(sample, m, cells, entries) /\ KeysApart(sample, entries, repeated)
    BY <1>0, <1>3 DEF IbltInv, Peeling
  <2>2. \A c \in CellsIn(m) : cells[c].cnt = 0 /\ cells[c].rows = {}
    <3>1. \A c \in CellsIn(m) : cells[c] = Zero
      BY SummaryRead DEF Leftover
    <3> QED BY <3>1 DEF Zero
  <2>3. Small(sample)
    BY <1>2, <1>3, <2>1, <2>2, PeelEnd DEF Peeled
  <2>4. entries = {EntryOf(sample, r) : r \in {s \in Rows : sample.net[s] # 0}}
    BY <1>2, <2>1, <2>2, <2>3, PeelEnd DEF Peeled
  <2>5. KeysOn(sample, entries, TRUE) = LeftKeys(sample) /\ KeysOn(sample, entries, FALSE) = RightKeys(sample)
    BY <1>2, <2>4, KeysTaken
  <2>6. Classified = Named3(LeftKeys(sample), RightKeys(sample))
    BY <2>5, SummaryNames
  <2>7. ASSUME ~mode.keyed, NEW r \in Rows, NEW s \in Rows, sample.net[r] # 0, sample.net[s] # 0,
               sample.key[r] = sample.key[s]
        PROVE  r = s
    <3>1. EntryOf(sample, r) \in entries /\ EntryOf(sample, s) \in entries
      BY <2>4, <2>7
    <3>2. KeyIn(sample, {r}) = KeyIn(sample, {s})
      BY <1>2, <2>7, OneKey
    <3>3. EntryOf(sample, r).rows = {r} /\ EntryOf(sample, s).rows = {s}
      BY DEF EntryOf
    <3>4. EntryOf(sample, r) = EntryOf(sample, s)
      BY <1>0, <2>1, <2>7, <3>1, <3>2, <3>3 DEF KeysApart
    <3>5. {r} = {s}
      BY <3>3, <3>4
    <3> QED BY <3>5
  <2> QED BY <2>6, <2>7 DEF OneRowPerKey
<1>4. Telling'
  BY <1>0, <1>3 DEF IbltInv, Telling
<1>5. Peeling'
  BY <1>0 DEF Peeling
<1> QED BY <1>1, <1>4, <1>5 DEF IbltInv

LEMMA ReportKeeps == ASSUME IbltInv, Report PROVE IbltInv'
<1> USE DEF Report
<1>0. /\ pc = "decoded" /\ pc' = "done" /\ sample' = sample /\ mode' = mode
      /\ m' = m /\ entries' = entries
      /\ found' = IF mode.keyed /\ mode.recheck THEN Rechecked ELSE found
  OBVIOUS
<1>1. Sampled'
  BY <1>0 DEF IbltInv, Sampled
<1>2. ASSUME found = Named3(LeftKeys(sample), RightKeys(sample)) PROVE Rechecked = found
  <2>1. ASSUME NEW d \in found PROVE Holders(d.key) # {}
    <3>1. d.key \in LeftKeys(sample) \cup RightKeys(sample)
      BY <1>2 DEF Named3
    <3>2. PICK r \in Rows : d.key = sample.key[r] /\ (sample.net[r] > 0 \/ sample.net[r] < 0)
      BY <3>1 DEF LeftKeys, RightKeys
    <3>3. sample.net[r] \in Int
      BY DEF IbltInv, Sampled, SampleType
    <3>4. r \in Holders(d.key)
      BY <3>2, <3>3 DEF Holders
    <3> QED BY <3>4
  <2> QED BY <2>1 DEF Rechecked
<1>3. Telling'
  BY <1>0, <1>2 DEF IbltInv, Telling
<1>4. Peeling'
  BY <1>0 DEF Peeling
<1> QED BY <1>1, <1>3, <1>4 DEF IbltInv

LEMMA IbltStep == IbltInv /\ [NextIblt]_ibltVars => IbltInv'
<1> SUFFICES ASSUME IbltInv, [NextIblt]_ibltVars PROVE IbltInv'
  OBVIOUS
<1>1. CASE UNCHANGED ibltVars
  BY <1>1 DEF ibltVars, IbltInv, Sampled, Peeling, Telling
<1>2. CASE Summarize
  BY <1>2, SummarizeKeeps
<1>3. CASE StatementFails \/ CapacityExceeded \/ PrefixCollision
  BY <1>3, GiveUpKeeps DEF StatementFails, CapacityExceeded, PrefixCollision
<1>4. CASE NotPure
  BY <1>4, NotPureKeeps
<1>5. CASE Peel
  BY <1>5, PeelStep
<1>6. CASE SecondRound
  BY <1>6, SecondRoundKeeps
<1>7. CASE Decoded
  BY <1>7, DecodedKeeps
<1>8. CASE Report
  BY <1>8, ReportKeeps
<1> QED BY <1>1, <1>2, <1>3, <1>4, <1>5, <1>6, <1>7, <1>8 DEF NextIblt

LEMMA IbltInvariant == SpecIblt => []IbltInv
BY IbltStart, IbltStep, PTL DEF SpecIblt

(* No entry was made up: each one that was decoded is one row.             *)
Unmixed == \A e \in entries : \E r \in Rows : e.rows = {r}

(* A content of which one side has several more copies has a cell in which *)
(* it is the only difference.                                              *)
CopiesAlone ==
  \A r \in Rows : sample.net[r] \notin {-1, 0, 1} =>
    \E c \in Cells : /\ CellOf({r}, c[1]) = c
                     /\ \A s \in Rows \ {r} : CellOf({s}, c[1]) = c => sample.net[s] = 0

(* A decoding that made up no entry is exact, checked again or not: the    *)
(* report names each key the tables differ in, with the way they differ,   *)
(* and no other (iblt_diff.rs:451-546).                                    *)
THEOREM DecodedExact == SpecIblt => [](Unmixed => NoMisdecode)
<1>1. IbltInv => (Unmixed => NoMisdecode)
  BY SummaryNames DEF IbltInv, Telling, Unmixed, Single, NoMisdecode
<1> QED BY <1>1, IbltInvariant, PTL

(* A keyed report misses no difference, for any rows, hashes, capacities   *)
(* and orders of peeling, unless a mixed cell passed the bucket check      *)
(* (iblt_diff.rs:451-513, 325-345).                                        *)
THEOREM DecodingMissesNothing == SpecIblt => [](Unmixed => NothingMissed)
<1>1. ASSUME IbltInv PROVE Unmixed => NothingMissed
  <2>1. Unmixed /\ outcome = "report" /\ mode.keyed => found = Truth
    BY <1>1, SummaryNames DEF IbltInv, Telling, Unmixed, Single
  <2> QED BY <2>1 DEF NothingMissed
<1>2. IbltInv => (Unmixed => NothingMissed)
  BY <1>1
<1> QED BY <1>2, IbltInvariant, PTL

(* The counts of a keyless report are exact if no entry was made up and    *)
(* contents with several copies to spare do not hide each other: then such *)
(* a content is never decoded, and two with one prefix are noticed         *)
(* (iblt_diff.rs:555-600, bucket_diff.rs:1173-1212).                       *)
THEOREM KeylessDecodingExact == SpecIblt => [](Unmixed /\ CopiesAlone => KeylessExact)
<1>1. ASSUME IbltInv PROVE Unmixed /\ CopiesAlone => KeylessExact
  <2> SUFFICES ASSUME Unmixed, CopiesAlone, outcome = "report", ~mode.keyed PROVE KeylessExact
    BY DEF KeylessExact
  <2>1. CopiesSeen(sample, m)
    <3>1. Cells = CellsIn(m) /\ \A rs, j : CellOf(rs, j) = CellIn(sample, m, rs, j)
      BY SummaryRead
    <3>2. ASSUME NEW r \in Rows, sample.net[r] \notin {-1, 0, 1}
          PROVE  \E c \in CellsIn(m) : Alone(sample, m, r, c)
      <4>1. PICK c \in Cells : /\ CellOf({r}, c[1]) = c
                               /\ \A s \in Rows \ {r} : CellOf({s}, c[1]) = c => sample.net[s] = 0
        BY <3>2 DEF CopiesAlone
      <4>2. Alone(sample, m, r, c)
        BY <3>1, <4>1 DEF Alone, Own
      <4> QED BY <3>1, <4>1, <4>2
    <3> QED BY <3>2 DEF CopiesSeen
  <2>2. found = Named3(LeftKeys(sample), RightKeys(sample)) /\ OneRowPerKey(sample)
    BY <1>1, <2>1 DEF IbltInv, Telling, Unmixed, Single
  <2>3. sample \in SampleType
    BY <1>1 DEF IbltInv, Sampled
  <2> QED BY <2>2, <2>3, TruthCounted DEF KeylessExact
<1>2. IbltInv => (Unmixed /\ CopiesAlone => KeylessExact)
  BY <1>1
<1> QED BY <1>2, IbltInvariant, PTL
=================================================================================
