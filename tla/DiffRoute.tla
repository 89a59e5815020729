------------------------------ MODULE DiffRoute ------------------------------
(***************************************************************************)
(* From two tables' metadata to the strategy that compares them: the key   *)
(* each side's plan takes (metadata.rs), the 1:1 correspondence of column  *)
(* names across dialects (pairing.rs) and the strategy routed to           *)
(* (engine.rs).                                                            *)
(*                                                                         *)
(* A name is a record [id, case]: equal records are the same spelling,     *)
(* equal ids are equal without regard to ASCII case.                       *)
(***************************************************************************)
EXTENDS Naturals, Sequences, FiniteSetsExt, SequencesExt

SameButCase(a, b) == a.id = b.id

------------------------------------------------------------------------------
(* Name lookup and pairing.                                                *)

None == 0

(* Position in `names' of the exact spelling, else of the only one that    *)
(* differs in case, else None.                                             *)
FindUniqueCi(names, name) ==
  LET exact == {i \in DOMAIN names : names[i] = name}
      folded == {i \in DOMAIN names : SameButCase(names[i], name)}
  IN  CASE exact # {} -> Min(exact)
        [] exact = {} /\ Cardinality(folded) = 1 -> Min(folded)
        [] OTHER -> None

Free(right, pairs) == {j \in DOMAIN right : \A p \in pairs : p[2] # j}

(* First pass: exact spellings, in left order, each to the first free one. *)
ExactPairs(left, right) ==
  LET after[i \in 0 .. Len(left)] ==
        IF i = 0 THEN {}
        ELSE LET same == {j \in Free(right, after[i - 1]) : right[j] = left[i]}
             IN  after[i - 1] \cup (IF same = {} THEN {} ELSE {<<i, Min(same)>>})
  IN  after[Len(left)]

Candidates(left, right, pairs, i) ==
  {j \in Free(right, pairs) : SameButCase(right[j], left[i])}

(* Second pass: a left name still alone takes the only free name that      *)
(* differs from it in case.                                                *)
FoldedPairs(left, right, exact) ==
  LET after[i \in 0 .. Len(left)] ==
        IF i = 0 THEN exact
        ELSE LET found == Candidates(left, right, after[i - 1], i)
             IN  IF (\E p \in exact : p[1] = i) \/ Cardinality(found) # 1
                   THEN after[i - 1]
                   ELSE after[i - 1] \cup {<<i, Min(found)>>}
  IN  after

PairNamesUnreserved(left, right) == FoldedPairs(left, right, {})[Len(left)]
PairNames(left, right) ==
  FoldedPairs(left, right, ExactPairs(left, right))[Len(left)]

(* Left positions the second pass found two candidates for.                *)
Ambiguous(left, right) ==
  LET exact == ExactPairs(left, right)
      after == FoldedPairs(left, right, exact)
  IN  {i \in DOMAIN left :
         /\ \A p \in exact : p[1] # i
         /\ Cardinality(Candidates(left, right, after[i - 1], i)) > 1}

RightOf(pairs, i) == (CHOOSE p \in pairs : p[1] = i)[2]

KeysAlign(l, r) ==
  LET pairs == PairNames(l.key, r.key)
  IN  /\ Len(l.key) > 0 /\ Len(l.key) = Len(r.key)
      /\ Ambiguous(l.key, r.key) = {}
      /\ \A i \in DOMAIN l.key : \E p \in pairs : p[1] = i

(* The logical key, in the left side's spelling, and the physical key of   *)
(* the right side.                                                         *)
PairedKey(l, r) == IF KeysAlign(l, r) THEN l.key ELSE <<>>
PairedRightKey(l, r) ==
  IF KeysAlign(l, r)
    THEN [i \in DOMAIN l.key |-> r.key[RightOf(PairNames(l.key, r.key), i)]]
    ELSE <<>>

------------------------------------------------------------------------------
(* The plan of one table.  `columns' is a sequence of [name, nullable,     *)
(* integer]; an index is [tokens, columns, unique, primary, partial]:      *)
(* `columns' is what the database enforces, `tokens' the names parsed out  *)
(* of its definition.                                                      *)

ColumnNames(t) == [i \in DOMAIN t.columns |-> t.columns[i].name]
Column(t, name) == t.columns[FindUniqueCi(ColumnNames(t), name)]
Resolves(t, name) == FindUniqueCi(ColumnNames(t), name) # None

PrimaryKeyColumns(t) ==
  LET primary == {i \in DOMAIN t.indexes : t.indexes[i].primary}
  IN  IF primary = {} THEN <<>> ELSE t.indexes[Min(primary)].tokens

(* Tokens that are no column of the table are dropped from a key taken     *)
(* from the primary index; a name given with --key must resolve.           *)
KeyRefused(t, explicit) == \E i \in DOMAIN explicit : ~Resolves(t, explicit[i])
Resolved(t, names) ==
  FoldLeft(LAMBDA kept, n : IF Resolves(t, n) THEN Append(kept, n) ELSE kept, <<>>, names)
KeyColumns(t, explicit) ==
  LET wanted == IF explicit = <<>> THEN Resolved(t, PrimaryKeyColumns(t)) ELSE explicit
  IN  [i \in DOMAIN wanted |-> Column(t, wanted[i]).name]

Ids(names) == [i \in DOMAIN names |-> names[i].id]
SameMultiset(a, b) ==
  /\ Len(a) = Len(b)
  /\ \A x \in Range(a) : Cardinality({i \in DOMAIN a : a[i] = x})
                           = Cardinality({i \in DOMAIN b : b[i] = x})

Covering(t, key) ==
  {i \in DOMAIN t.indexes : /\ t.indexes[i].unique \/ t.indexes[i].primary
                            /\ SameMultiset(Ids(t.indexes[i].tokens), Ids(key))}

BackedByIndex(t, key) ==
  Covering(t, key) # {} /\ ~t.indexes[Min(Covering(t, key))].partial

AllNotNull(t, key) == \A i \in DOMAIN key : ~Column(t, key[i]).nullable

KeyUniquePartialToo(t, explicit) ==
  LET key == KeyColumns(t, explicit)
  IN  key # <<>> /\ AllNotNull(t, key)
        /\ (explicit = <<>> \/ Covering(t, key) # {})
KeyUnique(t, explicit) ==
  LET key == KeyColumns(t, explicit)
  IN  key # <<>> /\ AllNotNull(t, key)
        /\ (explicit = <<>> \/ BackedByIndex(t, key))

(* spec_for: the declared type of a column, looked up in the key's specs   *)
(* first and in the compared columns after that.                           *)
SpecNames(specs) == [i \in DOMAIN specs |-> specs[i].name]
IsIntKey(p, name) ==
  LET inKey == FindUniqueCi(SpecNames(p.keySpecs), name)
      compared == FindUniqueCi(SpecNames(p.normSpecs), name)
  IN  CASE inKey # None -> p.keySpecs[inKey].integer
        [] inKey = None /\ compared # None -> p.normSpecs[compared].integer
        [] OTHER -> FALSE

Plan(t, explicit, compare) ==
  LET key == KeyColumns(t, explicit)
  IN  [key |-> key, unique |-> KeyUnique(t, explicit),
       keySpecs |-> [i \in DOMAIN key |-> Column(t, key[i])],
       normSpecs |-> SelectSeq(t.columns, LAMBDA c : c.name \in compare)]

------------------------------------------------------------------------------
(* Routing.  The result is [strategy, warned] or Refused.                  *)

Strategies == {"hashdiff", "bucketdiff", "joindiff", "iblt", "keyeddiff",
               "naivediff", "minusdiff"}
Refused == [strategy |-> "error", warned |-> TRUE]
To(strategy) == [strategy |-> strategy, warned |-> FALSE]
Instead(strategy) == [strategy |-> strategy, warned |-> TRUE]

Bisectable(l, r) ==
  LET key == PairedKey(l, r)
  IN  Len(key) = 1 /\ IsIntKey(l, key[1]) /\ IsIntKey(r, key[1])

AutoPrefersMinusdiff(l, r, same, summary, static) ==
  /\ same /\ l.unique /\ r.unique
  /\ ~Bisectable(l, r) \/ (summary /\ static)

FallbackUntold(key) ==
  IF key = <<>> THEN To("bucketdiff") ELSE Instead("keyeddiff")
KeyedOrBucketFallback(key) ==
  IF key = <<>> THEN Instead("bucketdiff") ELSE Instead("keyeddiff")

AutoRoute(l, r, same, summary, static) ==
  IF PairedKey(l, r) = <<>> THEN Instead("bucketdiff")
  ELSE IF AutoPrefersMinusdiff(l, r, same, summary, static) THEN To("minusdiff")
  ELSE IF ~Bisectable(l, r) THEN To("keyeddiff")
  ELSE IF same THEN To("joindiff")
  ELSE To("hashdiff")

JoinRouteAnywhere(l, r, same) ==
  IF Bisectable(l, r) THEN To("joindiff") ELSE KeyedOrBucketFallback(PairedKey(l, r))
JoinRoute(l, r, same) ==
  IF ~Bisectable(l, r) THEN KeyedOrBucketFallback(PairedKey(l, r))
  ELSE IF same THEN To("joindiff")
  ELSE Instead("hashdiff")

MinusRoute(l, r, same) ==
  IF PairedKey(l, r) = <<>> THEN Instead("bucketdiff")
  ELSE IF ~(l.unique /\ r.unique) THEN Instead("keyeddiff")
  ELSE IF same THEN To("minusdiff")
  ELSE IF Bisectable(l, r) THEN Instead("hashdiff")
  ELSE Instead("keyeddiff")

KeyedRoute(l, r) ==
  IF PairedKey(l, r) # <<>> THEN To("keyeddiff")
  ELSE IF l.key # <<>> /\ r.key # <<>> THEN Refused
  ELSE Instead("bucketdiff")

NaiveRoute(l, r) ==
  [strategy |-> "naivediff", warned |-> PairedKey(l, r) = <<>>]

Route(l, r, hint, same, summary, static) ==
  IF hint \in {"hashdiff", "iblt"}
    THEN IF Bisectable(l, r) THEN To(hint) ELSE KeyedOrBucketFallback(PairedKey(l, r))
  ELSE IF hint = "joindiff" THEN JoinRoute(l, r, same)
  ELSE IF hint = "auto" THEN AutoRoute(l, r, same, summary, static)
  ELSE IF hint = "keyeddiff" THEN KeyedRoute(l, r)
  ELSE IF hint = "minusdiff" THEN MinusRoute(l, r, same)
  ELSE IF hint = "naivediff" THEN NaiveRoute(l, r)
  ELSE To("bucketdiff")

------------------------------------------------------------------------------
(* What each strategy takes for granted of its two plans.                  *)
Justified(l, r, same, strategy) ==
  /\ strategy \in {"hashdiff", "iblt", "joindiff"} => Bisectable(l, r)
  /\ strategy \in {"joindiff", "minusdiff"} => same
  /\ strategy = "minusdiff" => l.unique /\ r.unique
  /\ strategy \in {"minusdiff", "keyeddiff"} => PairedKey(l, r) # <<>>
==============================================================================
