----------------------------- MODULE AlgorithmsMC -----------------------------
(* The pure algorithms of delta-diff over bounded inputs: each state is one *)
(* input of one of them.                                                    *)
EXTENDS KeyRange, DiffRoute, BranchRepair

CONSTANTS
  MaxPieces,     \* bound: pieces asked of split_range
  MaxNames,      \* bound: columns of one side
  RepairRows,    \* bound: rows of a repaired table
  Mangled        \* an index definition may spell a column unrecognisably

ASSUME AlgorithmsAssumption ==
  {MaxPieces, MaxNames, RepairRows} \subseteq Nat /\ Mangled \in BOOLEAN

VARIABLE input

a0 == [id |-> "a", case |-> 0]
a1 == [id |-> "a", case |-> 1]
a2 == [id |-> "a", case |-> 2]
b0 == [id |-> "b", case |-> 0]
z0 == [id |-> "z", case |-> 0]

(* --- split_range ------------------------------------------------------- *)

Ranges ==
  [of : {"range"}, lo : Int64, hi : Int64, n : 0 .. MaxPieces]

Out == SplitRange(input.lo, input.hi, input.n)
Holds(p, k) == p[1] <= k /\ k < p[2]

(* Every key of the domain is compared in exactly one segment: none falls  *)
(* between two of them and none is counted twice, also when hi - lo        *)
(* overflows (hash_diff.rs:733-754).                                       *)
InOnePiece ==
  input.of = "range" /\ input.n > 0 =>
    \A k \in input.lo .. input.hi - 1 : Cardinality({p \in Out : Holds(p, k)}) = 1

(* Bisection makes progress: two or more pieces of a domain of two or more *)
(* keys are all narrower than it, unless the width overflows               *)
(* (hash_diff.rs:737-739).                                                 *)
Narrows ==
  input.of = "range" /\ input.n > 1 /\ input.hi - input.lo \in 2 .. MaxInt =>
    \A p \in Out : p[2] - p[1] < input.hi - input.lo

(* --- pair_names -------------------------------------------------------- *)

NameLists == SeqOf({a0, a1, a2, b0}, MaxNames)
Pairings == [of : {"pairing"}, left : NameLists, right : NameLists]

(* No right column is compared twice, columns are compared only when their *)
(* names agree but for case, and a column that exists under the very same  *)
(* name on the other side is compared with that one, whatever order the    *)
(* columns come in (pairing.rs:74-110).                                    *)
PairingSound ==
  input.of = "pairing" =>
    LET pairs == PairNames(input.left, input.right)
    IN  /\ \A p, q \in pairs : p # q => p[1] # q[1] /\ p[2] # q[2]
        /\ \A p \in pairs : SameButCase(input.left[p[1]], input.right[p[2]])
        /\ IsInjective(input.left) =>
             \A i \in DOMAIN input.left : input.left[i] \in Range(input.right) =>
               \E p \in pairs : p[1] = i /\ input.right[p[2]] = input.left[i]

(* --- build_table_plan: the key ----------------------------------------- *)

Col(name, nullable, integer) ==
  [name |-> name, nullable |-> nullable, integer |-> integer]

Tokens(columns) ==
  {columns, Append(columns, z0)}
    \cup (IF Mangled THEN {[columns EXCEPT ![1] = z0]} ELSE {})

IndexOf(columns, tokens, kind) ==
  [columns |-> columns, tokens |-> tokens, unique |-> kind # "plain",
   primary |-> kind = "primary", partial |-> kind = "partial"]
Indexes ==
  UNION {{IndexOf(c, t, k) : t \in Tokens(c), k \in {"plain", "unique", "partial", "primary"}} :
           c \in {<<a0>>, <<b0>>, <<a0, b0>>}}

ExplicitKeys == {<<>>, <<a0>>, <<a1>>, <<b0, a0>>, <<a0, a0>>}

(* The database makes the columns of a primary key NOT NULL.               *)
Possible(t) ==
  /\ \A i \in DOMAIN t.indexes : t.indexes[i].primary =>
        \A n \in Range(t.indexes[i].columns) : ~Column(t, n).nullable
  /\ Cardinality({i \in DOMAIN t.indexes : t.indexes[i].primary}) <= 1

ColumnsNamed(name) == [name : {name}, nullable : BOOLEAN, integer : {TRUE}]
Tables ==
  {t \in [columns : ColumnsNamed(a0) \X ColumnsNamed(b0), indexes : SeqOf(Indexes, 2)] : Possible(t)}

Plans == [of : {"plan"}, table : Tables, explicit : ExplicitKeys]

(* The columns of some complete unique index are all in the key and none   *)
(* of them can be NULL: no two rows share a key.                           *)
Identifies(t, key) ==
  \E i \in DOMAIN t.indexes :
    /\ t.indexes[i].unique /\ ~t.indexes[i].partial
    /\ Range(t.indexes[i].columns) \subseteq Range(key)
    /\ \A n \in Range(t.indexes[i].columns) : ~Column(t, n).nullable

(* A key the plan calls unique identifies the rows: the skew arithmetic of *)
(* keyeddiff and the set operators of minusdiff rest on it                 *)
(* (metadata.rs:43-45, 357-364).                                           *)
KeyUniqueSound ==
  input.of = "plan" /\ ~KeyRefused(input.table, input.explicit) =>
    (KeyUnique(input.table, input.explicit) =>
       Identifies(input.table, KeyColumns(input.table, input.explicit)))

(* --- route_impl -------------------------------------------------------- *)

RouteColumns(s) ==
  {<<Col(s, FALSE, i), Col(b0, FALSE, TRUE)>> : i \in BOOLEAN}
    \cup {<<Col(s, FALSE, i), Col(b0, FALSE, TRUE), Col(a2, FALSE, TRUE)>> : i \in BOOLEAN}
RouteIndexes(s) ==
  {<<>>} \cup {<<IndexOf(c, c, k)>> : c \in {<<s>>, <<s, b0>>}, k \in {"unique", "primary"}}
RouteTables ==
  UNION {[columns : RouteColumns(s), indexes : RouteIndexes(s)] : s \in {a0, a1}}

Routes ==
  {x \in [of : {"route"}, left : RouteTables, right : RouteTables,
          explicit : {<<>>, <<a0>>, <<b0, a0>>}, hint : Strategies \cup {"auto"},
          same : BOOLEAN, summary : BOOLEAN] :
     ~KeyRefused(x.left, x.explicit) /\ ~KeyRefused(x.right, x.explicit)}

PlanOf(t) == Plan(t, input.explicit, Range(ColumnNames(t)))
Routed ==
  Route(PlanOf(input.left), PlanOf(input.right), input.hint, input.same,
        input.summary, TRUE)

(* Whatever strategy the user asks for, the one that runs finds what it    *)
(* takes for granted: hashdiff, iblt and joindiff one key column that is   *)
(* an integer in both tables under each table's own name for it, joindiff  *)
(* and minusdiff one connection, minusdiff unique keys (engine.rs:78-245). *)
RouteSound ==
  input.of = "route" =>
    LET l == PlanOf(input.left)
        r == PlanOf(input.right)
    IN  /\ Justified(l, r, input.same, Routed.strategy)
        /\ Routed.strategy \in {"hashdiff", "iblt", "joindiff"} =>
             /\ Column(input.left, PairedKey(l, r)[1]).integer
             /\ Column(input.right, PairedRightKey(l, r)[1]).integer
        /\ Routed.strategy = "minusdiff" =>
             /\ Identifies(input.left, PairedKey(l, r))
             /\ Identifies(input.right, PairedRightKey(l, r))

(* The user is told when the strategy asked for is not the one that runs,  *)
(* and when rows are compared without their keys although nobody asked     *)
(* for that (engine.rs:379-393 and the warnings pushed before it).         *)
DegradationTold ==
  input.of = "route" /\ Routed.strategy # "error" =>
    /\ input.hint \notin {"auto", Routed.strategy} => Routed.warned
    /\ input.hint = "auto" /\ Routed.strategy = "bucketdiff" => Routed.warned

(* --- apply_branch_repair ----------------------------------------------- *)

(* Column d is derived from x.                                             *)
Refresh == [row \in [{"x", "y", "d"} -> 0 .. 1] |-> [row EXCEPT !.d = row.x]]
RepairCells == {[x |-> x, y |-> y, d |-> x] : x, y \in 0 .. 1}

Branches ==
  [reads : {"x", "y", "d"}, value : 0 .. 1, target : {1, 2, 4, 2 * RepairRows},
   set : [{"x"} -> 0 .. 1] \cup [{"y"} -> 0 .. 1] \cup [{"x", "y"} -> 0 .. 1]]

Repairs ==
  [of : {"repair"}, rows : [1 .. RepairRows -> RepairCells],
   branches : {<<p, q>> : p \in {b \in Branches : b.value = 1}, q \in Branches}]

(* A branch at or below its target at the start of a round has lost no     *)
(* match to the other branch when the round ends and the derived columns   *)
(* are fresh again, although both write in turn and each sees derived      *)
(* values the other has made stale (generator.rs:1539-1594).               *)
RepairKeeps ==
  input.of = "repair" =>
    LET before == [rows |-> input.rows, flips |-> <<0, 0>>, ended |-> FALSE]
        after == Round(before, input.branches, Refresh)
    IN  \A b \in DOMAIN input.branches :
          2 * Matches(input.branches[b], input.rows) <= input.branches[b].target =>
            Matching(input.branches[b], input.rows)
              \subseteq Matching(input.branches[b], after.rows)

(* A round that moved no branch is undone: a repair that counts no rewrite *)
(* has written nothing (generator.rs:1669-1671 and section 9.3 of the      *)
(* rules plan: rolling back whole rows leaves no stale derived value).     *)
RepairLeavesNoTrace ==
  input.of = "repair" =>
    LET result == Repair(input.rows, input.branches, Refresh)
    IN  (\A b \in DOMAIN result.flips : result.flips[b] = 0) => result.rows = input.rows

------------------------------------------------------------------------------
AnyInput == input \in Ranges \cup Pairings \cup Plans \cup Routes \cup Repairs
SameInput == UNCHANGED input
InputSpec == AnyInput /\ [][SameInput]_input
===============================================================================
