----------------------------- MODULE SynthGenerate ----------------------------
(* Generation of related tables (synth/generator.rs, generate_with): the   *)
(* tables in foreign key order, and for each its foreign key pools, its    *)
(* rows, the redraws that make referenced columns and primary keys         *)
(* unique, pinned and derived columns, and branch repair.                  *)
(*                                                                         *)
(* A table is a record:                                                    *)
(*   rows      how many are asked for                                      *)
(*   columns   a function from names to columns:                           *)
(*               space   the values the learned marginal produces          *)
(*               levels  the marginal is categorical                       *)
(*               number  the type is numeric or a time: the values can be  *)
(*                       continued past the greatest                       *)
(*               nulls   "never", or at a rate the "model" or the "rule"   *)
(*                       gives                                             *)
(*               pinned  the values of its fixed/values/fixed_range rule   *)
(*   pk        the set of primary key columns                              *)
(*   weighted  the table strategy is weighted                              *)
(*   rels      a sequence of relationships: the child column fk, parent    *)
(*             and key, unique, modeled, fanouts (learned numbers of       *)
(*             children), orphans (learned rows without a parent), fixed   *)
(*             (the values of a fixed pool, or none), derive (a function   *)
(*             from targets to columns of the parent)                      *)
(*   derive    a function from targets to columns of the same row          *)
(*   branches  as in BranchRepair                                          *)
(* A random draw is any value of its space, however unlikely.              *)
EXTENDS BranchRepair, FiniteSets

CONSTANTS
  Schemas,    \* the rules and models a run may be given: functions from table names
  MaxExtra,   \* bound: how far a composite key is continued past its space
  NULL

ColumnType ==
  [space : SUBSET Int, levels : BOOLEAN, number : BOOLEAN,
   nulls : {"never", "model", "rule"}, pinned : SUBSET Int]

(* Rules name columns that exist and literals that fit, a marginal has a   *)
(* finite number of values; derive rules read no derived column here.      *)
Sound(rules, t) ==
  LET rule == rules[t]
      columns == DOMAIN rule.columns
      targets == DOMAIN rule.derive \cup UNION {DOMAIN rel.derive : rel \in ToSet(rule.rels)}
  IN  /\ \A c \in columns : /\ rule.columns[c] \in ColumnType
                             /\ IsFiniteSet(rule.columns[c].space) /\ rule.columns[c].space # {}
      /\ IsFiniteSet(columns) /\ rule.pk \subseteq columns
      /\ rule.rels \in Seq(ToSet(rule.rels)) /\ rule.branches \in Seq(ToSet(rule.branches))
      /\ \A rel \in ToSet(rule.rels) :
           /\ rel.fk \in columns
           /\ rel.fixed \in SUBSET Int /\ IsFiniteSet(rel.fixed)
           /\ rel.fanouts \cup rel.orphans \subseteq Nat
           /\ rel.parent \in DOMAIN rules =>
                {rel.key} \cup ToSet(rel.derive) \subseteq DOMAIN rules[rel.parent].columns
      /\ ToSet(rule.derive) \subseteq columns \ targets
      /\ \A b \in ToSet(rule.branches) :
           b.reads \in columns /\ DOMAIN b.set \subseteq columns /\ ToSet(b.set) \subseteq Int

ASSUME SynthAssumption ==
  /\ MaxExtra \in Nat \ {0} /\ MaxRepairRounds \in Nat
  /\ \A rules \in Schemas : NULL \notin DOMAIN rules /\ \A t \in DOMAIN rules : Sound(rules, t)

VARIABLES
  schema,     \* the rules and models of this run
  tables,     \* the finished tables: a function from names to sequences of rows
  phase,      \* where in generate_with, or how it ended
  table,      \* the table in hand
  pools,      \* rel_pools: one sequence of values per relationship
  assigned,   \* modeled_assignments: the values of the modeled column, in order
  rows,       \* its rows so far
  at          \* the next row of a redraw

vars == <<schema, tables, phase, table, pools, assigned, rows, at>>

------------------------------------------------------------------------------
(* Rules. *)

Rule(t) == schema[t]
Names == DOMAIN schema
Columns(t) == DOMAIN Rule(t).columns
Rels(t) == {Rule(t).rels[i] : i \in DOMAIN Rule(t).rels}
Referenced(t) ==
  {c \in Columns(t) : \E s \in Names : \E r \in Rels(s) : r.parent = t /\ r.key = c}
ForeignKeys(t) == {r.fk : r \in Rels(t)}
Pinned(t) == {c \in Columns(t) : Rule(t).columns[c].pinned # {}}
DeriveTargets(t) == DOMAIN Rule(t).derive \cup UNION {DOMAIN r.derive : r \in Rels(t)}
Parents(t) == {r.parent : r \in Rels(t)} \cap Names

(* SynthRules::validate, and the same guards in the generator.             *)
PinsValid(t) == Pinned(t) \cap (Referenced(t) \cup ForeignKeys(t)) = {}
DerivesValid(t) ==
  /\ DeriveTargets(t) \cap (Referenced(t) \cup ForeignKeys(t) \cup Pinned(t)) = {}
  /\ Cardinality({i \in DOMAIN Rule(t).rels : DOMAIN Rule(t).rels[i].derive # {}}) <= 1
RepairsValid(t) ==
  \A b \in DOMAIN Rule(t).branches :
    DOMAIN Rule(t).branches[b].set
      \cap (Referenced(t) \cup ForeignKeys(t) \cup Pinned(t) \cup DOMAIN Rule(t).derive) = {}
ValidRules == \A t \in Names : PinsValid(t) /\ DerivesValid(t) /\ RepairsValid(t)

------------------------------------------------------------------------------
(* Foreign key pools. *)

(* rel_pools.find: the first relationship of a column is its pool.         *)
RelOf(t, c) == SelectInSeq(Rule(t).rels, LAMBDA r : r.fk = c)
Governing(t, c) == Rule(t).rels[RelOf(t, c)]

Distinct(values) ==
  FoldLeft(LAMBDA seen, v : IF v \in ToSet(seen) THEN seen ELSE Append(seen, v),
           <<>>, values)
ColumnOf(t, c) == [i \in DOMAIN tables[t] |-> tables[t][i][c]]

Pool(t, rel) ==
  LET values == IF rel.fixed # {} THEN SetToSeq(rel.fixed) ELSE ColumnOf(rel.parent, rel.key)
  IN  IF Rule(t).weighted THEN Distinct(values) ELSE values
IsUnique(rel) == rel.unique /\ rel.fixed = {}

(* The preflight of a unique foreign key: a null rate of the rule (one     *)
(* half) lowers the demand, one of the model does not.                     *)
Demand(t, c) ==
  IF Rule(t).columns[c].nulls = "rule" THEN (Rule(t).rows + 1) \div 2 ELSE Rule(t).rows
Modeled(t) == {i \in DOMAIN Rule(t).rels : Rule(t).rels[i].modeled}
PoolsRefused(t) ==
  \/ \E r \in Rels(t) : r.fixed = {} /\ r.parent \notin Names
  \/ \E r \in Rels(t) : IsUnique(r) /\ Demand(t, r.fk) > Len(Pool(t, r))
  \/ Cardinality(Modeled(t)) > 1
  \/ \E i \in Modeled(t) : \/ Rule(t).rels[i].fanouts = {}
                           \/ Pool(t, Governing(t, Rule(t).rels[i].fk)) = <<>>

(* One sampled number of children per distinct parent value, at most one   *)
(* if the relationship is unique, and the rows without a parent. The order *)
(* of the rows carries no meaning.                                         *)
Expansions(t, rel) ==
  LET parents == Distinct(Pool(t, Governing(t, rel.fk)))
      counts == {IF IsUnique(Governing(t, rel.fk)) THEN Min({n, 1}) ELSE n : n \in rel.fanouts}
      expand(f) == FlattenSeq([p \in DOMAIN parents |-> [n \in 1 .. f[p] |-> parents[p]]])
  IN  {expand(f) \o [n \in 1 .. k |-> NULL] :
         f \in [DOMAIN parents -> counts], k \in rel.orphans}

ModeledColumns(t) == {Rule(t).rels[i].fk : i \in Modeled(t)}
RowCount == IF ModeledColumns(table) = {} THEN Rule(table).rows ELSE Len(assigned)

------------------------------------------------------------------------------
(* The phases of one table, in the order of the code.                      *)

PhasesDerivingFirst == <<"draw", "derive", "distinct", "keys", "pin", "repair", "publish">>
Phases == <<"draw", "distinct", "keys", "pin", "derive", "repair", "publish">>
After(p) == Phases[SelectInSeq(Phases, LAMBDA q : q = p) + 1]

Fail(why) == phase' = why /\ UNCHANGED <<schema, tables, table, pools, assigned, rows, at>>

Init ==
  /\ schema \in Schemas
  /\ tables = << >> /\ phase = "validate" /\ table = NULL
  /\ pools = <<>> /\ assigned = <<>> /\ rows = <<>> /\ at = 1

(* Some order puts parents before children: else graph::topological_sort   *)
(* reports a cycle.                                                        *)
Acyclic == \A s \in SUBSET Names \ {{}} : \E t \in s : Parents(t) \cap s = {}

Validate ==
  /\ phase = "validate"
  /\ phase' = IF ~ValidRules THEN "invalid" ELSE IF ~Acyclic THEN "cycle" ELSE "next"
  /\ UNCHANGED <<schema, tables, table, pools, assigned, rows, at>>

(* The next table of the order: build_rel_pools and the modeled counts.    *)
BeginTable(t) ==
  /\ phase = "next" /\ t \notin DOMAIN tables /\ Parents(t) \subseteq DOMAIN tables
  /\ ~PoolsRefused(t)
  /\ pools' = [i \in DOMAIN Rule(t).rels |-> Pool(t, Rule(t).rels[i])]
  /\ assigned' \in IF Modeled(t) = {} THEN {<<>>}
                   ELSE UNION {Expansions(t, Rule(t).rels[i]) : i \in Modeled(t)}
  /\ table' = t /\ rows' = <<>> /\ phase' = Phases[1] /\ at' = 1
  /\ UNCHANGED <<schema, tables>>

RefuseTable(t) ==
  /\ phase = "next" /\ t \notin DOMAIN tables /\ Parents(t) \subseteq DOMAIN tables
  /\ PoolsRefused(t) /\ Fail("refused")

------------------------------------------------------------------------------
(* Rows. *)

NextPhase == phase' = After(phase) /\ at' = 1
PoolOf(c) == pools[RelOf(table, c)]
Space(c) == Rule(table).columns[c].space

NullInjected(c) ==
  Rule(table).columns[c].nulls # "never" /\ c \notin Pinned(table) \cup Referenced(table)

(* What a column of the next row may be.                                   *)
Draws(c) ==
  IF c \in ModeledColumns(table) THEN {assigned[Len(rows) + 1]}
  ELSE (IF c \in ForeignKeys(table) THEN ToSet(PoolOf(c)) ELSE Space(c))
         \cup (IF NullInjected(c) THEN {NULL} ELSE {})

(* sample_unique takes the value out of its pool.                          *)
TakesFrom(i, row) ==
  LET rel == Rule(table).rels[i]
  IN  /\ IsUnique(rel) /\ RelOf(table, rel.fk) = i /\ rel.fk \notin ModeledColumns(table)
      /\ row[rel.fk] # NULL

DrawRow ==
  /\ phase = "draw" /\ Len(rows) < RowCount
  /\ \E row \in [Columns(table) -> UNION {Draws(c) : c \in Columns(table)}] :
       /\ \A c \in Columns(table) : row[c] \in Draws(c)
       /\ rows' = Append(rows, row)
       /\ pools' = [i \in DOMAIN pools |->
                      IF TakesFrom(i, row)
                      THEN RemoveFirst(pools[i], row[Rule(table).rels[i].fk]) ELSE pools[i]]
  /\ UNCHANGED <<schema, tables, phase, table, assigned, at>>

(* A foreign key has to be drawn from a pool that has run empty.           *)
DrawFails ==
  /\ phase = "draw" /\ Len(rows) < RowCount
  /\ \E c \in ForeignKeys(table) \ ModeledColumns(table) : PoolOf(c) = <<>>
  /\ Fail("exhausted")

DrawEnds ==
  /\ phase = "draw" /\ Len(rows) = RowCount /\ NextPhase
  /\ UNCHANGED <<schema, tables, table, pools, assigned, rows>>

(* Columns other tables refer to are redrawn until they are distinct, a    *)
(* foreign key from its pool, except where the row count is modeled.       *)
DistinctColumns(t) == Referenced(t) \ ModeledColumns(t)
Source(c) == IF c \in ForeignKeys(table) THEN ToSet(PoolOf(c)) ELSE Space(c)
Seen(c) == {rows[j][c] : j \in 1 .. at - 1}

TooFew(c) ==
  /\ c \in ForeignKeys(table) \/ Rule(table).columns[c].levels
  /\ Cardinality(Source(c)) < Len(rows)
RefuseDistinct ==
  /\ phase = "distinct" /\ \E c \in DistinctColumns(table) : TooFew(c)
  /\ Fail("refused")

RedrawsOnce(c) ==
  IF rows[at][c] \in Seen(c) THEN Source(c) \ {rows[at][c]} ELSE {rows[at][c]}
Redraws(c) == IF rows[at][c] \in Seen(c) THEN Source(c) \ Seen(c) ELSE {rows[at][c]}

Distinguish ==
  /\ phase = "distinct" /\ at <= Len(rows)
  /\ ~\E c \in DistinctColumns(table) : TooFew(c)
  /\ \E new \in [DistinctColumns(table) -> UNION {Redraws(c) : c \in DistinctColumns(table)}] :
       /\ \A c \in DistinctColumns(table) : new[c] \in Redraws(c)
       /\ rows' = [rows EXCEPT ![at] =
                    [c \in Columns(table) |-> IF c \in DOMAIN new THEN new[c] ELSE @[c]]]
  /\ at' = at + 1
  /\ UNCHANGED <<schema, tables, phase, table, pools, assigned>>

(* 10,000 attempts were not enough.                                        *)
DistinguishFails ==
  /\ phase = "distinct" /\ at <= Len(rows)
  /\ \E c \in DistinctColumns(table) : rows[at][c] \in Seen(c)
  /\ Fail("exhausted")

DistinguishEnds ==
  /\ phase = "distinct" /\ at > Len(rows)
  /\ ~\E c \in DistinctColumns(table) : TooFew(c)
  /\ NextPhase
  /\ UNCHANGED <<schema, tables, table, pools, assigned, rows>>

------------------------------------------------------------------------------
(* Primary keys. *)

Key == Rule(table).pk

(* pk_column_is_frozen: pinned, a foreign key, or without variance.        *)
FrozenUnlessReferring(c) ==
  \/ c \in Pinned(table)
  \/ Rule(table).columns[c].number /\ Cardinality(Space(c)) = 1
Frozen(c) ==
  \/ c \in Pinned(table) \cup ForeignKeys(table)
  \/ Rule(table).columns[c].number /\ Cardinality(Space(c)) = 1
Redrawable == {c \in Key : ~Frozen(c)}

KeyOf(row) == [c \in Key |-> row[c]]
KeyMissing(row) == \E c \in Key : row[c] = NULL
KeysSeen == {KeyOf(rows[j]) : j \in {k \in 1 .. at - 1 : ~KeyMissing(rows[k])}}
NeedsKeyAllFree ==
  Redrawable = Key /\ Len(rows) > 1 /\ ~KeyMissing(rows[at]) /\ KeyOf(rows[at]) \in KeysSeen
NeedsKey ==
  Redrawable # {} /\ Len(rows) > 1 /\ ~KeyMissing(rows[at]) /\ KeyOf(rows[at]) \in KeysSeen

(* pk_value_space: the redraw can fill every row.                          *)
Feasible(c) == Cardinality(Space(c)) >= Len(rows)
(* extrapolate_unique: the next value past the learned ones.               *)
Beyond(c) == Max(Space(c) \cup {k[c] : k \in KeysSeen}) + 1

(* A fresh value of a single column key: redrawn if that can succeed, past *)
(* the learned space if it cannot or did not.                              *)
FreshValues(c) ==
  (IF Feasible(c) THEN Space(c) ELSE {})
    \cup (IF Rule(table).columns[c].number THEN {Beyond(c)} ELSE {})

(* A fresh composite key: the free members are redrawn together, and past  *)
(* a hundred attempts the numeric ones continue in step.                   *)
Continued(c, k) == IF Rule(table).columns[c].number THEN {Max(Space(c)) + k} ELSE Space(c)
FreshMembers ==
  UNION {{f \in [Redrawable -> UNION {m[c] : c \in Redrawable}] : \A c \in Redrawable : f[c] \in m[c]} :
           m \in {[c \in Redrawable |-> Space(c)]}
                  \cup {[c \in Redrawable |-> Continued(c, k)] : k \in 1 .. MaxExtra}}
FreshKeys ==
  IF Cardinality(Key) = 1 THEN UNION {[Key -> FreshValues(c)] : c \in Key} ELSE FreshMembers

WithKey(row, members) ==
  [c \in DOMAIN row |-> IF c \in DOMAIN members THEN members[c] ELSE row[c]]
FreshRows == {WithKey(rows[at], f) : f \in FreshKeys}

KeepKey ==
  /\ phase = "keys" /\ at <= Len(rows) /\ ~NeedsKey
  /\ at' = at + 1
  /\ UNCHANGED <<schema, tables, phase, table, pools, assigned, rows>>

RedrawKey ==
  /\ phase = "keys" /\ at <= Len(rows) /\ NeedsKey
  /\ \E row \in {r \in FreshRows : KeyOf(r) \notin KeysSeen} :
       rows' = [rows EXCEPT ![at] = row]
  /\ at' = at + 1
  /\ UNCHANGED <<schema, tables, phase, table, pools, assigned>>

(* A key that cannot be continued past its space, or 10,000 attempts.      *)
KeyFails ==
  /\ phase = "keys" /\ at <= Len(rows) /\ NeedsKey
  /\ Cardinality(Key) = 1 => \E c \in Key : ~Rule(table).columns[c].number
  /\ Fail("exhausted")

KeysEnd ==
  /\ phase = "keys" /\ at > Len(rows) /\ NextPhase
  /\ UNCHANGED <<schema, tables, table, pools, assigned, rows>>

------------------------------------------------------------------------------
(* Pinned and derived columns, branch repair. *)

(* apply_column_value_overrides: every row is overwritten.                 *)
Pin ==
  /\ phase = "pin"
  /\ \E values \in [DOMAIN rows -> [Pinned(table) ->
                    UNION {Rule(table).columns[c].pinned : c \in Pinned(table)}]] :
       /\ \A i \in DOMAIN rows : \A c \in Pinned(table) :
            values[i][c] \in Rule(table).columns[c].pinned
       /\ rows' = [i \in DOMAIN rows |-> WithKey(rows[i], values[i])]
  /\ NextPhase
  /\ UNCHANGED <<schema, tables, table, pools, assigned>>

(* A parent's cell by the value of the foreign key: the last row with that *)
(* key, none for NULL or for a key no row has.                             *)
Joined(t, rel, value, c) ==
  LET hits == {i \in DOMAIN tables[rel.parent] : tables[rel.parent][i][rel.key] = value}
  IN  IF value = NULL \/ rel.parent \notin DOMAIN tables \/ hits = {} THEN NULL
      ELSE tables[rel.parent][Max(hits)][c]

DerivedCell(t, row, c) ==
  IF c \in DOMAIN Rule(t).derive THEN row[Rule(t).derive[c]]
  ELSE LET rel == CHOOSE r \in Rels(t) : c \in DOMAIN r.derive
       IN  Joined(t, rel, row[rel.fk], rel.derive[c])

(* DerivePlan::apply_to_row. Derive rules read no derived column here.     *)
Derived(t, row) ==
  [c \in DOMAIN row |-> IF c \in DeriveTargets(t) THEN DerivedCell(t, row, c) ELSE row[c]]

Derive ==
  /\ phase = "derive"
  /\ rows' = [i \in DOMAIN rows |-> Derived(table, rows[i])]
  /\ NextPhase
  /\ UNCHANGED <<schema, tables, table, pools, assigned>>

RepairBranches ==
  /\ phase = "repair"
  /\ LET derived == [row \in [Columns(table) -> {NULL} \cup Int] |-> Derived(table, row)]
     IN  rows' = Repair(rows, Rule(table).branches, derived).rows
  /\ NextPhase
  /\ UNCHANGED <<schema, tables, table, pools, assigned>>

(* The finished rows become the pools of the children.                     *)
Publish ==
  /\ phase = "publish"
  /\ tables' = [t \in DOMAIN tables \cup {table} |-> IF t = table THEN rows ELSE tables[t]]
  /\ phase' = IF DOMAIN tables' = Names THEN "done" ELSE "next"
  /\ table' = NULL /\ rows' = <<>> /\ pools' = <<>> /\ assigned' = <<>> /\ at' = 1
  /\ UNCHANGED schema

Ended ==
  phase \in {"done", "invalid", "cycle", "refused", "exhausted"} /\ UNCHANGED vars

Next ==
  \/ Validate
  \/ \E t \in Names : BeginTable(t) \/ RefuseTable(t)
  \/ DrawRow \/ DrawFails \/ DrawEnds
  \/ RefuseDistinct \/ Distinguish \/ DistinguishFails \/ DistinguishEnds
  \/ KeepKey \/ RedrawKey \/ KeyFails \/ KeysEnd
  \/ Pin \/ Derive \/ RepairBranches \/ Publish
  \/ Ended

Spec == Init /\ [][Next]_vars

------------------------------------------------------------------------------
(* Properties of the finished tables. *)

TypeOK ==
  /\ phase \in ToSet(Phases)
       \cup {"validate", "next", "done", "invalid", "cycle", "refused", "exhausted"}
  /\ DOMAIN tables \subseteq Names /\ table \in Names \cup {NULL}
  /\ \A t \in DOMAIN tables : \A i \in DOMAIN tables[t] : DOMAIN tables[t][i] = Columns(t)
  /\ Len(pools) = (IF table = NULL THEN 0 ELSE Len(Rule(table).rels))
  /\ at \in 1 .. Len(rows) + 1

(* Every foreign key of a finished table is NULL or a key of its parent's  *)
(* finished rows, although the parent's keys were redrawn, continued and   *)
(* repaired and the child's redrawn in turn - unless the rules give the    *)
(* pool's values themselves (generator.rs:529-573, 707-724, 661-667).      *)
KeysResolve ==
  \A t \in DOMAIN tables : \A c \in ForeignKeys(t) :
    LET rel == Governing(t, c)
    IN  rel.fixed = {} =>
          ToSet(ColumnOf(t, c)) \subseteq ToSet(ColumnOf(rel.parent, rel.key)) \cup {NULL}

(* A column another table refers to has no value twice, and a unique       *)
(* foreign key no parent twice: a database that enforces the keys can load *)
(* the tables. Where the row count is modeled the column keeps the learned *)
(* repetitions (generator.rs:476-483, 413-423).                            *)
ReferencedDistinct ==
  \A t \in DOMAIN tables : \A i, j \in DOMAIN tables[t] :
    i # j =>
      /\ \A c \in DistinctColumns(t) : tables[t][i][c] # tables[t][j][c]
      /\ \A c \in ForeignKeys(t) :
           LET rel == Governing(t, c)
           IN  IsUnique(rel) /\ rel.key \in DistinctColumns(rel.parent) =>
                 tables[t][i][c] # tables[t][j][c] \/ tables[t][i][c] = NULL

(* Two finished rows agree in a complete primary key only if every member  *)
(* of it is out of the generator's hands, or if the rules overwrite a      *)
(* member afterwards (generator.rs:576-594, 699-706).                      *)
Overwritten(t) ==
  Pinned(t) \cup DeriveTargets(t)
    \cup UNION {DOMAIN Rule(t).branches[b].set : b \in DOMAIN Rule(t).branches}
Supplied(t) ==
  {c \in Rule(t).pk \ ForeignKeys(t) :
     Rule(t).columns[c].number => Cardinality(Rule(t).columns[c].space) > 1}
PrimaryKeysDistinct ==
  \A t \in DOMAIN tables : \A i, j \in DOMAIN tables[t] :
    /\ i # j /\ Supplied(t) # {} /\ Rule(t).pk \cap Overwritten(t) = {}
    /\ \A c \in Rule(t).pk : tables[t][i][c] # NULL
    => \E c \in Rule(t).pk : tables[t][i][c] # tables[t][j][c]

(* A derived cell follows the row and the parent row it was derived from   *)
(* as they are in the end, after the redraws and repairs that changed both *)
(* (generator.rs:608-639, 1656-1667) - but for what a round of repairs     *)
(* that is undone leaves behind: a row that two branches wrote is put back *)
(* as the later one found it.                                              *)
LeftBehind(t) ==
  UNION {DOMAIN Rule(t).branches[b].set : b \in DOMAIN Rule(t).branches \ {Len(Rule(t).branches)}}
DerivedFresh ==
  \A t \in DOMAIN tables : \A i \in DOMAIN tables[t] :
    LeftBehind(t) \cap (ToSet(Rule(t).derive) \cup DeriveTargets(t)) = {} =>
      tables[t][i] = Derived(t, tables[t][i])
===============================================================================
