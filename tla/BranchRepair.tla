----------------------------- MODULE BranchRepair -----------------------------
(* Branch coverage repair of the data generator (synth/generator.rs,       *)
(* apply_branch_repair): rewrite rows until each branch's predicate holds  *)
(* for its share of them.                                                  *)
(*                                                                         *)
(* A row is a function from columns to values. A branch is a record:       *)
(*   reads, value   its predicate: column `reads' holds `value'            *)
(*   set            its repair: a function from columns to literals        *)
(*   target         its target share in half rows, 0 .. 2 * number of rows *)
(* The tolerance is less than half a row. derived[row] is the row after    *)
(* its derive rules ran.                                                   *)
EXTENDS Integers, Sequences, SequencesExt, FiniteSetsExt

CONSTANT MaxRepairRounds   \* rules.rs MAX_REPAIR_ROUNDS

Satisfies(branch, row) == row[branch.reads] = branch.value

Matching(branch, rows) == {i \in DOMAIN rows : Satisfies(branch, rows[i])}
Matches(branch, rows) == Cardinality(Matching(branch, rows))

OnTarget(branch, rows) == 2 * Matches(branch, rows) = branch.target
Wanted(branch) == (branch.target + 1) \div 2

(* A mutant: a branch that has just reached its target is not protected.   *)
ProtectedBelow(branches, rows) ==
  {b \in DOMAIN branches : 2 * Matches(branches[b], rows) < branches[b].target}

(* A branch that still needs all of its matches when the round starts.     *)
Protected(branches, rows) ==
  {b \in DOMAIN branches : 2 * Matches(branches[b], rows) <= branches[b].target}

Rewritten(branch, row) ==
  [c \in DOMAIN row |-> IF c \in DOMAIN branch.set THEN branch.set[c] ELSE row[c]]

(* Rewriting the row would take a match from a protected sibling. Both     *)
(* rows are judged after their derive rules.                               *)
Destroys(b, branches, protected, row, derived) ==
  \E s \in protected \ {b} :
    /\ Satisfies(branches[s], derived[row])
    /\ ~Satisfies(branches[s], derived[Rewritten(branches[b], row)])

Rewritable(b, branches, protected, rows, derived) ==
  {i \in DOMAIN rows : /\ ~Satisfies(branches[b], rows[i])
                       /\ ~Destroys(b, branches, protected, rows[i], derived)}

Needed(branch, rows, candidates) ==
  IF OnTarget(branch, rows) THEN 0
  ELSE Max({0, Min({Wanted(branch) - Matches(branch, rows), Cardinality(candidates)})})

(* The rewrites are spread over the candidates in row order.               *)
Rank(i, candidates) == Cardinality({j \in candidates : j < i})
Picks(candidates, needed) ==
  {i \in candidates :
     \E p \in 0 .. needed - 1 :
       Rank(i, candidates) = (p * Cardinality(candidates)) \div needed}

(* One branch's turn: `measured' is what it found, `backups' holds the     *)
(* rows it is about to write.                                              *)
Attempt(round, b, branches, protected, derived) ==
  LET rows == round.rows
      candidates == Rewritable(b, branches, protected, rows, derived)
      picks == Picks(candidates, Needed(branches[b], rows, candidates))
  IN  [rows |-> [i \in DOMAIN rows |->
                   IF i \in picks THEN Rewritten(branches[b], rows[i]) ELSE rows[i]],
       measured |-> Append(round.measured, Matches(branches[b], rows)),
       backups |-> Append(round.backups, [i \in picks |-> rows[i]])]

Attempts(rows, branches, derived) ==
  LET protected == Protected(branches, rows)
  IN  FoldLeft(LAMBDA round, b : Attempt(round, b, branches, protected, derived),
               [rows |-> rows, measured |-> <<>>, backups |-> <<>>],
               [b \in DOMAIN branches |-> b])

(* The backups are put back in the order they were taken.                  *)
PutBack(rows, backups) ==
  FoldLeft(LAMBDA r, backup :
             [i \in DOMAIN r |-> IF i \in DOMAIN backup THEN backup[i] ELSE r[i]],
           rows, backups)

Progressed(round, branches, rows) ==
  \E b \in DOMAIN branches : Matches(branches[b], rows) # round.measured[b]

(* One round: `flips' counts the rewrites of each branch that stand.       *)
Round(state, branches, derived) ==
  LET round == Attempts(state.rows, branches, derived)
      fresh == [i \in DOMAIN round.rows |-> derived[round.rows[i]]]
      writes(b) == Cardinality(DOMAIN round.backups[b])
  IN  IF \A b \in DOMAIN branches : writes(b) = 0
      THEN [state EXCEPT !.ended = TRUE]
      ELSE IF Progressed(round, branches, fresh)
      THEN [state EXCEPT !.rows = fresh,
                         !.flips = [b \in DOMAIN branches |-> @[b] + writes(b)]]
      ELSE [state EXCEPT !.rows = PutBack(fresh, round.backups), !.ended = TRUE]

Repair(rows, branches, derived) ==
  FoldLeft(LAMBDA state, n : IF state.ended THEN state ELSE Round(state, branches, derived),
           [rows |-> rows, flips |-> [b \in DOMAIN branches |-> 0], ended |-> FALSE],
           [n \in 1 .. MaxRepairRounds |-> n])
===============================================================================
