------------------------------- MODULE IbltDiff -------------------------------
(***************************************************************************)
(* Invertible Bloom lookup tables: each side sums its rows into cells with *)
(* one statement, the two summaries are subtracted and what is left is     *)
(* decoded by peeling.  With a key this is the strategy `iblt', in two     *)
(* rounds when its capacity is automatic; without one it is a fast path of *)
(* bucketdiff.                                                             *)
(*                                                                         *)
(* A word of a row hash and a key are the sets of their 1-bits, so that    *)
(* XOR is symmetric difference.  A cell's key_xor and val_xor are kept as  *)
(* the set of rows that are in them an odd number of times: the hashes of  *)
(* different sets of rows are different but for a collision of 128 bits.   *)
(* The two statements of a round see the same tables as those of another.  *)
(***************************************************************************)
EXTENDS Integers, SequencesExt

CONSTANTS
  Rows,       \* row images
  Bits,       \* bit positions of keys and of hash words
  Subtables,  \* 4 in the code
  Samples,    \* what the two tables may differ in, see SampleType
  Modes,      \* command lines, see ModeType
  Fixed,      \* cells of a subtable for a given capacity
  AutoMin, AutoMax

(* net: copies of a row on the left less copies on the right; word: its    *)
(* hash words, one for each subtable.                                      *)
SampleType == [net : [Rows -> Int], key : [Rows -> SUBSET Bits],
               word : [Rows -> [1 .. Subtables -> SUBSET Bits]]]
ModeType == [keyed : BOOLEAN, auto : BOOLEAN, strict : BOOLEAN, recheck : BOOLEAN]

(* A key is unique, and every image is under a key of its own side.        *)
WellKeyed(x) ==
  /\ \A r \in Rows : x.net[r] \in {-1, 0, 1}
  /\ \A r, s \in Rows : r # s /\ x.net[r] # 0 /\ x.net[r] = x.net[s] => x.key[r] # x.key[s]

(* Without a key the first word of the row's hash stands for one.          *)
KeyedByHash(x) == \A r \in Rows : x.key[r] = x.word[r][1]

ASSUME IbltAssumption ==
  /\ IsFiniteSet(Rows) /\ IsFiniteSet(Bits) /\ Bits \subseteq Nat
  /\ {Subtables, Fixed, AutoMin, AutoMax} \subseteq Nat \ {0}
  /\ \A x \in Samples : x \in SampleType
  /\ Modes \subseteq ModeType

VARIABLES
  mode, sample,
  pc,         \* "sum", "peel", "decoded", "done"
  round, m,   \* cells of a subtable in this round
  cells,      \* what peeling has left of the difference
  first,      \* pure cells of the difference not yet looked at
  queue,      \* cells that became pure since
  budget,     \* events still allowed
  entries,    \* decoded entries
  repeated,   \* two of them have the same key
  found,      \* DiffRows
  outcome     \* "report", "hashdiff", "buckets", "error"

ibltVars == <<mode, sample, pc, round, m, cells, first, queue, budget, entries,
          repeated, found, outcome>>

Xor(images) == {b \in Bits : Cardinality({r \in DOMAIN images : b \in images[r]}) % 2 = 1}
Number(bits) == MapThenSumSet(LAMBDA b : 2 ^ b, bits)

KeyXor(rows) == Xor([r \in rows |-> sample.key[r]])

(* Cell of subtable j, recomputed from val_xor.                            *)
CellOf(rows, j) == <<j, Number(Xor([r \in rows |-> sample.word[r][j]])) % m>>

Cells == (1 .. Subtables) \X (0 .. m - 1)
Zero == [cnt |-> 0, rows |-> {}]
Pure(c) == c.cnt \in {-1, 1}

(* run_iblt_summaries: the right summary subtracted from the left one.     *)
Difference ==
  [at \in Cells |->
     LET here == {r \in Rows : CellOf({r}, at[1]) = at}
     IN  [cnt |-> MapThenSumSet(LAMBDA r : sample.net[r], here),
          rows |-> {r \in here : sample.net[r] % 2 = 1}]]

Abs(n) == IF n < 0 THEN -n ELSE n
Load(diff) == MapThenSumSet(LAMBDA at : Abs(diff[at].cnt), Cells)

EventBudget == (Load(Difference) \div 2) * 3 + 1

(* Second round: three cells for every difference estimated from the first.*)
Clamp(n) == Min({AutoMax, Max({AutoMin, n})})
NextCells == Clamp(3 * ((Load(Difference) + 1) \div 2))

------------------------------------------------------------------------------
(* Peeling.                                                                *)

Summarize ==
  /\ pc = "sum"
  /\ cells' = Difference
  /\ first' = {at \in Cells : Pure(Difference[at])}
  /\ queue' = <<>> /\ budget' = EventBudget /\ entries' = {} /\ repeated' = FALSE
  /\ pc' = "peel"
  /\ UNCHANGED <<mode, sample, round, m, found, outcome>>

(* The first pure cells come in any order, the others as they were found.  *)
Events == IF first # {} THEN first ELSE {queue[i] : i \in {1} \cap DOMAIN queue}

Take(at) ==
  /\ first' = first \ {at}
  /\ budget' = Max({budget - 1, 0})

Rest == IF first = {} THEN Tail(queue) ELSE queue

NoBudget == FALSE
OverBudget == budget = 0

(* The bucket check: a cell with a count of one is taken for a single row  *)
(* if the hash in it belongs into the cell.                                *)
BelongsHere(at) == CellOf(cells[at].rows, at[1]) = at

NotPure ==
  /\ pc = "peel" /\ ~OverBudget
  /\ \E at \in Events :
       /\ ~Pure(cells[at])
       /\ Take(at) /\ queue' = Rest
  /\ UNCHANGED <<mode, sample, pc, round, m, cells, entries, repeated, found, outcome>>

RepeatsOnSameSide(e) ==
  \E f \in entries : KeyXor(f.rows) = KeyXor(e.rows) /\ f.left = e.left
Repeats(e) == \E f \in entries : KeyXor(f.rows) = KeyXor(e.rows)

(* The cells of a path that have become pure join the queue.               *)
Queued(waiting, path, left) ==
  FoldLeft(LAMBDA q, c : IF Pure(left[c]) THEN Append(q, c) ELSE q, waiting, path)

(* An entry is taken out of its cell in every subtable.                    *)
Peel ==
  /\ pc = "peel" /\ ~OverBudget
  /\ \E at \in Events :
       LET sign == cells[at].cnt
           rows == cells[at].rows
           path == [j \in 1 .. Subtables |-> CellOf(rows, j)]
           e == [rows |-> rows, left |-> sign > 0]
           left == [c \in Cells |->
             IF c = path[c[1]]
               THEN [cnt |-> cells[c].cnt - sign,
                     rows |-> (cells[c].rows \ rows) \cup (rows \ cells[c].rows)]
               ELSE cells[c]]
       IN
       /\ Pure(cells[at]) /\ BelongsHere(at)
       /\ cells' = left
       /\ Take(at)
       /\ queue' = Queued(Rest, path, left)
       /\ entries' = entries \cup {e}
       /\ repeated' = (repeated \/ Repeats(e))
  /\ UNCHANGED <<mode, sample, pc, round, m, found, outcome>>

CountsLeft == \E at \in Cells : cells[at].cnt # 0
Leftover == \E at \in Cells : cells[at] # Zero

PeelFails ==
  /\ pc = "peel"
  /\ \/ Events # {} /\ OverBudget
     \/ ~OverBudget /\ \E at \in Events : Pure(cells[at]) /\ ~BelongsHere(at)
     \/ Events = {} /\ Leftover

------------------------------------------------------------------------------
(* The strategy.                                                           *)

GiveUp ==
  /\ outcome' = CASE ~mode.keyed -> "buckets"
                  [] mode.keyed /\ mode.strict -> "error"
                  [] mode.keyed /\ ~mode.strict -> "hashdiff"
  /\ pc' = "done"
  /\ UNCHANGED <<mode, sample, round, m, cells, first, queue, budget, entries,
                 repeated, found>>

(* The dialect has no such aggregate, or the statement fails.              *)
StatementFails == pc = "sum" /\ GiveUp

MayRetry == mode.keyed /\ mode.auto /\ round = 1

SecondRound ==
  /\ PeelFails /\ MayRetry
  /\ round' = 2
  /\ m' = NextCells
  /\ pc' = "sum"
  /\ cells' = <<>> /\ first' = {} /\ queue' = <<>>
  /\ UNCHANGED <<mode, sample, budget, entries, repeated, found, outcome>>

CapacityExceeded == PeelFails /\ ~MayRetry /\ GiveUp

(* classify, classify_keyless: entries of both sides under one key.        *)
Keys(side) == {KeyXor(e.rows) : e \in {f \in entries : f.left = side}}
Classified ==
  [key : Keys(TRUE) \ Keys(FALSE), status : {"missing_right"}]
    \cup [key : Keys(FALSE) \ Keys(TRUE), status : {"missing_left"}]
    \cup [key : Keys(TRUE) \cap Keys(FALSE), status : {"modified"}]

Decoded ==
  /\ pc = "peel" /\ Events = {} /\ ~Leftover
  /\ mode.keyed \/ ~repeated
  /\ found' = Classified
  /\ pc' = "decoded"
  /\ UNCHANGED <<mode, sample, round, m, cells, first, queue, budget, entries,
                 repeated, outcome>>

(* Without a key, two contents under one 32-bit prefix are not told apart. *)
PrefixCollision ==
  /\ pc = "peel" /\ Events = {} /\ ~Leftover
  /\ ~mode.keyed /\ repeated
  /\ GiveUp

Holders(key) == {r \in Rows : sample.key[r] = key /\ sample.net[r] # 0}

(* recheck_diffs drops the keys under which the sides agree after all.     *)
Rechecked == {d \in found : Holders(d.key) # {}}

Report ==
  /\ pc = "decoded"
  /\ found' = IF mode.keyed /\ mode.recheck THEN Rechecked ELSE found
  /\ outcome' = "report"
  /\ pc' = "done"
  /\ UNCHANGED <<mode, sample, round, m, cells, first, queue, budget, entries,
                 repeated>>

------------------------------------------------------------------------------
InitIblt ==
  /\ mode \in Modes /\ sample \in Samples
  /\ IF mode.keyed THEN WellKeyed(sample) ELSE KeyedByHash(sample)
  /\ pc = "sum" /\ round = 1
  /\ m = IF mode.keyed /\ mode.auto THEN AutoMin ELSE Fixed
  /\ cells = <<>> /\ first = {} /\ queue = <<>> /\ budget = 0
  /\ entries = {} /\ repeated = FALSE /\ found = {} /\ outcome = "none"

NextIblt ==
  \/ Summarize \/ StatementFails
  \/ NotPure \/ Peel \/ SecondRound \/ CapacityExceeded
  \/ Decoded \/ PrefixCollision \/ Report

SpecIblt == InitIblt /\ [][NextIblt]_ibltVars /\ WF_ibltVars(NextIblt)

------------------------------------------------------------------------------
(* The differences of two keyed tables.                                    *)
Truth ==
  LET left == {sample.key[r] : r \in {x \in Rows : sample.net[x] > 0}}
      right == {sample.key[r] : r \in {x \in Rows : sample.net[x] < 0}}
  IN  [key : left \ right, status : {"missing_right"}]
        \cup [key : right \ left, status : {"missing_left"}]
        \cup [key : left \cap right, status : {"modified"}]

(* No difference is lost: a report without a fallback names every key the  *)
(* tables differ in, and no other once the differences were checked again  *)
(* (iblt_diff.rs:451-513, 325-345).                                        *)
NothingMissed ==
  outcome = "report" /\ mode.keyed =>
    /\ {d.key : d \in Truth} \subseteq {d.key : d \in found}
    /\ mode.recheck => {d.key : d \in found} = {d.key : d \in Truth}

(* Without keys a decoded summary is exact, or bucketdiff answers instead: *)
(* its counts are the numbers of row contents one side has more of         *)
(* (iblt_diff.rs:555-600, bucket_diff.rs:1173-1212).                       *)
KeylessExact ==
  outcome = "report" /\ ~mode.keyed =>
    /\ \A d \in found : d.status # "modified"
    /\ Cardinality({d \in found : d.status = "missing_right"})
         = Cardinality({r \in Rows : sample.net[r] > 0})
    /\ Cardinality({d \in found : d.status = "missing_left"})
         = Cardinality({r \in Rows : sample.net[r] < 0})

(* Decoding ends, also when an entry that is no row is taken out of its    *)
(* cells and found in them again for ever; the event budget sees to it     *)
(* (iblt_diff.rs:461-474).                                                 *)
PeelEnds == <>(outcome # "none")

(* What the design says of a decoded summary: it fails, or it is right.    *)
NoMisdecode == outcome = "report" /\ mode.keyed => found = Truth
==============================================================================
