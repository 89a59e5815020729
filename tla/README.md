# A TLA+ model of hepta-dbcli

hepta-dbcli is a database client for agents and people: a one-shot CLI, a REPL
and an MCP server over several database backends, with a data comparison tool
(`delta-diff`), a bulk loader, an audit ledger and a synthetic data generator.
This directory holds TLA+ models of its core protocols, the TLC runs that check
them on small instances, and TLAPS proofs that hold for every instance.

Paths below are relative to `src/dbcli/src/`. `PROJECT.json` maps every
definition to the lines it models and lists the hazards the properties are for.

## 1. Inventory

| Component | State it keeps | Operations | Hard behaviours | What makes it correct |
|---|---|---|---|---|
| **delta-diff, hashdiff** (`delta_diff/hash_diff.rs`, `rowdiff.rs`, `checksum.rs`, `recheck.rs`) | two session snapshots, key domain, segments, page cursors, difference list | open snapshots, MIN/MAX, full checksum, first-pass aggregation, bisection, page merge, COMMIT, recheck | writes between any two queries; two sides read at different instants; `i64` overflow of key arithmetic; page boundaries | a row nobody wrote is judged correctly; under snapshots the result is exact |
| **checkpoint** (`delta_diff/progress.rs`) | header and appended shard lines in a file, completed map | open and replay, record, finalize | kill between any two steps, a line cut short, resuming on changed tables | a record vouches only for what was seen |
| **delta-diff job** (`delta_diff/mod.rs`, `report.rs`, `cmd.rs`, `api.rs`, `strategy.rs`) | report, exit code | run one strategy, write the report, exit 0/1/2 | failure part way | the exit code follows the report |
| **strategy routing** (`delta_diff/engine.rs`, `pairing.rs`, `metadata.rs`) | none | pair columns, choose the key, decide a strategy from keys, types, drivers | two tables with their own metadata, seven strategies, six reasons to fall back | the strategy that runs finds what it takes for granted, and the user knows which it is |
| **keyeddiff, minusdiff, joindiff, naivediff** (`keyed_diff.rs`, `minus_diff/`, `join_diff.rs`, `naive_diff.rs`) | shared anchor, counts, bucket checksums, page cursors, point look-ups | count, checksum buckets, scan or merge them, look rows up, set operators, fall back | writes between any two statements; counts that are derived, not read | differences nobody touched are reported, snapshots are exact, counts add up |
| **bucketdiff** (`bucket_diff.rs`, `point_lookup.rs`) | plan of buckets, exact counts, savepoints | estimate, point look-up, one-statement summary, keyless IBLT, range or hash buckets | speculation that fails inside a transaction; estimates that decide; multisets | a failed speculation costs nothing; off by the writes only |
| **iblt** (`iblt_diff.rs`) | two summaries, a work list of cells | summarise, subtract, peel, second round, classify, recheck | cells that only look pure, capacity, prefix collisions | what decodes misses nothing; peeling ends |
| **audit ledger** (`audit/mod.rs`, `audit/writer.rs`) | daily JSONL files shared by processes, sequence counter, writer behind a mutex | open, retention, record (append under a file lock) | several processes and tasks, midnight, disk full, kill | whole lines, fail-closed writes, retention |
| **CLI and REPL** (`cli.rs`, `interactive.rs`) | connection, statement list | gate, record intent, execute, record outcome | failure between intent and execution | no data change without an intent |
| **MCP connection table** (`server.rs`, `backend/factory.rs`) | name -> pending / connecting / connected / unavailable | startup probe, lookup, resolve credentials, connect, publish, query | concurrent calls and probe over one table, state read before an await and used after | bounded pools, independent failures, every call ends |
| **bulk load** (`load/`) | plan, per-table transaction | plan and order, dry run, load each table, report completed tables | foreign keys, failure part way, running again | parents first, all or nothing, truthful `completed` list |
| **database backends** (`backend/`) | pools, sessions | connect, query, snapshot, SQL dialects | pool limits, broken sessions | no lost or shared session |
| **configuration, keychain** (`config.rs`) | config file, OS keychain | read, migrate passwords | crash between two stores | the password is never lost |
| **synth, generation** (`synth/generator.rs`, `fk_pool.rs`, `rules.rs`, `cardinality.rs`) | foreign key pools, rows of the table in hand, finished tables | validate, order tables, draw, redraw, continue keys, pin, derive, repair, publish | each phase rewrites what an earlier one made true; pools that are drawn empty | keys resolve and are distinct, derived cells are fresh, repair keeps what it was asked for |
| **synth, training and statistics** (`synth/{mod,model,marginal,copula,expr,mine,profile,quality,pii,report,export}.rs`) | models on disk | profile, mine, train, report | numerics | no protocol |
| **graph** (`graph.rs`) | foreign key graph | order, cycle path, components | cycles | an order exists iff there is no cycle |
| **presentation** (`output.rs`, `delta_diff/{export,sample,hydrate,sql_patch}.rs`, `tabular.rs`, `queries.rs`, `main.rs`) | none | formatting and parsing | - | not protocol code |

How they interact. The CLI, the REPL, the MCP server and the loader call
`AuditSession::record` before (intent) and after (outcome) they use a backend;
the first is fail-closed, the others are best effort. All processes of a user
share the ledger's directory and meet only at the file lock. `delta-diff` reads
through two backend sessions; applications write to its tables while it runs.
MCP tool calls and the startup probe share the connection table through an async
mutex that is never held across an await.

## 2. Modules

| Module | Models | Notes |
|---|---|---|
| `DiffContract` | what one comparison promises its caller | abstract; `HashDiff` implements it |
| `KeyRange` | `split_range`: the `i64` arithmetic that cuts a key domain | operators, width is a constant |
| `DiffRoute` | pairing of names, the key of a plan, `route_impl` | operators over plans |
| `BranchRepair` | `apply_branch_repair`, round by round | operators over rows |
| `HashDiff` | a hashdiff job: runs over one checkpoint file beside writing applications | extends `KeyRange`, implements `DiffContract` |
| `KeyedDiff` | keyeddiff, minusdiff with its fall-back, joindiff, statement by statement | |
| `IbltDiff` | IBLT summaries, peeling, two rounds, with and without keys | |
| `KeylessDiff` | bucketdiff with its three fast paths | what `IbltDiff` shows of keyless decoding is one step here |
| `AuditLedger` | sessions, day files, locks, retention, and the statements that depend on `record()` | |
| `BulkLoad` | load order, transactions, failure and repetition | |
| `ConnectionCache` | the MCP server's table of connections | |
| `SynthGenerate` | generation of related tables, phase by phase | extends `BranchRepair` |
| `AlgorithmsMC` | inputs and properties for the four modules of operators | |
| other `*MC` | small instances for TLC | |
| `KeyRangeProofs`, `AlgorithmsProofs`, `HashDiffProofs`, `KeyedDiffProofs`, `KeylessDiffProofs`, `AuditLedgerProofs`, `BulkLoadProofs`, `ConnectionCacheProofs` | theorems | each extends the modules it is about; `AlgorithmsProofs` also `IbltDiff` and `SynthGenerate` |

**HashDiff.** `pc` is the place in `diff` / `diff_inner` / `recheck_diffs`; each
query is one action, so a `Write` of an application may fall between any two.
`snap[s]` is the session snapshot of a side; when it is empty the query sees
`tab[s]`, as under `--consistency none`. A checksum is modelled as the set of rows
it covers: the MD5 sums are taken as collision free. `todo` holds the segments
still to be compared, in any order, `cur` the one in hand. `buf`, `pos` and
`exhausted` are the two `PageCursor`s of `row_level_diff`. `file` is the
checkpoint (header, replayed lines, unterminated fragment), `completed` the map
the run replayed. `touched` and `late` are history variables: the keys written
since the job's first run began and since the snapshots were committed. `mode`
holds the command line options that change the steps. `Abort`, `TornRecord`,
`StartTornHeader` and `DepthExceeded` are the ways a run ends early;
`Finalize` is before `Emit` as in `execute_diff_inner`.

**KeyedDiff.** `mode.way` says which strategy was routed to; minusdiff's `FallBack`
continues on keyeddiff's actions. `total`, `sums` and `expected` are sets of at most
one value: empty while the code's `Option` is `None`. `path` is the branch
`diff_inner` took. What a set operator or an outer join returns is taken from its
meaning on the tables the statement sees. `base` and `touched` are history. NULL keys
and duplicate keys are left out, as is naivediff.

**IbltDiff.** A word of a hash and a key are sets of 1-bits, so XOR is symmetric
difference; a cell keeps its count, and the set of rows that are in its sums an odd
number of times. That is exact unless different sets of rows have the same 128 bit
hash. Without a key the first word of the row hash stands for one (`KeyedByHash`).
`NotPure` and `Peel` take one entry of the work list each: first the pure cells of the
difference, in any order, then `queue`, in the order cells became pure (`Queued`). Both rounds
see the same tables.

**KeylessDiff.** Tables are multisets of contents. The three fast paths, with their
gates, savepoints and failures, come before range or hash buckets. `left` is the
session that the one-statement summary and the savepoints use. `Decode` is exact or
gives up, which is what `KeylessExact` says of keyless decoding (section 4 gives the
two cases in which it would not be).
Warnings are not modelled.

**SynthGenerate, BranchRepair.** `phase` is the place in `generate_with`; a table goes
through draw, distinct, keys, pin, derive, repair and publish. A random draw is any
value of its space; "10,000 attempts" may fail whenever a redraw was needed at all;
a redraw of one row covers the columns the code redraws one after the other, which
share no state. Values are small integers; a derivation is a copy of a column of the
row or of its parent, and reads no derived column (`SynthAssumption`: the code sorts chained
derivations, here they are of one level); the rule's null rate is one half; a composite key is continued at most `MaxExtra` steps past its space where the code
goes on for 9,900; the copula, conditional pins, PII providers and the cross-check of predicates
are left out. In `BranchRepair` a predicate is one column equal to a
value, targets are counted in half rows, the tolerance is below half a row.

**DiffRoute.** A name is a record of an identity and a spelling (`id`, `case`).
Warnings are one flag: the run tells the user of a degradation or it does not.

**AuditLedger.** An event is written as two pieces to make a cut line visible.
`call[c].at` walks through `record`: sequence number and time stamp first
(`stamped`), then the mutex and the date check (`entered`), the file lock, two
pieces, unlock. Files are nodes; `dir` maps a day to the node that has its name, so
that a session may go on writing to a file retention has unlinked. `Intend` and
`Execute` are the statement loop of `cli.rs` and `interactive.rs`.

**BulkLoad.** `degree`, `ready` and `order` are those of `stable_topo_order`; a
table is the rank of its name, since the ready set is ordered alphabetically. An edge
is a row of the foreign key query (`queried`, numbered rows), so that two tables can have
several; `Entries` is how often a child stands in its parent's list. `plan` is the set of
distinct tables and `named` the number of names given, since `--tables` keeps
repetitions. The database is external: it checks primary and foreign keys row by row
and keeps the open transaction. The keys it enforces (`enforced`) are kept apart from the
rows queried: the code asks for one schema only, or for none if it knows none, and
matches names exactly, so that either can have keys the other lacks. `SelfRefs` says
which rows of a file refer to which rows of the same file. A constraint that is only
checked at COMMIT is a `CommitFails`, which also covers a COMMIT whose answer is
lost. That a repeated load ends as `Duplicate` assumes a key that the file
supplies; a table without one would take the rows twice.

**ConnectionCache.** A step is one critical section over the table or one answer
of keychain, driver or database. The result of `Lookup` is carried across the await,
which is where the interleavings come from.

## 3. Runs

| Run | Instance | Shows |
|---|---|---|
| `algorithms` | every domain of a four-bit key type cut in up to 6; all name lists up to 3 of 4 names; all tables of two columns and up to two indexes; all pairs of routable plans; all branch pairs over 3 rows of 3 columns | `split_range` covers each key once; pairing is 1:1; a unique key is enforced; routes are justified and told; repair takes no match it should leave |
| `hashdiff` | 5 keys, tables off by one or two rows, 2 segments, threshold 2, pages of 1, 1 write, 2 aborts, three option sets | see below |
| `hashdiff_live` | 4 keys spread over the whole of a small integer type, so widths wrap; depth limit 0, pages of 1, with snapshot, and with recheck only | exactness with wrapped widths; every run ends |
| `keyed` | 4 keys, 2 values, 12 pairs of tables, all option sets of three strategies, 2 writes, buckets of 2, pages of 2, chunks of 1 | see below |
| `iblt` | 4 rows over 4 subtables of 2 to 4 cells, all placements with no two rows in the same cells throughout; a modified and a missing row under keys; without keys, contents with one or two spare copies, some with one prefix; three option sets | decoding is safe and ends |
| `keyless` | 4 contents under 2 keys and none, 9 pairs of multisets, estimates that are right and wrong, 1 write, all option sets | see below |
| `audit` | a CLI session and a server with 2 clients, one midnight, retention 1 day, 1 fault | whole lines, audited writes, retention, every `record()` returns |
| `bulk` | all foreign key graphs over 3 tables with files and one without, repeated key rows and names, keys not queried, self-references, 3 runs, 2 faults | order, what is called a cycle, atomic tables, truthful list |
| `connections` | 2 clients, 7 calls, probe, 2 failures, one eager and one lazy name | bounded pools, failures not sticky, calls end |
| `synth` | some 240 schemas of one to three tables, 2 to 4 rows | integrity of generated data, see below |

`hashdiff` checks `StableDifferenceFound` (no difference in an
unwritten row is lost), `NoFalseAlarm` (none is invented), `TransientDropped` (the
recheck drops what only the window made differ), `SnapshotExact` (under snapshots
the result and the totals are exact), `CheckpointSound` (the checkpoint vouches only
for equal keys) and `ContractSpec`, the refinement of `DiffContract`. The
mapping hides everything but tables, exit code and reported keys; `withheld` is
mapped to the keys of segments the checkpoint carries over as differing.

`keyed` checks the three strategies that look at a difference once only:
`StableReported` (a difference in a row nobody wrote is reported), `SnapshotExact`, and
`CountsAddUp` (the missing, changed and equal rows of a report add up to its totals, or the
report warns). `iblt` checks `NothingMissed` (a keyed decoding names each difference), `KeylessExact`
(keyless counts are exact, or the decoding gives up) and `PeelEnds`. `keyless` checks
`SnapshotExact`, `OffByWritesOnly` (without a snapshot the counts are off by at most what was
written) and `NeverPoisoned` (no speculation leaves a transaction that refuses the
next statement). `synth` checks the finished tables: `KeysResolve`, `ReferencedDistinct`,
`PrimaryKeysDistinct` and `DerivedFresh`, the last where no undone round of repairs can have
left a row behind that derivations read or write (`LeftBehind`, see run `branch_trace`). `algorithms` also checks `RepairKeeps`: a
round of branch repair takes no match from a branch that is at or below its target, although
branches write one after the other over stale derived columns.

Why the bounds are enough. Five keys in two segments with threshold 2 give every
path: matching and differing full range, matching segments, a segment of three rows
that is bisected and segments of one or two that are merged, over pages that are
full, and an empty last one; sides that end first and sides that run dry first. One
write can fall before, between and after any two queries; it already separates
the two reads of a row and the snapshot from the recheck. A run with two writes
is beyond five minutes. The three option sets are snapshot, snapshot with checkpoint,
and neither snapshot nor recheck with checkpoint; recheck without a snapshot is in
`hashdiff_live`. Two aborts allow a torn record, the run that appends to it, and a third
run that replays the file. Pools are bounded by 6 while 7 calls and the probe could
open 8. Three loads and two failures allow a partial load, a failed repetition and a
final success. In `bulk` the query has two rows for tables that are neighbours, and returns any
part of the keys where there are at most two; of the two files that refer to themselves one lists
the child first. Four keys in buckets of two give `keyed` equal and differing buckets, a
skewed pair whose small side needs more than one chunk, full and short pages, and an
anchor given up on the cell budget; two writes
can compensate each other. Subtables of two cells make rows share cells in `iblt`, so that
impure cells that pass for pure ones occur. In `keyless` one
content more than another, contents with the same key and with none, and estimates off by a factor
of four reach every gate on both sides. The schemas of `synth` have keys with fewer values than rows,
pools with as many and with fewer values than children, keys that are foreign keys, and
chains in which a redraw in the middle table feeds the last.

Fairness. `HashDiff`: weak fairness of the run's own steps (`Compare`) - one task
awaits one answer after the other, and every statement is answered or fails. Writes,
restarts and aborts are not fair. `AuditLedger`: weak fairness of each
caller's `Record`; mutex and file lock are released by whoever holds them, by `Leave`
or by the kernel after a kill. With finitely many events per session (`MaxSeq`) no
caller can be passed over for ever; the code's mutex promises no more.
`ConnectionCache`: weak fairness of each call's steps. `IbltDiff`: weak fairness of `Next`,
one sequential function without outside influence. `CHECK_DEADLOCK` is off where
the bounded system stops: all events used, all calls made, all loads run.

### Disagreements found

Two runs TLC must find violated:

* `hashdiff_resume_exit`: a resumed job skips the segments its checkpoint records as
  differing and exits 0 (the repository's README: 0 means identical).
* `branch_trace`: when a round of branch repair moved no branch, the backups are put back in
  the order they were taken. If two branches wrote the same row, the second backup
  holds what the first branch wrote, and it is put back last: the row keeps the
  first branch's values and a stale derived column, while all flip counts are reset.
  `generator.rs:1669` says the round leaves no trace. A finished table may thus hold derived
  cells that do not follow from their sources; `DerivedFresh` sets such tables aside.

Seen while modelling and not given a run of their own. The properties named are
defined in the modules; adding one to the component's cfg shows the behaviour.

* `IdenticalMeansIdentical` with a key equal to the greatest integer: `hi + 1` wraps
  in a release build (`hash_diff.rs:129`), nothing is compared and the exit code is 0.
* `AcceptedReadable` (run `audit`): the event after a partial line is appended to the
  fragment and accepted, although a reader of the JSONL file can parse neither.
* `NeverStaleDay` (run `audit`): midnight between date check and write puts an event into
  yesterday's file.
* `CycleMeansCycle` (run `bulk`): a table that references a lookup table without a file
  is refused as part of a cycle (`plan.rs:395`), and so is a load whose `--tables` repeats a
  name (`plan.rs:107`): the order has fewer entries than `nodes.len()` (`plan.rs:414`),
  and the message names no table if there is no other reason.
* Self-references are left out of the load order (`plan.rs:274`) and a file is inserted in its own
  order (`loader.rs:272`): a row before the row it refers to is rejected where the
  database checks each row. So is a row under a key of another schema, since the keys of one
  schema are queried (`plan.rs:159`). `ForeignKeysHold` names both cases.
* `AuditNamesConnection` (run `connections`): the failed startup probe overwrites a
  connection a call has opened (`server.rs:317`); that call's query is recorded without a target.
* `NoMisdecode` (run `iblt` with `Samples <- KeyedSamples`, `Modes <- KeyedModes`): three rows
  of one cell pass the bucket check as one (`iblt_diff.rs:494`); the entry made up is peeled again with the
  other sign, and a report without recheck names a key neither table has.
* `KeylessExact` where two contents share all four cells and one has two copies to spare on the
  left, the other on the right (`net |-> <<2, -2, 0, 0>>`): counts cancel, the XOR of two equal
  hashes is zero, and the difference is decoded as none. `iblt_diff.rs:548` says the success
  path never publishes an approximate count. The cells are residues of the hashes, so that
  this takes no hash collision, but four residues that agree. Likewise `NothingMissed` where
  three rows, two of one side and one of the other, share all four cells.
* `TotalsExact` (run `keyless`): the one-statement summary reports the catalog's estimates as
  totals (`bucket_diff.rs:1124`).
* `NeverPoisoned` with `CatalogFails = TRUE`: the error of an estimate is ignored where it
  has aborted the transaction (`bucket_diff.rs:1473`); the `COUNT` that follows is refused.
* `KeyUniqueSound` with `Mangled = TRUE`: index columns that are not recognised in the
  index definition are dropped, and the rest is called unique (`metadata.rs:233`).
* A record appended to a torn checkpoint line returns Ok and is unreadable
  (`progress.rs:116`; the segment is compared again); `finalize` removes the old `.done` file
  before it renames (`progress.rs:147`); a checkpoint is reused although `--where` or the key
  changed (`mod.rs:579`, which the design forbids).
* A file exactly *n* days old is deleted under "older than *n* days" (`audit/writer.rs:195`).
* A load whose COMMIT succeeds without an answer is reported as rolled back
  (`load/loader.rs:298`, `CommitFails`); files match tables regardless of case, the load order
  does not (`load/plan.rs:292`).
* A unique foreign key that is referenced itself is refused, its pool having been
  drained by the draws before its distinctness is judged (`generator.rs:518`; run `synth` ends
  such schemas in `refused`).
* A composite primary key may repeat where a member is pinned, derived or repaired, since
  these phases come after key uniqueness; the code calls that the user's choice.
  `repair.set` may name the target of a relationship's derivation (only the
  table's own are guarded), and a second relationship on the same column has no effect.

## 4. Proofs

The proof modules are checked by TLAPS without any assumption but the named ones on the
constants: `MaxIntAssumption`, `AlgorithmsAssumption`, `HashDiffAssumption`, `KeyedAssumption`, `KeylessAssumption`, `BulkLoadAssumption`,
`AuditAssumption`, `ConnectionCacheAssumption`, `IbltAssumption`, `SynthAssumption`; TLC evaluates each of them in a run. Where a
theorem needs more, its statement says so.

* `SplitRangeCovers`, `SplitRangeDisjoint` (`KeyRangeProofs`): for every integer width,
  domain and piece count, wrapped widths included, `split_range` loses no key and covers
  none twice. The argument: the cursor is the greatest bound so far; a key belongs to the
  first piece whose bound exceeds it, which exists because the last bound is `hi`. The module
  also holds what the proofs need of sums over finite sets: `MapThenSumSet` folds by a
  recursive function on subsets, of which `SumsExist`, `SumsUnique` and `TotalRemove` say that
  it exists, is unique and does not depend on the order. `SubsetInduction` (what a set inherits
  from the set less one member holds of every finite set; a least counterexample stands in for
  induction) then gives sums that are compared, added, and set against a count (`TotalLe`,
  `TotalAdd`, `TotalCounts`). A fold (`FoldLeft` and the other folds of the community modules) is
  likewise a recursive function on subsets: `FoldsUpto` says that it exists, and `UptoInduction`
  carries a property from each step to the next; `StepsExist` does the same for a recursive
  function on `0 .. n`.
* `AlgorithmsProofs` proves the six properties of run `algorithms` for all constants, and each
  of them from a theorem about inputs of any size, which the run's inputs are instances of:
  * `RouteJustified` and `RouteTold`: for all plans, hints and connections the routed strategy
    finds what it takes for granted, and a degradation is told. There is one lemma per
    strategy; the decision table is a case distinction, no induction is needed.
  * `NamesPaired`: `pair_names` over lists of any length. The invariant of each of the two passes
    says that the pairs so far are apart; of the first, that it pairs exact spellings only and, where
    the left names are distinct, every one that exists on the right; of the second, that it
    keeps what the first found.
  * `UniqueKeyIdentifies`: what the plan calls a unique key contains a complete unique index,
    for every table with a well-formed catalogue (`Enforced`). It needs two hypotheses that the
    code does not check. Index definitions spell the columns they enforce (`~Mangled`; what
    happens otherwise is a hazard of `metadata.rs:233`). With `--key`, no column
    of an index has a twin in the key that differs from it only in case (`NoTwin`):
    `index_covers_unique` compares lower-cased names, so that in a table with the quoted columns
    `a` and `A` a unique index on one would vouch for the other.
  * `BisectableKeysAreIntegers` and `MinusKeysIdentify` lead from there to `RouteSound`. A bisectable key
    is looked up by the left spelling and found on the right, because the key has one column;
    the pairing of two aligned keys is injective between sets of one size, hence onto,
    and the right key keeps all its columns.
  * `RoundKeepsMatches`: a round of the branch repair over any rows, columns, values and
    branches, where only columns in a set `D` are derived and no repair writes one of
    them (`Repairable`). The second half is what `rules.rs:599` and `generator.rs:1457` refuse, with one gap:
    both collect the table's own `derive` entries, so that a `set` may write a column derived by a
    relationship's `derive`, and of such rules the theorem says nothing. What
    must be kept of a row is not that it matches but that it matches both as it stands and
    once derived (`Safe`): the check before a rewrite looks at derived rows only, and the
    measurement at rows with stale derived values. Every backup of such a row is
    safe too, so that putting a round back, in whatever order rows were saved, keeps it.
* `TypeCorrect` (`HashDiffProofs`): `Spec => []TypeOK` for every key set, table,
  segmentation, page size and number of writes and aborts. `TypeOK` is not inductive: a
  count is a number only if checksums are finite (`FiniteOK`), the domain is a segment
  only if one side has a key (`DomainOK`), and a finished merge still needs both
  checksums (`CountedOK`). `TypeInv` is their conjunction. Lemmas state what each operator
  (`RowsOf`, `DiffRows`, `EndsOf`, `Domain`, `SplitRange`) returns.
* The other theorems of `HashDiffProofs`: what a hashdiff job tells its caller, for every key set,
  segmentation, page size and batch size, with any number of writes and interrupted runs. Four invariants, the
  other three resting on the first:
  * `SafeInv`: whatever the run has read *tells* of the rows nobody wrote since. `Tells(R,
    t, ks, hidden)` says that the rows `R` are those of table `t` under the keys `ks`, but for the
    keys in `hidden` (those `touched`); such a fact survives any write. It holds of
    snapshots, checksums and first-pass aggregates, of page buffers and of what the recheck
    saw (with `late` hidden). During a merge there is a frontier (`Frontier`): all keys up
    to it are judged, and beyond it each buffer has the rows its cursor has passed; that
    is what a page fetched at a later time, a page that is not full, and a side that runs
    dry must keep. Entries of the checkpoint without differences vouch for their segment
    (`FileTrue`). It gives `RecordsSound`, `ReportsNoFalseAlarm`, `RecheckDropsTransients`.
  * `CoverInv`: every stable difference is between the ends of the key domain, in a
    segment that waits, in the one in hand, or settled. It gives `FindsStableDifferences`.
  * `RefineInv`: what a skipped segment leaves out is withheld, or was merged by the run
    itself; a checkpoint is left behind only by a run that failed. It gives
    `ImplementsContract`, the refinement of `DiffContract` for all constants.
  * `ExactInv`: under a snapshot nothing is hidden. The key domain, the checksums and the
    page buffers are those of the two snapshots, which stay until the COMMIT; every row of them
    lies in a segment that waits, in the one in hand, or in a reported one (`SightTrue`); no
    key lies in two of these (`Apart`); and the report so far is the comparison of
    its segments (`TallyTrue`). It gives `HashSnapshotExact`: the row counts of disjoint
    segments add up (`SumOfParts`). That pieces stay inside their segment is
    not true of all bounds: where `hi - lo` overflows `i64`, they may leave it. The
    proof shows that such a segment is never cut again, since its wrapped width is at most 1
    and `SmallEnough` therefore holds (`SplitApart`); the theorem needs no bound on the span.

  All but the first assume `MaxInt \notin Keys`: the domain ends at `hi + 1`, which wraps
  (section 3).
* `StableReportedHolds`, `SnapshotExactHolds`, `CountsAddUpHolds` (`KeyedDiffProofs`): the
  three safety properties of keyeddiff, minusdiff and joindiff, for every key set, pair of
  tables, threshold and page, chunk and bucket size. One statement, `True(T, H)`, carries
  the first two: whatever has been read (checksums, a count of zero, pages, look-ups, the
  report) tells of the tables `T` but for the keys `H`, and a difference of `T` outside `H`
  is in the report, in a bucket that waits, or in the merge under way. `TrueStep` shows that
  every action of the comparison keeps it as long as its statements see `T` outside `H`.
  * `StableInv` is `True` of the tables as they are now and the keys written: a write adds
    its key to `H`.
  * `ExactInv` is `True` of the snapshots with no key set aside, and adds the counts: a
    total is the size of its snapshot, a cursor fetches what was counted, nothing warns,
    and the rows counted but not fetched are those the small side lacks. It starts over
    when minusdiff gives way to keyeddiff.
  * `SumsInv` says what a run that ends without a warning has read: as many rows as it
    counted. Counting two finite sets and their differences gives `CountsAddUp`.

  `KeyedInv` (types, phases, the two cursors) is under all of them. The proof needs `Skew` > 1
  (`KeyedAssumption`; 8 in the code): with a ratio of 1 the two sides may be equally large,
  `merge_small_vs_hits` then counts no missing row without having looked at the rows of the other
  side, and TLC finds `StableReported` violated.
* `KeylessSnapshotExact`, `KeylessOffByWritesOnly` (`KeylessDiffProofs`): what bucketdiff
  counts, for every finite set of contents, all their keys and hashes, every pair of tables
  and all sizes and limits. Whichever of the five ways answers, the argument is one. `N`
  counts, by side and content, the writes to what the statements see: no more together than
  the rows written, none at all on snapshots. A content for which `N` is 0 is *quiet*, and every
  statement shows of it what was there at the start. What each phase knows of the quiet contents
  (`Told`) needs a second function, `B`, what was counted of each side, since the point look-up
  compares what it finds with a COUNT of its own (`LookupFact`, the only phase in which a
  number, not a set, is carried). For the buckets it takes that each content is in one bucket
  and no other (`SomeBucket`, `OneBucket`; ranges of the key abut, `RangesAbut`, and every key
  that was seen is in the plan, `PlanTrue`), that a bucket passed without a difference has
  no quiet content that differs (`SumsFact`), and that what was reported of the pulled ones is right for
  its quiet contents (`Found`). Sets that agree on the quiet contents differ in size by no more than the sum of `N`
  (`CardinalityNear`), counts of copies likewise (`TotalNear`): that is `Answered`, of which
  both theorems are special cases.
* `KeylessNeverPoisoned` assumes `~CatalogFails`; `PoisonedByStatistics` shows why it must, and
  that nothing else does: of the statements bucketdiff means to do without, only the
  estimate leaves a transaction aborted (section 3).
* `PoolsStayBounded` (`ConnectionCacheProofs`): the pools the server opens are bounded,
  whatever number of calls is made or fails. A client has a *chance* at a name while it may
  still open a pool for it (`MayOpen`); opening one uses the chance up, storing it takes
  everybody's, and only the failed probe gives chances back, one per client and once. `PoolInv`
  adds up pools and chances. The theorem assumes a client at all: without one
  the probe's own pool exceeds the bound of 0. `TypeCorrect` is proved as well.
* `LedgerLinesWhole`, `LedgerAcceptedOnDisk`, `LedgerWritesAudited`,
  `LedgerKeptForRetention` (`AuditLedgerProofs`): the four safety properties of run
  `audit`, for any number of sessions, tasks, days, events and faults. The inductive
  invariant `IInv`: one task of a session writes at a time, and one session writes to a
  file at a time (`Exclusive`); sequence numbers are drawn once and only by tasks on
  their way (`Numbered`); what a task has written follows from where it stands in
  `record()`, and half way its first piece is the last thing in the file its session has
  locked (`Own`); no piece is written twice and a second piece stands right behind its
  first (`Lines`); what was accepted stands whole in a file (`Promised`); and a file loses
  its name only when its day has expired, no event standing in the file of a day before
  its own (`Named`). `Named` is what connects the date check, made before the file lock, with a retention that runs in
  another process. `AcceptedOnDisk` and `KeptForRetention` follow from `Promised` and
  `Named`, `WritesAudited` from both.
* `BulkLoadProofs` proves all five invariants of run `bulk` for every finite schema, set
  of files, file size and number of runs and failures: `LoadOrder`, `CycleDetection`,
  `NoForeignKeyError`, `WholeTables` and `CompletedReported`; and `TypeCorrect`. Any list of names,
  any rows of the key query, any keys enforced and any order of the rows in a file are
  allowed, with no relation assumed between keys enforced and keys queried. The
  inductive invariant `IInv` says that while the order grows, the degree of a table is
  the number of query rows that lead to it from parents not yet placed and `ready` holds exactly the unplaced
  tables without any (`DegreesCount`); that a placed table has *all* its known parents placed
  before it, so that a table with a parent outside the plan is never placed (`Ordered`);
  that a transaction has rows only if its table had none
  (`OpenTransaction`, what makes a repeated load fail instead of doubling a table); and
  that the completed tables are the order up to `at` (`CompletedSoFar`). `NoOrphan`, that no
  parent under a known key is missing while a table is loaded, follows from `Ordered` and
  `CompletedSoFar`; `RejectedForCause` carries it to the end of the run. A cycle left over is
  the set of unplaced tables when none is ready. That an order as long as the list of
  names excludes repetitions, parents outside the plan and cycles takes a count
  (`NamesCounted`: there are at least as many names as tables, so equal lengths leave no
  table unplaced) and the first table of the cycle in the order.
* `GeneratedKeysResolve`, `GeneratedReferencedDistinct`, `GeneratedPrimaryKeysDistinct`,
  `GeneratedDerivedFresh` and `GeneratorTypes` (`AlgorithmsProofs`): the four properties of run
  `synth` and its type invariant, for every set of rules that names existing columns
  (`Sound`), with any number of tables, rows, columns, relationships and branches. All four
  speak of finished tables, which no step changes; the work is to know of the table in hand, phase
  by phase, what makes it fit to be published (`GenInv`):
  * `InHand`, in every phase: foreign keys resolve in the finished parents, and the pools and the
    fan-out lists hold nothing but parents' values. A unique foreign key that others do not
    refer to has each value once.
  * While rows are drawn, `Drawn`: a unique pool has no value twice and none that was drawn,
    so that distinctness of the rows drawn follows from what is no longer in the pool. The later
    phases replace that with facts about the rows alone.
  * `ApartBelow` and `DistinctIn`: referenced columns differ among the rows the redraw has passed,
    then among all. Such a column may be a foreign key at the same time; it is redrawn
    from its parent's values, which is why the keys still resolve (`RedrawnIn`).
  * `KeysDiffer`: primary keys differ among the rows that were passed, then everywhere. A key
    is redrawn where it repeats, which a key with a referenced member never does, and foreign keys
    are frozen, so that nothing established before is lost (`Rewrites`).
    Keys that are pinned, derived or repaired afterwards are excluded by the property; the
    code calls that the user's choice.
  * `FreshIn`: rows are equal to their derivation. Pins come before; of a repair, `Remains` says what it
    leaves of the rows it was given: a round that counts ends with a derivation of every row, and one
    that is put back restores every column but those that some branch before the last writes
    (`LeftIn`). Hence the qualification of `DerivedFresh`, without which TLC finds it
    violated by the schema `Stuck` of `SynthGenerateMC`.

  `GenInv` is not enough for the types of the loop counters: `ShapeInv` adds them.
* `DecodedExact`, `DecodingMissesNothing`, `KeylessDecodingExact` (`AlgorithmsProofs`): a decoded
  IBLT, for all rows, keys, hash words, capacities and numbers of subtables, and all orders of
  peeling. The invariant (`IbltInv`) compares each cell with the sample. While nothing was made
  up, the parity set of a cell is the odd rows that belong there and have not been taken
  (`Parity`). Where every row has one copy to spare at most, the cell also counts what is
  still owed (`Counted`), and each entry has the side of its row. A content with several
  copies keeps the cell it has to itself from ever being zero (`OwnCell`), so that such a
  summary is never decoded. An empty summary then owes nothing: every row that differs
  was taken (`SummaryNames`). For keyless counts, no two
  entries may have one key, which `Repeats` looks for (`KeysApart`, `TruthCounted`). The
  theorems have two hypotheses that the code cannot check:
  * `Unmixed`: each entry is one row. The bucket check makes a mixed cell that passes for a single
    row unlikely, not impossible. Without it `DecodedExact` is false of the samples of run
    `iblt`; there `NothingMissed` holds all the same, but TLC refutes it where three rows
    share all their cells (section 3).
  * `CopiesAlone`, for keyless counts: a content of which one side has several more copies has
    a cell in which nothing else differs. Without it, +2 and -2 copies in the same cells
    cancel (section 3).

  Nothing is assumed of the number of differences or of the event budget: a decoding that
  runs out gives up.

Model-checked only: liveness under fairness (`Terminates`, `RecordReturns`, `CallsEnd`,
`PeelEnds`), which is out of the prover's reach, and `NothingMissed` and `KeylessExact` in the
presence of made-up entries, where the general statement is false and TLC's instance shows
that they do no harm while rows do not share all their cells. `RepairLeavesNoTrace` is
false of the code (run `branch_trace`), hence not a theorem.

## 5. Plan

Done: all modules of section 2. Left, in this order:

1. NULL keys and duplicate keys of `KeyedDiff` and `HashDiff`, and naivediff, whose
   comparison is in memory.
2. The statement sequence of a bucketdiff run that falls back in the middle of a bucket to
   a second IBLT.
3. Config and keychain migration (crash between two stores), the REPL's reconnect,
   the backend pools.

## 6. Not modelled

SQL text and dialects, value conversion and comparison of cells by representation,
formatting, and the network below a statement. Keys are integers: the truncation of decimal keys
(`hash_diff.rs:727`) is out of the model, and MD5 collisions are ignored. `PROJECT.json`
gives the reason per component.

The mapped definitions cover a small share of the repository's lines, because most of
them hold no protocol. Between 40 and 70 per cent of the largest files (`synth/generator.rs`,
`delta_diff/bucket_diff.rs`, `synth/mod.rs`, `synth/cmd.rs`, `synth/rules.rs`) is unit
tests. The statistics of synth
(`marginal.rs`, `copula.rs`, `profile.rs`, `quality.rs`, `mine.rs`) compute with real numbers on
one thread: there is nothing to interleave, and a finite instance says nothing about a
fitted distribution. The expression language (`expr.rs`, `rules.rs`) is a parser and
an evaluator of a large grammar, well covered by its tests. `backend/` renders the SQL of
each engine and converts driver values, one function per dialect and type. `output.rs`,
`export.rs`, `tabular.rs`, `queries.rs` and `cmd.rs` lay out text.
