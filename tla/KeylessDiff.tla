----------------------------- MODULE KeylessDiff -----------------------------
(***************************************************************************)
(* One comparison by bucketdiff: the tables are multisets of row contents. *)
(* A summary is first tried for by looking up the contents of a small      *)
(* table, by one statement over both tables, and by decoding a summary of  *)
(* each (IbltDiff); buckets of the key's range, or of the row hash, answer *)
(* whatever those leave unanswered.  Applications write meanwhile, and any *)
(* statement may fail.                                                     *)
(*                                                                         *)
(* Every statement is one step.  A content stands for its hash; a checksum *)
(* is the multiset it covers; row filters are applied already.             *)
(***************************************************************************)
EXTENDS Integers, FiniteSetsExt

CONSTANTS
  Contents,
  Key,            \* content -> its integer key, or Null
  Hash,           \* content -> its hash, for MOD
  Null,
  InitialTables, Modes,
  Estimates,      \* what catalog statistics may say of a table's size
  CatalogFails,   \* whether reading them may abort a transaction
  FetchAll, PerBucket, MaxBuckets, Skew,
  MaxSmall,       \* KEYLESS_POINT_LOOKUP_MAX_SMALL_ROWS
  MaxCopies, MaxWrites  \* bounds

Side == {"left", "right"}
Other(s) == IF s = "left" THEN "right" ELSE "left"
Multiset == [Contents -> 0 .. MaxCopies]

(* filtered: --where is given; aligned: compare_columns_align; oneServer:  *)
(* both tables are reached through one connection that has FULL OUTER JOIN;*)
(* aborts: an error aborts the transaction, as in gaussdb; ranged: there is*)
(* a single key that may be an integer.                                    *)
ModeType == [snapshot : BOOLEAN, summary : BOOLEAN, filtered : BOOLEAN, aligned : BOOLEAN,
             oneServer : BOOLEAN, aborts : BOOLEAN, ranged : BOOLEAN]

ASSUME KeylessAssumption ==
  /\ IsFiniteSet(Contents) /\ Null \notin Int
  /\ Key \in [Contents -> Int \cup {Null}] /\ Hash \in [Contents -> Nat]
  /\ InitialTables \subseteq [Side -> Multiset] /\ Modes \subseteq ModeType
  /\ Estimates \subseteq Nat \ {0} /\ CatalogFails \in BOOLEAN
  /\ {PerBucket, MaxBuckets, Skew} \subseteq Nat \ {0}
  /\ {FetchAll, MaxSmall, MaxCopies, MaxWrites} \subseteq Nat

VARIABLES
  mode,
  tab,      \* the tables as committed by the applications
  writes,   \* how many rows they wrote
  pc,
  snap,     \* session -> {what its snapshot shows of both tables}, {} for none
  base,     \* history: the snapshots opened
  aborted,  \* sessions whose transaction is aborted
  size,     \* side -> {its size by estimate or COUNT}, {} while not known
  uncounted,\* sides whose estimate was of no use
  exact,    \* side -> {its size by COUNT for the point lookup}
  got,      \* side -> {what the statement under way returned for it}
  asked,    \* contents of the small table looked up in the other
  plan,     \* {} for MOD(hash), {[lo, hi, n]} for ranges of the key
  bucket,   \* the bucket whose checksum or rows are read
  differ,   \* buckets that differ and were not pulled yet
  missing,  \* side -> what the report counts as missing there
  total,    \* side -> its size in the report
  unit,     \* "contents" or "copies": what `missing' counts
  cause,    \* of an error: "statement", "aborted"
  exit

env == <<mode, tab, writes>>
view == <<snap, base>>
sizes == <<size, uncounted, exact>>
walk == <<plan, bucket, differ>>
result == <<missing, total, unit, cause, exit>>
vars == <<env, view, pc, aborted, sizes, got, asked, walk, result>>

Both(x) == [s \in Side |-> x]
Only(set) == CHOOSE x \in set : TRUE

(* What a statement of session s sees of side t's table.                   *)
View(s, t) == IF snap[s] = {} THEN tab[t] ELSE Only(snap[s])[t]

Sized(bag) == MapThenSumSet(LAMBDA c : bag[c], Contents)
Part(bag, cs) == [c \in Contents |-> IF c \in cs THEN bag[c] ELSE 0]
More(x, y) == {c \in Contents : x[c] > y[c]}

Larger(n) == Max({n["left"], n["right"]})
Smaller(n) == Min({n["left"], n["right"]})
Sizes == [s \in Side |-> Only(size[s])]
Counts == [s \in Side |-> Only(exact[s])]

------------------------------------------------------------------------------
(* Sizes.                                                                  *)

OpenSnapshot(s) ==
  /\ pc = IF s = "left" THEN "snapLeft" ELSE "snapRight"
  /\ snap' = [snap EXCEPT ![s] = {tab}]
  /\ base' = [base EXCEPT ![s] = {tab}]
  /\ pc' = IF s = "left" THEN "snapRight" ELSE "size"
  /\ UNCHANGED <<env, aborted, sizes, got, asked, walk, result>>

Sizing(s) ==
  /\ pc = "size" /\ size[s] = {} /\ s \notin aborted
  /\ UNCHANGED <<env, view, pc, exact, got, asked, walk, result>>

(* With a filter both sides are counted at once.                           *)
CountFiltered(s) ==
  /\ Sizing(s) /\ mode.filtered
  /\ size' = [size EXCEPT ![s] = {Sized(View(s, s))}]
  /\ UNCHANGED <<aborted, uncounted>>

(* estimate_rows, first for the left side: statistics, then a COUNT.       *)
Estimating(s) ==
  /\ Sizing(s) /\ ~mode.filtered /\ (s = "right" => size["left"] # {})
  /\ s \notin uncounted

Estimate(s) ==
  /\ Estimating(s)
  /\ \E n \in Estimates : size' = [size EXCEPT ![s] = {n}]
  /\ UNCHANGED <<aborted, uncounted>>

(* An error in a transaction, where errors abort it.                       *)
Aborting(s) == IF mode.snapshot /\ mode.aborts THEN aborted \cup {s} ELSE aborted

(* Statistics say nothing, or cannot be read: the error is not looked at.  *)
NoEstimate(s) ==
  /\ Estimating(s)
  /\ uncounted' = uncounted \cup {s}
  /\ \E failed \in {FALSE, CatalogFails} : aborted' = IF failed THEN Aborting(s) ELSE aborted
  /\ UNCHANGED size

CountInstead(s) ==
  /\ Sizing(s) /\ s \in uncounted
  /\ size' = [size EXCEPT ![s] = {Sized(View(s, s))}]
  /\ UNCHANGED <<aborted, uncounted>>

SizesKnown == pc = "size" /\ \A s \in Side : size[s] # {}

(* point_lookup_gate.                                                      *)
Lookup(n) ==
  /\ mode.summary
  /\ Smaller(n) \in 1 .. MaxSmall
  /\ Larger(n) > FetchAll /\ Larger(n) \div Skew >= Smaller(n)

Route ==
  /\ SizesKnown
  /\ pc' = IF Lookup(Sizes) THEN "recount" ELSE "summary"
  /\ exact' = IF mode.filtered THEN size ELSE exact
  /\ UNCHANGED <<env, view, aborted, size, uncounted, got, asked, walk, result>>

------------------------------------------------------------------------------
(* maybe_point_lookup.                                                     *)

Recount(s) ==
  /\ pc = "recount" /\ exact[s] = {} /\ s \notin aborted
  /\ exact' = [exact EXCEPT ![s] = {Sized(View(s, s))}]
  /\ UNCHANGED <<env, view, pc, aborted, size, uncounted, got, asked, walk, result>>

Small == IF Counts["left"] <= Counts["right"] THEN "left" ELSE "right"
Big == Other(Small)

Recounted == pc = "recount" /\ \A s \in Side : exact[s] # {}

(* The sizes were out of date, or the columns are not the same.            *)
AbandonLookup ==
  /\ Recounted /\ ~(Lookup(Counts) /\ mode.aligned)
  /\ pc' = "summary"
  /\ UNCHANGED <<env, view, aborted, sizes, got, asked, walk, result>>

ReadSmall ==
  LET rows == View(Small, Small)
  IN
  /\ Recounted /\ Lookup(Counts) /\ mode.aligned /\ Small \notin aborted
  /\ IF Sized(rows) > MaxSmall
       THEN pc' = "summary" /\ UNCHANGED got
       ELSE /\ pc' = "lookup"
            /\ got' = [got EXCEPT ![Small] = {rows}, ![Big] = {Part(rows, {})}]
  /\ UNCHANGED <<env, view, aborted, sizes, asked, walk, result>>

InSmall == {c \in Contents : Only(got[Small])[c] > 0}

CountContent(c) ==
  /\ pc = "lookup" /\ c \in InSmall \ asked /\ Big \notin aborted
  /\ asked' = asked \cup {c}
  /\ got' = [got EXCEPT ![Big] = {[Only(@) EXCEPT ![c] = View(Big, Big)[c]]}]
  /\ UNCHANGED <<env, view, pc, aborted, sizes, walk, result>>

(* pair_contents: what the big table has beyond the pairs is not looked at.*)
Paired(c) == Min({Only(got[Small])[c], Only(got[Big])[c]})
Pairs == MapThenSumSet(Paired, InSmall)

Report(counts, of, sum) ==
  /\ missing' = counts /\ unit' = of /\ total' = sum
  /\ pc' = "commit"
  /\ UNCHANGED <<env, view, aborted, sizes, got, asked, walk, cause, exit>>

LookedUp ==
  /\ pc = "lookup" /\ InSmall = asked
  /\ Report([s \in Side |-> IF s = Big THEN Sized(Only(got[Small])) - Pairs
                            ELSE Max({0, Counts[Big] - Pairs})],
            "copies", Counts)

------------------------------------------------------------------------------
(* maybe_same_conn_summary, in the left session.                           *)

MaySummarize == mode.summary /\ mode.oneServer /\ mode.aligned

(* The join gives no count for a content one side has none of.             *)
SurplusOfPresent(x, y) == {c \in More(x, y) : y[c] > 0}
Surplus(x, y) == More(x, y)

SummaryJoin ==
  LET l == View("left", "left")
      r == View("left", "right")
  IN
  /\ pc = "summary" /\ MaySummarize /\ "left" \notin aborted
  /\ Report([s \in Side |-> Cardinality(IF s = "left" THEN Surplus(r, l) ELSE Surplus(l, r))],
            "contents", Sizes)

(* A failed speculative statement is undone to its savepoint.              *)
NotUndone(s) == Aborting(s)
UndoneTo(s) == aborted

SkipSummary ==
  /\ pc = "summary"
  /\ \/ ~MaySummarize /\ UNCHANGED aborted
     \/ MaySummarize /\ aborted' = UndoneTo("left")
  /\ pc' = IF mode.summary THEN "iblt" ELSE "probe"
  /\ got' = Both({})
  /\ UNCHANGED <<env, view, sizes, asked, walk, result>>

------------------------------------------------------------------------------
(* maybe_keyless_iblt: one statement on each side, then decoding.          *)

Summarize(s) ==
  /\ pc = "iblt" /\ got[s] = {} /\ s \notin aborted
  /\ got' = [got EXCEPT ![s] = {View(s, s)}]
  /\ UNCHANGED <<env, view, pc, aborted, sizes, asked, walk, result>>

(* An even surplus cancels out and is never decoded; other differences may *)
(* fail to be decoded, and are exact if they are.                          *)
Decodable ==
  \A c \in Contents : LET surplus == Only(got["left"])[c] - Only(got["right"])[c]
                       IN  surplus = 0 \/ surplus % 2 = 1

Decode ==
  LET l == Only(got["left"])
      r == Only(got["right"])
  IN
  /\ pc = "iblt" /\ \A s \in Side : got[s] # {}
  /\ Decodable
  /\ Report([s \in Side |-> Cardinality(IF s = "left" THEN More(r, l) ELSE More(l, r))],
            "contents", [s \in Side |-> Sized(Only(got[s]))])

Undecoded ==
  /\ pc = "iblt"
  /\ \/ /\ \A s \in Side : got[s] # {}
        /\ Only(got["left"]) # Only(got["right"])
        /\ UNCHANGED aborted
     \/ \E s \in Side : got[s] = {} /\ aborted' = UndoneTo(s)
  /\ pc' = "probe"
  /\ got' = Both({})
  /\ UNCHANGED <<env, view, sizes, asked, walk, result>>

------------------------------------------------------------------------------
(* Buckets.                                                                *)

(* bucket_n_from_counts; a point lookup that was abandoned has counted.    *)
BucketsFor(n) == Min({MaxBuckets, Max({1, (Max({1, Larger(n)}) + PerBucket - 1) \div PerBucket})})
Buckets ==
  BucketsFor(IF ~mode.filtered /\ \A s \in Side : exact[s] # {} THEN Counts ELSE Sizes)

Present(bag) == {c \in Contents : bag[c] > 0}
KeysIn(bag) == {Key[c] : c \in Present(bag)}

(* MIN, MAX and the number of NULLs of the key.                            *)
Probe(s) ==
  /\ pc = "probe" /\ mode.ranged /\ got[s] = {} /\ s \notin aborted
  /\ got' = [got EXCEPT ![s] = {KeysIn(View(s, s))}]
  /\ UNCHANGED <<env, view, pc, aborted, sizes, asked, walk, result>>

Usable(keys) == keys # {} /\ Null \notin keys

(* RangePlan over the union of both sides' domains.                        *)
Intersection(l, r) == [lo |-> Max({Min(l), Min(r)}), hi |-> Min({Max(l), Max(r)})]
Domain(l, r) == [lo |-> Min(l \cup r), hi |-> Max(l \cup r)]

PlanOf(d) ==
  IF d.hi < d.lo THEN {} ELSE {[lo |-> d.lo, hi |-> d.hi, n |-> Min({Buckets, d.hi - d.lo + 1})]}

Planned(p) ==
  /\ plan' = p
  /\ bucket' = 0 /\ differ' = {}
  /\ got' = Both({})
  /\ pc' = "sums"
  /\ UNCHANGED <<env, view, aborted, sizes, asked, result>>

NoRange == pc = "probe" /\ ~mode.ranged /\ Planned({})

Probed ==
  /\ pc = "probe" /\ \A s \in Side : got[s] # {}
  /\ LET l == Only(got["left"])
         r == Only(got["right"])
     IN  Planned(IF Usable(l) /\ Usable(r) THEN PlanOf(Domain(l, r)) ELSE {})

KeyRangeOf(b) ==
  LET p == Only(plan)
      width == p.hi - p.lo + 1
      seg == width \div p.n
      wide == width % p.n
      start == p.lo + b * seg + Min({b, wide})
  IN  start .. start + seg - (IF b < wide THEN 0 ELSE 1)

(* What the statement for bucket b reads; one of MOD(hash) reads them all. *)
Covered(bs) ==
  IF plan = {} THEN {c \in Contents : Hash[c] % Buckets \in bs}
  ELSE {c \in Contents : Key[c] # Null /\ \E b \in bs : Key[c] \in KeyRangeOf(b)}
Under == IF plan = {} THEN 0 .. Buckets - 1 ELSE {bucket}
Last == IF plan = {} THEN TRUE ELSE bucket = Only(plan).n - 1

Checksum(s) ==
  /\ pc = "sums" /\ got[s] = {} /\ s \notin aborted
  /\ got' = [got EXCEPT ![s] = {Part(View(s, s), Covered(Under))}]
  /\ UNCHANGED <<env, view, pc, aborted, sizes, asked, walk, result>>

DiffBuckets ==
  {b \in Under : Part(Only(got["left"]), Covered({b})) # Part(Only(got["right"]), Covered({b}))}

(* Totals of the report are the sums of the buckets' counts.               *)
Compared ==
  /\ pc = "sums" /\ \A s \in Side : got[s] # {}
  /\ differ' = differ \cup DiffBuckets
  /\ total' = [s \in Side |-> total[s] + Sized(Only(got[s]))]
  /\ got' = Both({})
  /\ IF Last THEN pc' = "pull" /\ bucket' = 0
             ELSE bucket' = bucket + 1 /\ UNCHANGED pc
  /\ UNCHANGED <<env, view, aborted, sizes, asked, plan, missing, unit, cause, exit>>

(* One pull for all buckets of the hash, one for each range of the key.    *)
Pulling == IF plan = {} THEN differ ELSE {Min(differ)}

Pull(s) ==
  /\ pc = "pull" /\ differ # {} /\ got[s] = {} /\ s \notin aborted
  /\ got' = [got EXCEPT ![s] = {Part(View(s, s), Covered(Pulling))}]
  /\ UNCHANGED <<env, view, pc, aborted, sizes, asked, walk, result>>

(* multiset_diff.                                                          *)
Pulled ==
  LET l == Only(got["left"])
      r == Only(got["right"])
  IN
  /\ pc = "pull" /\ \A s \in Side : got[s] # {}
  /\ missing' = [s \in Side |->
       missing[s] + Cardinality(IF s = "left" THEN More(r, l) ELSE More(l, r))]
  /\ differ' = differ \ Pulling
  /\ got' = Both({})
  /\ UNCHANGED <<env, view, pc, aborted, sizes, asked, plan, bucket, total, unit, cause, exit>>

AllPulled ==
  /\ pc = "pull" /\ differ = {}
  /\ pc' = "commit"
  /\ UNCHANGED <<env, view, aborted, sizes, got, asked, walk, result>>

------------------------------------------------------------------------------
Finish ==
  /\ pc = "commit"
  /\ snap' = Both({})
  /\ exit' = IF missing = Both(0) THEN "identical" ELSE "diff"
  /\ pc' = "done"
  /\ UNCHANGED <<env, base, aborted, sizes, got, asked, walk, missing, total, unit, cause>>

(* Any other statement that fails ends the run; so does one that is        *)
(* refused because the transaction was aborted before.                     *)
Speculative == pc \in {"summary", "iblt"}
Waiting(s) ==
  \/ pc = IF s = "left" THEN "snapLeft" ELSE "snapRight"
  \/ pc = "size" /\ size[s] = {} /\ (mode.filtered \/ s \in uncounted)
  \/ pc = "recount" /\ (exact[s] = {} \/ (Recounted /\ s = Small))
  \/ pc = "lookup" /\ s = Big
  \/ pc \in {"probe", "sums", "pull"} /\ got[s] = {}

Fail(s) ==
  /\ ~Speculative /\ Waiting(s)
  /\ snap' = Both({})
  /\ exit' = "error" /\ cause' = IF s \in aborted THEN "aborted" ELSE "statement"
  /\ pc' = "done"
  /\ UNCHANGED <<env, base, aborted, sizes, got, asked, walk, missing, total, unit>>

(* An application inserts or deletes one row.                              *)
Write(s, c) ==
  /\ pc # "done" /\ writes < MaxWrites
  /\ \E n \in {tab[s][c] - 1, tab[s][c] + 1} \cap 0 .. MaxCopies :
       tab' = [tab EXCEPT ![s][c] = n]
  /\ writes' = writes + 1
  /\ UNCHANGED <<mode, view, pc, aborted, sizes, got, asked, walk, result>>

------------------------------------------------------------------------------
Init ==
  /\ mode \in Modes /\ tab \in InitialTables /\ writes = 0
  /\ pc = IF mode.snapshot THEN "snapLeft" ELSE "size"
  /\ snap = Both({}) /\ base = [s \in Side |-> {tab}] /\ aborted = {}
  /\ size = Both({}) /\ uncounted = {} /\ exact = Both({})
  /\ got = Both({}) /\ asked = {}
  /\ plan = {} /\ bucket = 0 /\ differ = {}
  /\ missing = Both(0) /\ total = Both(0) /\ unit = "contents"
  /\ cause = "none" /\ exit = "none"

Next ==
  \/ \E s \in Side :
       \/ OpenSnapshot(s)
       \/ CountFiltered(s) \/ Estimate(s) \/ NoEstimate(s) \/ CountInstead(s)
       \/ Recount(s) \/ Summarize(s) \/ Probe(s) \/ Checksum(s) \/ Pull(s)
       \/ Fail(s)
       \/ \E c \in Contents : Write(s, c)
  \/ Route \/ AbandonLookup \/ ReadSmall \/ LookedUp
  \/ \E c \in Contents : CountContent(c)
  \/ SummaryJoin \/ SkipSummary \/ Decode \/ Undecoded
  \/ NoRange \/ Probed \/ Compared \/ Pulled \/ AllPulled
  \/ Finish

Spec == Init /\ [][Next]_vars

------------------------------------------------------------------------------
Reported == exit \in {"identical", "diff"}

(* What is missing on side s, in the report's unit.                        *)
Lacking(s, l, r) ==
  LET x == IF s = "left" THEN r ELSE l
      y == IF s = "left" THEN l ELSE r
  IN  IF unit = "contents" THEN Cardinality(More(x, y))
      ELSE MapThenSumSet(LAMBDA c : x[c] - y[c], More(x, y))

Start(s, t) == Only(base[s])[t]

(* With --consistency snapshot the counts of a report are those of the     *)
(* snapshots, in both directions and whichever of the ways answered: also  *)
(* where the sides' keys hardly overlap, keys are NULL, or surpluses are   *)
(* even (bucket_diff.rs:374-602).  The statement over both tables sees the *)
(* right one through the left session.                                     *)
SnapshotExact ==
  Reported /\ mode.snapshot =>
    \E through \in {"left", "right"} :
      \A s \in Side :
        missing[s] = Lacking(s, Start("left", "left"), Start(through, "right"))

(* Without snapshots each direction's count is off by no more than the     *)
(* rows written during the comparison, although a bucket's checksum, its   *)
(* rows and the sizes come from different statements                       *)
(* (bucket_diff.rs:485-600, 1227-1385).                                    *)
OffByWritesOnly ==
  Reported =>
    \A s \in Side :
      LET truth == Lacking(s, Start("left", "left"), Start("right", "right"))
      IN  mode.snapshot \/ missing[s] \in truth - writes .. truth + writes

(* No run dies of a statement it meant to do without: a transaction that a *)
(* speculative statement aborted is usable again before the next statement *)
(* that matters (bucket_diff.rs:1022-1048).                                *)
NeverPoisoned == cause # "aborted"

(* bucket_diff.rs:1448-1449: estimates of row counts are "for planning     *)
(* shards only", so what a report gives as the sizes of the tables are     *)
(* their sizes.                                                            *)
TotalsExact ==
  Reported /\ mode.snapshot =>
    /\ total["left"] = Sized(Start("left", "left"))
    /\ total["right"] \in {Sized(Start(s, "right")) : s \in Side}
==============================================================================
