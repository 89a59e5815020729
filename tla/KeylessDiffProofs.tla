------------------------- MODULE KeylessDiffProofs -------------------------
(***************************************************************************)
(* What bucketdiff reports while applications write, for every finite set  *)
(* of contents, all their keys and hashes, every pair of tables and every  *)
(* size and limit.                                                         *)
(*                                                                         *)
(* Two functions are carried along.  N counts, by side and content, the    *)
(* writes to what the statements see: all of them together cost no more    *)
(* than the rows written, and nothing on snapshots.  B is what was counted *)
(* of each side.  A content is quiet while N is 0 for it; of those every   *)
(* statement shows what was there at the start, whichever way answers.     *)
(*                                                                         *)
(*   Told      what each phase knows: the statements so far are true of    *)
(*             the quiet contents, the buckets passed without a difference *)
(*             have none of those that differ, and what was reported of    *)
(*             the buckets pulled is right for them.                       *)
(*   Answered  so what is reported is right but for the contents written,  *)
(*             and those are no more than the writes.                      *)
(*                                                                         *)
(* Sums over finite sets are taken from KeyRangeProofs; the integer width  *)
(* that module is about plays no part here.                                *)
(***************************************************************************)
EXTENDS KeylessDiff, KeyRangeProofs

Opening == {"snapLeft", "snapRight"}
Reading == {"size", "recount", "lookup", "summary", "iblt", "probe", "sums", "pull"}

KeylessType ==
  /\ mode \in ModeType
  /\ tab \in [Side -> Multiset] /\ writes \in Nat
  /\ pc \in Opening \cup Reading \cup {"commit", "done"}
  /\ snap \in [Side -> SUBSET [Side -> Multiset]]
  /\ base \in [Side -> SUBSET [Side -> Multiset]]
  /\ \A s \in Side : base[s] # {}
  /\ size \in [Side -> SUBSET Nat] /\ exact \in [Side -> SUBSET Nat]
  /\ DOMAIN got = Side

(* What the phases leave alone until it is their turn.                     *)
Steady ==
  /\ pc \in Opening => mode.snapshot /\ size = Both({})
  /\ ~mode.snapshot => snap = Both({}) /\ base["left"] = base["right"]
  /\ pc = "snapRight" => snap["left"] = base["left"]
  /\ pc \in Reading /\ mode.snapshot => snap = base
  /\ pc \in Opening \cup {"size"} => exact = Both({})
  /\ pc \in Reading \ {"size"} => \A s \in Side : size[s] # {}
  /\ pc \in Reading \ {"size"} /\ mode.filtered => exact = size
  /\ pc = "lookup" => \A s \in Side : exact[s] # {}
  /\ pc \in Opening \cup {"size", "recount", "summary"} => got = Both({})
  /\ pc \in Opening \cup {"size", "recount"} => asked = {}
  /\ pc \in Opening \cup (Reading \ {"pull"}) => missing = Both(0)
  /\ pc \in Opening \cup Reading => unit = "contents"
  /\ pc # "done" => exit = "none"

LEMMA OnlyIn == ASSUME NEW S, S # {} PROVE Only(S) \in S
BY DEF Only

LEMMA ViewBag ==
  ASSUME KeylessType, NEW s \in Side, NEW t \in Side
  PROVE  View(s, t) \in Multiset
<1>1. CASE snap[s] = {}
  BY <1>1 DEF View, KeylessType
<1>2. CASE snap[s] # {}
  <2>1. Only(snap[s]) \in [Side -> Multiset]
    BY <1>2, OnlyIn DEF KeylessType
  <2> QED BY <1>2, <2>1 DEF View
<1> QED BY <1>1, <1>2

LEMMA StartBag ==
  ASSUME KeylessType, NEW s \in Side, NEW t \in Side
  PROVE  Start(s, t) \in Multiset
<1>1. Only(base[s]) \in [Side -> Multiset]
  BY OnlyIn DEF KeylessType
<1> QED BY <1>1 DEF Start

LEMMA BagNat ==
  ASSUME NEW g \in Multiset, NEW c \in Contents
  PROVE  g[c] \in Nat
BY KeylessAssumption DEF Multiset

LEMMA SizedNat ==
  ASSUME NEW g \in Multiset
  PROVE  Sized(g) \in Nat /\ Sized(g) = Total(g, Contents)
<1>1. Sized(g) = Total(g, Contents)
  BY DEF Sized, Total
<1>2. \A c \in Contents : g[c] \in Nat
  BY BagNat
<1> QED BY <1>1, <1>2, TotalNat, KeylessAssumption

LEMMA KeylessInit == Init => KeylessType /\ Steady
<1> SUFFICES ASSUME Init PROVE KeylessType /\ Steady
  OBVIOUS
<1>1. KeylessType
  <2>1. tab \in [Side -> Multiset] /\ mode \in ModeType
    BY KeylessAssumption DEF Init
  <2> QED BY <2>1 DEF Init, KeylessType, Both, Opening, Reading
<1>2. Steady
  BY DEF Init, Steady, Both, Opening, Reading, Side
<1> QED BY <1>1, <1>2

LEMMA TypeStep ==
  ASSUME KeylessType, [Next]_vars
  PROVE  KeylessType'
<1>1. /\ mode' = mode
      /\ pc' \in Opening \cup Reading \cup {"commit", "done"}
  <2>1. mode' = mode
    BY DEF Next, OpenSnapshot, Sizing, CountFiltered, Estimating, Estimate, NoEstimate,
       CountInstead, Recount,
         Summarize, Probe, Checksum, Pull, Fail, Write, Route, AbandonLookup, ReadSmall, LookedUp, Report,
         CountContent, SummaryJoin, SkipSummary, Decode, Undecoded, NoRange, Probed, Planned, Compared,
         Pulled, AllPulled, Finish, vars, env
  <2>2. pc' \in Opening \cup Reading \cup {"commit", "done"}
    BY DEF Next, OpenSnapshot, Sizing, CountFiltered, Estimating, Estimate, NoEstimate,
       CountInstead, Recount,
         Summarize, Probe, Checksum, Pull, Fail, Write, Route, AbandonLookup, ReadSmall, LookedUp, Report,
         CountContent, SummaryJoin, SkipSummary, Decode, Undecoded, NoRange, Probed, Planned, Compared,
         Pulled, AllPulled, Finish, vars, KeylessType, Opening, Reading
  <2> QED BY <2>1, <2>2
<1>2. tab' \in [Side -> Multiset] /\ writes' \in Nat
  <2>1. ASSUME NEW s \in Side, NEW c \in Contents, Write(s, c)
        PROVE  tab' \in [Side -> Multiset] /\ writes' \in Nat
    <3>1. PICK n \in 0 .. MaxCopies : tab' = [tab EXCEPT ![s][c] = n]
      BY <2>1 DEF Write
    <3>2. tab \in [Side -> [Contents -> 0 .. MaxCopies]]
      BY DEF KeylessType, Multiset
    <3>3. tab' \in [Side -> [Contents -> 0 .. MaxCopies]]
      BY <3>1, <3>2
    <3> QED BY <2>1, <3>3 DEF Write, KeylessType, Multiset
  <2>2. (\E s \in Side, c \in Contents : Write(s, c)) \/ UNCHANGED <<tab, writes>>
    BY DEF Next, OpenSnapshot, Sizing, CountFiltered, Estimating, Estimate, NoEstimate,
       CountInstead, Recount,
         Summarize, Probe, Checksum, Pull, Fail, Route, AbandonLookup, ReadSmall, LookedUp, Report,
         CountContent, SummaryJoin, SkipSummary, Decode, Undecoded, NoRange, Probed, Planned, Compared,
         Pulled, AllPulled, Finish, vars, env
  <2> QED BY <2>1, <2>2 DEF KeylessType
<1>3. /\ snap' \in [Side -> SUBSET [Side -> Multiset]]
      /\ base' \in [Side -> SUBSET [Side -> Multiset]]
      /\ \A s \in Side : base'[s] # {}
  <2>1. ASSUME NEW s \in Side, OpenSnapshot(s)
        PROVE  /\ snap' \in [Side -> SUBSET [Side -> Multiset]]
               /\ base' \in [Side -> SUBSET [Side -> Multiset]]
               /\ \A x \in Side : base'[x] # {}
    BY <2>1 DEF OpenSnapshot, KeylessType
  <2>2. \/ \E s \in Side : OpenSnapshot(s)
        \/ base' = base /\ (snap' = snap \/ snap' = Both({}))
    BY DEF Next, Sizing, CountFiltered, Estimating, Estimate, NoEstimate, CountInstead, Recount,
         Summarize, Probe, Checksum, Pull, Fail, Write, Route, AbandonLookup, ReadSmall, LookedUp, Report,
         CountContent, SummaryJoin, SkipSummary, Decode, Undecoded, NoRange, Probed, Planned, Compared,
         Pulled, AllPulled, Finish, vars, view
  <2> QED BY <2>1, <2>2 DEF KeylessType, Both
<1>4. size' \in [Side -> SUBSET Nat] /\ exact' \in [Side -> SUBSET Nat]
  <2>1. \A s \in Side : Sized(View(s, s)) \in Nat
    BY ViewBag, SizedNat
  <2>2. ASSUME NEW s \in Side, CountFiltered(s) \/ CountInstead(s) PROVE size' \in [Side -> SUBSET Nat]
    BY <2>1, <2>2 DEF CountFiltered, CountInstead, KeylessType
  <2>3. ASSUME NEW s \in Side, Estimate(s) PROVE size' \in [Side -> SUBSET Nat]
    <3>1. PICK n \in Estimates : size' = [size EXCEPT ![s] = {n}]
      BY <2>3 DEF Estimate
    <3>2. n \in Nat
      BY KeylessAssumption
    <3> QED BY <3>1, <3>2 DEF KeylessType
  <2>4. ASSUME NEW s \in Side, Recount(s) PROVE exact' \in [Side -> SUBSET Nat]
    BY <2>1, <2>4 DEF Recount, KeylessType
  <2>5. (\E s \in Side : CountFiltered(s) \/ CountInstead(s) \/ Estimate(s)) \/ size' = size
    BY DEF Next, OpenSnapshot, NoEstimate, Recount,
         Summarize, Probe, Checksum, Pull, Fail, Write, Route, AbandonLookup, ReadSmall, LookedUp, Report,
         CountContent, SummaryJoin, SkipSummary, Decode, Undecoded, NoRange, Probed, Planned, Compared,
         Pulled, AllPulled, Finish, vars, sizes
  <2>6. (\E s \in Side : Recount(s)) \/ exact' = exact \/ exact' = size
    BY DEF Next, OpenSnapshot, Sizing, CountFiltered, Estimating, Estimate, NoEstimate,
       CountInstead,
         Summarize, Probe, Checksum, Pull, Fail, Write, Route, AbandonLookup, ReadSmall, LookedUp, Report,
         CountContent, SummaryJoin, SkipSummary, Decode, Undecoded, NoRange, Probed, Planned, Compared,
         Pulled, AllPulled, Finish, vars, sizes
  <2>7. size' \in [Side -> SUBSET Nat]
    BY <2>2, <2>3, <2>5 DEF KeylessType
  <2>8. exact' \in [Side -> SUBSET Nat]
    BY <2>4, <2>6 DEF KeylessType
  <2> QED BY <2>7, <2>8
<1>5. DOMAIN got' = Side
  <2>1. got' = got \/ got' = Both({}) \/ \E a, b, x, y : got' = [got EXCEPT ![a] = x] \/ got' = [got EXCEPT ![a] = x, ![b] = y]
    BY DEF Next, OpenSnapshot, Sizing, CountFiltered, Estimating, Estimate, NoEstimate,
       CountInstead, Recount,
         Summarize, Probe, Checksum, Pull, Fail, Write, Route, AbandonLookup, ReadSmall, LookedUp, Report,
         CountContent, SummaryJoin, SkipSummary, Decode, Undecoded, NoRange, Probed, Planned, Compared,
         Pulled, AllPulled, Finish, vars
  <2> QED BY <2>1 DEF KeylessType, Both
<1> QED BY <1>1, <1>2, <1>3, <1>4, <1>5 DEF KeylessType

LEMMA SteadyStep ==
  ASSUME KeylessType, Steady, [Next]_vars
  PROVE  Steady'
<1>1. mode' = mode
  BY DEF Next, OpenSnapshot, Sizing, CountFiltered, Estimating, Estimate, NoEstimate, CountInstead,
     Recount,
         Summarize, Probe, Checksum, Pull, Fail, Write, Route, AbandonLookup, ReadSmall, LookedUp, Report,
         CountContent, SummaryJoin, SkipSummary, Decode, Undecoded, NoRange, Probed, Planned, Compared,
         Pulled, AllPulled, Finish, vars, env
<1>2. ASSUME NEW s \in Side, OpenSnapshot(s) PROVE Steady'
  <2>1. /\ pc = IF s = "left" THEN "snapLeft" ELSE "snapRight"
        /\ snap' = [snap EXCEPT ![s] = {tab}] /\ base' = [base EXCEPT ![s] = {tab}]
        /\ pc' = IF s = "left" THEN "snapRight" ELSE "size"
        /\ UNCHANGED <<size, exact, got, asked, missing, unit, exit>>
    BY <1>2 DEF OpenSnapshot, sizes, result
  <2>2. snap'[s] = base'[s] /\ \A x \in Side \ {s} : snap'[x] = snap[x] /\ base'[x] = base[x]
    BY <2>1 DEF KeylessType
  <2>3. pc \in Opening /\ mode.snapshot
    BY <2>1 DEF Opening, Steady
  <2>4. snap' \in [Side -> SUBSET [Side -> Multiset]] /\ base' \in [Side -> SUBSET [Side -> Multiset]]
    BY TypeStep DEF KeylessType
  <2>5. CASE s = "left"
    BY <1>1, <2>1, <2>2, <2>3, <2>5 DEF Steady, Opening, Reading
  <2>6. CASE s = "right"
    <3>1. \A x \in Side : snap'[x] = base'[x]
      BY <2>1, <2>2, <2>6 DEF Steady, Side
    <3>2. snap' = base'
      BY <2>4, <3>1
    <3> QED BY <1>1, <2>1, <2>3, <2>6, <3>2 DEF Steady, Opening, Reading
  <2> QED BY <2>5, <2>6 DEF Side
<1>d. ASSUME pc' = "done", UNCHANGED base, snap' = Both({}) PROVE Steady'
  BY <1>1, <1>d DEF Steady, Opening, Reading, Both
<1>3. ASSUME NEW s \in Side, CountFiltered(s) \/ Estimate(s) \/ NoEstimate(s) \/ CountInstead(s) PROVE Steady'
  <2>1. pc = "size" /\ UNCHANGED <<pc, snap, base, exact, got, asked, missing, unit, exit>>
    BY <1>3 DEF CountFiltered, Estimating, Estimate, NoEstimate, CountInstead, Sizing, view, result
  <2> QED BY <1>1, <2>1 DEF Steady, Opening, Reading
<1>4. CASE Route
  <2>1. /\ pc = "size" /\ pc' \in {"recount", "summary"} /\ \A s \in Side : size[s] # {}
        /\ UNCHANGED <<snap, base, size, got, asked, missing, unit, exit>>
        /\ mode.filtered => exact' = size
    BY <1>4 DEF Route, SizesKnown, view, result
  <2> QED BY <1>1, <2>1 DEF Steady, Opening, Reading
<1>5. ASSUME NEW s \in Side, Recount(s) PROVE Steady'
  <2>1. /\ pc = "recount" /\ exact[s] = {}
        /\ UNCHANGED <<pc, snap, base, size, got, asked, missing, unit, exit>>
    BY <1>5 DEF Recount, view, result
  <2>2. ~mode.filtered
    BY <2>1 DEF Steady, Reading
  <2> QED BY <1>1, <2>1, <2>2 DEF Steady, Opening, Reading
<1>6. ASSUME AbandonLookup \/ ReadSmall PROVE Steady'
  <2>1. /\ pc = "recount" /\ \A s \in Side : exact[s] # {}
        /\ (pc' = "summary" /\ got' = got) \/ pc' = "lookup"
        /\ UNCHANGED <<snap, base, size, exact, asked, missing, unit, exit>>
    BY <1>6 DEF AbandonLookup, ReadSmall, Recounted, view, sizes, result
  <2> QED BY <1>1, <2>1 DEF Steady, Opening, Reading
<1>7. ASSUME NEW c \in Contents, CountContent(c) PROVE Steady'
  <2>1. pc = "lookup" /\ UNCHANGED <<pc, snap, base, size, exact, missing, unit, exit>>
    BY <1>7 DEF CountContent, view, sizes, result
  <2> QED BY <1>1, <2>1 DEF Steady, Opening, Reading
<1>8. ASSUME LookedUp \/ SummaryJoin \/ Decode PROVE Steady'
  <2>1. /\ pc \in {"lookup", "summary", "iblt"} /\ pc' = "commit"
        /\ UNCHANGED <<snap, base, exit>>
    BY <1>8 DEF LookedUp, SummaryJoin, Decode, Report, view
  <2> QED BY <1>1, <2>1 DEF Steady, Opening, Reading
<1>9. ASSUME SkipSummary \/ Undecoded PROVE Steady'
  <2>1. /\ pc \in {"summary", "iblt"} /\ pc' \in {"iblt", "probe"}
        /\ UNCHANGED <<snap, base, size, exact, missing, unit, exit>>
    BY <1>9 DEF SkipSummary, Undecoded, view, sizes, result
  <2> QED BY <1>1, <2>1 DEF Steady, Opening, Reading
<1>10. ASSUME NEW s \in Side, Summarize(s) \/ Probe(s) \/ Checksum(s) \/ Pull(s) PROVE Steady'
  <2>1. /\ pc \in {"iblt", "probe", "sums", "pull"}
        /\ UNCHANGED <<pc, snap, base, size, exact, missing, unit, exit>>
    BY <1>10 DEF Summarize, Probe, Checksum, Pull, view, sizes, result
  <2> QED BY <1>1, <2>1 DEF Steady, Opening, Reading
<1>11. ASSUME NoRange \/ Probed \/ Compared PROVE Steady'
  <2>1. /\ pc \in {"probe", "sums"} /\ pc' \in {"sums", "pull"}
        /\ UNCHANGED <<snap, base, size, exact, missing, unit, exit>>
    BY <1>11 DEF NoRange, Probed, Planned, Compared, view, sizes, result
  <2> QED BY <1>1, <2>1 DEF Steady, Opening, Reading
<1>12. CASE Pulled
  <2>1. pc = "pull" /\ UNCHANGED <<pc, snap, base, size, exact, unit, exit>>
    BY <1>12 DEF Pulled, view, sizes
  <2> QED BY <1>1, <2>1 DEF Steady, Opening, Reading
<1>13. CASE AllPulled
  <2>1. pc = "pull" /\ pc' = "commit" /\ UNCHANGED <<snap, base, exit>>
    BY <1>13 DEF AllPulled, view, result
  <2> QED BY <1>1, <2>1 DEF Steady, Opening, Reading
<1>14. ASSUME NEW s \in Side, Fail(s) PROVE Steady'
  BY <1>14, <1>d DEF Fail
<1>15. CASE Finish
  BY <1>15, <1>d DEF Finish
<1>16. ASSUME UNCHANGED <<pc, snap, base, size, exact, got, asked, missing, unit, exit>> PROVE Steady'
  BY <1>1, <1>16 DEF Steady
<1>17. ASSUME NEW s \in Side, NEW c \in Contents, Write(s, c) PROVE Steady'
  BY <1>16, <1>17 DEF Write, view, sizes, result
<1>18. CASE UNCHANGED vars
  BY <1>16, <1>18 DEF vars, view, sizes, result
<1> QED
  BY <1>2, <1>3, <1>4, <1>5, <1>6, <1>7, <1>8, <1>9, <1>10, <1>11, <1>12, <1>13, <1>14, <1>15,
     <1>17, <1>18
  DEF Next

Dist(x, y) == IF x <= y THEN y - x ELSE x - y
(* Writes by side and content, and all of them together; and what a report *)
(* may be off by.                                                          *)
Counters == [Side -> [Contents -> Nat]]
Cost(N) == Total(N["left"], Contents) + Total(N["right"], Contents)
Slack == IF mode.snapshot THEN 0 ELSE writes

LEMMA CostAdds ==
  ASSUME NEW N \in Counters
  PROVE  Cost(N) = Total([c \in Contents |-> N["left"][c] + N["right"][c]], Contents) /\ Cost(N) \in Nat
<1> DEFINE w == [c \in Contents |-> N["left"][c] + N["right"][c]]
           l == N["left"]
           r == N["right"]
<1>1. \A c \in Contents : l[c] \in Nat /\ r[c] \in Nat /\ w[c] = l[c] + r[c]
  BY DEF Counters, Side
<1>2. \A c \in Contents : l[c] \in Int /\ r[c] \in Int /\ w[c] = l[c] + r[c]
  BY <1>1
<1>3. Cost(N) = Total(l, Contents) + Total(r, Contents)
  BY DEF Cost
<1> HIDE DEF w, l, r
<1>4. Total(w, Contents) = Total(l, Contents) + Total(r, Contents)
  BY <1>2, TotalAdd, KeylessAssumption
<1>5. Total(l, Contents) \in Nat /\ Total(r, Contents) \in Nat
  BY <1>1, TotalNat, KeylessAssumption
<1> QED BY <1>3, <1>4, <1>5 DEF w

(* Sets that agree on the contents nobody wrote differ in size by no more  *)
(* than what was written.                                                  *)
LEMMA CardinalityNear ==
  ASSUME NEW N \in Counters, NEW M \in SUBSET Contents, NEW K \in SUBSET Contents,
         \A c \in Contents : N["left"][c] = 0 /\ N["right"][c] = 0 => (c \in M <=> c \in K)
  PROVE  /\ Cardinality(M) \in Nat /\ Cardinality(K) \in Nat
         /\ Cardinality(M) <= Cardinality(K) + Cost(N)
         /\ Cardinality(K) <= Cardinality(M) + Cost(N)
<1> DEFINE w == [c \in Contents |-> N["left"][c] + N["right"][c]]
           W == {c \in Contents : w[c] > 0}
<1>1. \A c \in Contents : w[c] \in Nat /\ (w[c] = 0 => N["left"][c] = 0 /\ N["right"][c] = 0)
  BY DEF Counters, Side
<1>2. IsFiniteSet(Contents)
  BY KeylessAssumption
<1>3. Cardinality(W) <= Cost(N)
  <2>1. Cost(N) = Total(w, Contents)
    BY CostAdds
  <2> HIDE DEF w
  <2> QED BY <1>1, <1>2, <2>1, TotalCounts
<1>4. ASSUME NEW X \in SUBSET Contents, NEW Y \in SUBSET Contents, X \subseteq Y \cup W
      PROVE  Cardinality(X) \in Nat /\ Cardinality(Y) \in Nat /\ Cardinality(X) <= Cardinality(Y) + Cost(N)
  <2>1. IsFiniteSet(X) /\ IsFiniteSet(Y) /\ IsFiniteSet(W)
    BY <1>2, FS_Subset
  <2> HIDE DEF W
  <2>2. /\ IsFiniteSet(Y \cup W)
        /\ Cardinality(Y \cup W) = Cardinality(Y) + Cardinality(W) - Cardinality(Y \cap W)
    BY <2>1, FS_Union
  <2>3. Cardinality(X) <= Cardinality(Y \cup W)
    BY <1>4, <2>2, FS_Subset
  <2>4. IsFiniteSet(Y \cap W)
    BY <2>1, FS_Intersection
  <2> DEFINE a == Cardinality(X)
             b == Cardinality(Y)
             d == Cardinality(W)
             e == Cardinality(Y \cap W)
             f == Cardinality(Y \cup W)
             k == Cost(N)
  <2>5. a \in Nat /\ b \in Nat /\ d \in Nat /\ e \in Nat /\ f = b + d - e /\ a <= f /\ d <= k /\ k \in Nat
    BY <1>3, <2>1, <2>2, <2>3, <2>4, FS_CardinalityType, CostAdds
  <2>6. a \in Nat /\ b \in Nat /\ a <= b + k
    <3> HIDE DEF a, b, d, e, f, k
    <3> QED BY <2>5
  <2> QED BY <2>6
<1>5. M \subseteq K \cup W /\ K \subseteq M \cup W
  BY <1>1
<1> HIDE DEF W
<1> QED BY <1>4, <1>5

(* Sums of weights that differ, content by content, by no more than was    *)
(* written of it.                                                          *)
LEMMA TotalNear ==
  ASSUME NEW N \in Counters, NEW u, NEW v,
         \A c \in Contents : /\ u[c] \in Int /\ v[c] \in Int
                             /\ Dist(u[c], v[c]) <= N["left"][c] + N["right"][c]
  PROVE  /\ Total(u, Contents) \in Int /\ Total(v, Contents) \in Int
         /\ Total(u, Contents) <= Total(v, Contents) + Cost(N)
         /\ Total(v, Contents) <= Total(u, Contents) + Cost(N)
<1> DEFINE w == [c \in Contents |-> N["left"][c] + N["right"][c]]
<1>1. \A c \in Contents : w[c] \in Nat /\ w[c] = N["left"][c] + N["right"][c]
  BY DEF Counters, Side
<1>2. Cost(N) = Total(w, Contents)
  BY CostAdds
<1>f. IsFiniteSet(Contents)
  BY KeylessAssumption
<1> HIDE DEF w
<1>3. ASSUME NEW a, NEW b, \A c \in Contents : a[c] \in Int /\ b[c] \in Int /\ a[c] <= b[c] + w[c]
      PROVE  Total(a, Contents) <= Total(b, Contents) + Total(w, Contents)
  <2> DEFINE z == [c \in Contents |-> b[c] + w[c]]
  <2>1. \A c \in Contents : /\ z[c] \in Int /\ a[c] \in Int /\ a[c] <= z[c] /\ b[c] \in Int /\ w[c] \in Int
                            /\ z[c] = b[c] + w[c]
    BY <1>1, <1>3
  <2> HIDE DEF z
  <2>2. Total(a, Contents) <= Total(z, Contents)
    BY <1>f, <2>1, TotalLe
  <2>3. Total(z, Contents) = Total(b, Contents) + Total(w, Contents)
    BY <1>f, <2>1, TotalAdd
  <2> QED BY <2>2, <2>3
<1>4. \A c \in Contents : u[c] <= v[c] + w[c] /\ v[c] <= u[c] + w[c]
  <2> SUFFICES ASSUME NEW c \in Contents PROVE u[c] <= v[c] + w[c] /\ v[c] <= u[c] + w[c]
    OBVIOUS
  <2>1. w[c] \in Nat /\ u[c] \in Int /\ v[c] \in Int /\ Dist(u[c], v[c]) <= w[c]
    BY <1>1
  <2> QED BY <2>1 DEF Dist
<1>5. \A c \in Contents : u[c] \in Int /\ v[c] \in Int
  OBVIOUS
<1>6. Total(u, Contents) \in Int /\ Total(v, Contents) \in Int
  BY <1>f, <1>5, TotalInt
<1> QED BY <1>2, <1>3, <1>4, <1>5, <1>6

(* The surplus of x over y, in copies. *)
Excess(x, y) == [c \in Contents |-> IF x[c] > y[c] THEN x[c] - y[c] ELSE 0]

(* What a report of copies counts is the surplus, content by content.      *)
LEMMA CopiesLacking ==
  ASSUME NEW x \in Multiset, NEW y \in Multiset
  PROVE  MapThenSumSet(LAMBDA c : x[c] - y[c], More(x, y)) = Total(Excess(x, y), Contents)
<1> DEFINE w == Excess(x, y)
           S == More(x, y)
           Of(f) == f = [s \in SUBSET S |-> IF s = {} THEN 0 ELSE (x[Pick(s)] - y[Pick(s)]) + f[s \ {Pick(s)}]]
<1>1. \A c \in Contents : /\ w[c] \in Int /\ (c \notin S => w[c] = 0)
                          /\ (c \in S => w[c] = x[c] - y[c])
  BY BagNat DEF Excess, More
<1>2. S \in SUBSET Contents /\ IsFiniteSet(Contents) /\ IsFiniteSet(S)
  BY KeylessAssumption, FS_Subset DEF More
<1> HIDE DEF w, S
<1>3. ASSUME NEW f PROVE Of(f) <=> Sums(f, w, S)
  <2>1. \A s \in SUBSET S : s # {} => w[Pick(s)] = x[Pick(s)] - y[Pick(s)]
    BY <1>1, <1>2, PickIn
  <2>2. [s \in SUBSET S |-> IF s = {} THEN 0 ELSE (x[Pick(s)] - y[Pick(s)]) + f[s \ {Pick(s)}]]
          = [s \in SUBSET S |-> IF s = {} THEN 0 ELSE w[Pick(s)] + f[s \ {Pick(s)}]]
    BY <2>1
  <2> QED BY <2>2 DEF Sums
<1>4. \A c \in S : w[c] \in Int
  BY <1>1, <1>2
<1>5. PICK f : Sums(f, w, S)
  BY <1>2, <1>4, SumsExist
<1>6. \E h : Of(h)
  BY <1>3, <1>5
<1>7. \E g : Of(g) /\ MapThenSumSet(LAMBDA c : x[c] - y[c], S) = g[S]
  BY <1>6 DEF MapThenSumSet, MapThenFoldSet, Pick
<1>8. PICK g : Sums(g, w, S) /\ MapThenSumSet(LAMBDA c : x[c] - y[c], S) = g[S]
  BY <1>3, <1>7
<1>9. Total(w, S) = g[S]
  <2>1. S \in SUBSET S
    OBVIOUS
  <2> QED BY <1>2, <1>4, <1>8, <2>1, TotalIs
<1>10. Total(w, Contents) = Total(w, S)
  BY <1>1, <1>2, TotalSub
<1>11. MapThenSumSet(LAMBDA c : x[c] - y[c], S) = Total(w, Contents)
  BY <1>8, <1>9, <1>10
<1> QED BY <1>11 DEF w, S

(* The buckets.                                                            *)
NumberOf == IF plan = {} THEN Buckets ELSE Only(plan).n
InBucket(c, b) ==
  IF plan = {} THEN Hash[c] % Buckets = b ELSE Key[c] # Null /\ Key[c] \in KeyRangeOf(b)
Placed(c, bs) == \E b \in bs : InBucket(c, b)
Sliced(lo, hi, n) == [lo |-> lo, hi |-> hi, n |-> n]
PlanOk == plan = {} \/ \E lo \in Int, hi \in Int, n \in Nat \ {0} : lo <= hi /\ plan = {Sliced(lo, hi, n)}
(* Where the buckets begin: each ends where the next one begins.           *)
Starts(start, lo, hi, n) ==
  /\ start \in [Nat -> Int]
  /\ start[0] = lo /\ start[n] = hi + 1
  /\ \A i, j \in Nat : i <= j => start[i] <= start[j]
  /\ \A b \in Nat : KeyRangeOf(b) = start[b] .. start[b + 1] - 1

LEMMA CoveredIs == ASSUME NEW bs PROVE Covered(bs) = {c \in Contents : Placed(c, bs)}
BY DEF Covered, Placed, InBucket

LEMMA PlacedFrame ==
  ASSUME UNCHANGED <<mode, plan, size, exact>>
  PROVE  /\ Buckets' = Buckets /\ NumberOf' = NumberOf
         /\ \A c, b : InBucket(c, b)' = InBucket(c, b)
<1>1. Buckets' = Buckets
  BY DEF Buckets, Counts, Sizes
<1>2. NumberOf' = NumberOf
  BY <1>1 DEF NumberOf
<1>3. \A c, b : InBucket(c, b)' = InBucket(c, b)
  BY <1>1 DEF InBucket, KeyRangeOf
<1> QED BY <1>1, <1>2, <1>3

LEMMA SizesNat ==
  ASSUME KeylessType, \A s \in Side : size[s] # {}
  PROVE  Sizes["left"] \in Nat /\ Sizes["right"] \in Nat
BY OnlyIn DEF KeylessType, Sizes, Side

LEMMA CountsNat ==
  ASSUME KeylessType, \A s \in Side : exact[s] # {}
  PROVE  Counts["left"] \in Nat /\ Counts["right"] \in Nat
BY OnlyIn DEF KeylessType, Counts, Side

LEMMA BucketsPositive ==
  ASSUME KeylessType, \A s \in Side : size[s] # {}
  PROVE  Buckets \in Nat \ {0}
<1> DEFINE n == IF ~mode.filtered /\ \A s \in Side : exact[s] # {} THEN Counts ELSE Sizes
<1>1. n["left"] \in Int /\ n["right"] \in Int
  BY SizesNat, CountsNat
<1>2. Buckets = BucketsFor(n)
  BY DEF Buckets
<1> HIDE DEF n
<1>3. Larger(n) \in Int
  BY <1>1, MaxOfTwo DEF Larger
<1>4. PerBucket \in Nat \ {0} /\ MaxBuckets \in Nat \ {0}
  BY KeylessAssumption
<1> DEFINE p == Max({1, Larger(n)}) + PerBucket - 1
           q == p \div PerBucket
           r == Max({1, q})
<1>5. p \in Int
  BY <1>3, <1>4, MaxOfTwo
<1>6. q \in Int
  <2> HIDE DEF p
  <2> QED BY <1>4, <1>5
<1>7. r \in Nat \ {0}
  <2> HIDE DEF q
  <2> QED BY <1>6, MaxOfTwo
<1>8. BucketsFor(n) = Min({MaxBuckets, r})
  BY DEF BucketsFor
<1>9. Min({MaxBuckets, r}) \in Nat \ {0}
  <2> HIDE DEF r
  <2> QED BY <1>4, <1>7, MinOfTwo
<1> QED BY <1>2, <1>8, <1>9

LEMMA OnlyOne == ASSUME NEW x PROVE Only({x}) = x
BY DEF Only

LEMMA PlanIs ==
  ASSUME NEW lo, NEW hi, NEW n, plan = {Sliced(lo, hi, n)}
  PROVE  plan # {} /\ Only(plan).lo = lo /\ Only(plan).hi = hi /\ Only(plan).n = n
<1>1. Only(plan) = Sliced(lo, hi, n)
  BY OnlyOne
<1> QED BY <1>1 DEF Sliced

(* Bucket b of a range of the key ends where bucket b + 1 begins.          *)
LEMMA RangesAbut ==
  ASSUME NEW lo \in Int, NEW hi \in Int, lo <= hi, NEW n \in Nat \ {0}, plan = {Sliced(lo, hi, n)}
  PROVE  \E start : Starts(start, lo, hi, n)
<1> DEFINE width == hi - lo + 1
           seg == width \div n
           wide == width % n
           start == [b \in Nat |-> lo + b * seg + Min({b, wide})]
<1>1. width \in Nat \ {0}
  OBVIOUS
<1>2. seg \in Nat /\ wide \in Nat /\ wide < n /\ width = n * seg + wide
  <2> HIDE DEF width
  <2> QED BY <1>1
<1>3. Only(plan).lo = lo /\ Only(plan).hi = hi /\ Only(plan).n = n
  BY PlanIs
<1>4. ASSUME NEW b \in Nat PROVE KeyRangeOf(b) = start[b] .. start[b] + seg - (IF b < wide THEN 0 ELSE 1)
  <2>1. start[b] = lo + b * seg + Min({b, wide})
    OBVIOUS
  <2> HIDE DEF start
  <2> QED BY <1>3, <2>1 DEF KeyRangeOf
<1>w. width = hi - lo + 1
  OBVIOUS
<1> HIDE DEF width, seg, wide
<1>5. \A b \in Nat : b * seg \in Nat
  BY <1>2
<1>6. \A b \in Nat : start[b] = lo + b * seg + (IF b <= wide THEN b ELSE wide)
  BY <1>2, MinOfTwo
<1>7. start \in [Nat -> Int]
  <2> SUFFICES ASSUME NEW b \in Nat PROVE start[b] \in Int
    <3>1. \A b \in Nat : lo + b * seg + Min({b, wide}) \in Int
      BY <1>2, <1>5, MinOfTwo
    <3> QED BY <3>1
  <2> QED BY <1>2, <1>5, <1>6
<1> HIDE DEF start
<1>8. start[0] = lo
  <2>1. 0 * seg = 0
    BY <1>2
  <2> QED BY <1>2, <1>6, <2>1
<1>9. start[n] = hi + 1
  <2> DEFINE ns == n * seg
  <2>1. ns \in Nat /\ width = ns + wide /\ start[n] = lo + ns + wide
    BY <1>2, <1>5, <1>6
  <2> HIDE DEF ns
  <2> QED BY <1>w, <2>1, <1>2
<1>10. ASSUME NEW i \in Nat, NEW j \in Nat, i <= j PROVE start[i] <= start[j]
  <2>1. PICK d \in Nat : j = i + d
    <3>1. j - i \in Nat /\ j = i + (j - i)
      BY <1>10
    <3> QED BY <3>1
  <2>2. j * seg = i * seg + d * seg
    BY <1>2, <2>1
  <2> DEFINE is == i * seg
             js == j * seg
             ds == d * seg
  <2>3. is \in Nat /\ js \in Nat /\ ds \in Nat /\ js = is + ds
    BY <1>5, <2>2
  <2>4. start[i] = lo + is + (IF i <= wide THEN i ELSE wide) /\ start[j] = lo + js + (IF j <= wide THEN j ELSE wide)
    BY <1>6
  <2> HIDE DEF is, js, ds
  <2> QED BY <1>2, <1>10, <2>3, <2>4
<1>11. ASSUME NEW b \in Nat PROVE KeyRangeOf(b) = start[b] .. start[b + 1] - 1
  <2>1. (b + 1) * seg = b * seg + seg
    BY <1>2
  <2> DEFINE bs == b * seg
             cs == (b + 1) * seg
  <2>2. bs \in Nat /\ cs \in Nat /\ cs = bs + seg
    BY <1>5, <2>1
  <2>3. start[b] = lo + bs + (IF b <= wide THEN b ELSE wide)
        /\ start[b + 1] = lo + cs + (IF b + 1 <= wide THEN b + 1 ELSE wide)
    BY <1>6
  <2> HIDE DEF bs, cs
  <2>4. start[b + 1] - 1 = start[b] + seg - (IF b < wide THEN 0 ELSE 1)
    BY <1>2, <2>2, <2>3
  <2> QED BY <1>4, <2>4
<1>12. Starts(start, lo, hi, n)
  BY <1>7, <1>8, <1>9, <1>10, <1>11 DEF Starts
<1> QED BY <1>12

(* Every content of the plan has its bucket, and no content has two.       *)
LEMMA SomeBucket ==
  ASSUME KeylessType, \A s \in Side : size[s] # {}, PlanOk, NEW c \in Contents,
         plan # {} => Key[c] \in Only(plan).lo .. Only(plan).hi
  PROVE  Placed(c, 0 .. NumberOf - 1)
<1>1. CASE plan = {}
  <2>1. Buckets \in Nat \ {0} /\ Hash[c] \in Nat
    BY BucketsPositive, KeylessAssumption
  <2>2. Hash[c] % Buckets \in 0 .. Buckets - 1
    BY <2>1
  <2> QED BY <1>1, <2>2 DEF Placed, InBucket, NumberOf
<1>2. CASE plan # {}
  <2>1. PICK lo \in Int, hi \in Int, n \in Nat \ {0} : lo <= hi /\ plan = {Sliced(lo, hi, n)}
    BY <1>2 DEF PlanOk
  <2>p. PICK start : Starts(start, lo, hi, n)
    BY <2>1, RangesAbut
  <2>2. /\ start \in [Nat -> Int] /\ start[0] = lo /\ start[n] = hi + 1
        /\ \A i, j \in Nat : i <= j => start[i] <= start[j]
    BY <2>p DEF Starts
  <2>k. ASSUME NEW x \in Nat, NEW k PROVE k \in KeyRangeOf(x) <=> k \in start[x] .. start[x + 1] - 1
    BY <2>p DEF Starts
  <2>i. \A x \in Nat : start[x] \in Int /\ start[x + 1] \in Int
    BY <2>2
  <2>3. Only(plan).lo = lo /\ Only(plan).hi = hi /\ Only(plan).n = n
    BY <2>1, PlanIs
  <2>4. Key[c] \in Int /\ lo <= Key[c] /\ Key[c] <= hi
    BY <1>2, <2>3
  <2> DEFINE T == {b \in Nat : start[b + 1] > Key[c]}
  <2>5. n - 1 \in T
    <3>1. n - 1 \in Nat /\ (n - 1) + 1 = n
      OBVIOUS
    <3>2. start[n] > Key[c]
      BY <2>2, <2>4
    <3> QED BY <3>1, <3>2
  <2>6. PICK b \in T : \A y \in T : b <= y
    BY <2>5, LeastNat
  <2>7. b <= n - 1 /\ b \in Nat
    BY <2>5, <2>6
  <2>8. start[b] <= Key[c]
    <3>1. CASE b = 0
      BY <3>1, <2>2, <2>4
    <3>2. CASE b # 0
      <4>1. b - 1 \in Nat /\ b - 1 \notin T /\ (b - 1) + 1 = b
        BY <2>6, <2>7, <3>2
      <4>2. start[b] \in Int
        BY <2>2, <2>7
      <4> QED BY <4>1, <4>2, <2>4
    <3> QED BY <3>1, <3>2
  <2>9. Key[c] \in KeyRangeOf(b)
    <3>1. start[b] \in Int /\ start[b + 1] \in Int /\ start[b + 1] > Key[c]
      BY <2>2, <2>6, <2>7
    <3>2. Key[c] \in start[b] .. start[b + 1] - 1
      BY <3>1, <2>4, <2>8
    <3> QED BY <3>2, <2>k, <2>7
  <2>10. b \in 0 .. NumberOf - 1
    BY <1>2, <2>3, <2>7 DEF NumberOf
  <2>11. Key[c] # Null
    BY <2>4, KeylessAssumption
  <2> QED BY <1>2, <2>9, <2>10, <2>11 DEF Placed, InBucket
<1> QED BY <1>1, <1>2

LEMMA OneBucket ==
  ASSUME PlanOk, NEW c \in Contents, NEW a \in Nat, NEW b \in Nat, InBucket(c, a), InBucket(c, b)
  PROVE  a = b
<1>1. CASE plan = {}
  BY <1>1 DEF InBucket
<1>2. CASE plan # {}
  <2>1. PICK lo \in Int, hi \in Int, n \in Nat \ {0} : lo <= hi /\ plan = {Sliced(lo, hi, n)}
    BY <1>2 DEF PlanOk
  <2>p. PICK start : Starts(start, lo, hi, n)
    BY <2>1, RangesAbut
  <2>2. /\ start \in [Nat -> Int] /\ start[0] = lo /\ start[n] = hi + 1
        /\ \A i, j \in Nat : i <= j => start[i] <= start[j]
    BY <2>p DEF Starts
  <2>k. ASSUME NEW x \in Nat, NEW k PROVE k \in KeyRangeOf(x) <=> k \in start[x] .. start[x + 1] - 1
    BY <2>p DEF Starts
  <2>i. \A x \in Nat : start[x] \in Int /\ start[x + 1] \in Int
    BY <2>2
  <2>3. Key[c] \in KeyRangeOf(a) /\ Key[c] \in KeyRangeOf(b)
    BY <1>2 DEF InBucket
  <2>4. ASSUME NEW i \in Nat, NEW j \in Nat, i < j, Key[c] \in KeyRangeOf(i), Key[c] \in KeyRangeOf(j) PROVE FALSE
    <3>1. start[i + 1] <= start[j]
      <4>1. i + 1 \in Nat /\ i + 1 <= j
        BY <2>4
      <4> QED BY <2>2, <4>1
    <3>2. Key[c] \in start[i] .. start[i + 1] - 1 /\ Key[c] \in start[j] .. start[j + 1] - 1
      BY <2>4, <2>k
    <3>3. start[i] \in Int /\ start[i + 1] \in Int /\ start[j] \in Int /\ start[j + 1] \in Int
      BY <2>i
    <3> QED BY <3>1, <3>2, <3>3
  <2> QED BY <2>3, <2>4
<1> QED BY <1>1, <1>2

Near(x, y, k) == x \in Int /\ y \in Int /\ x <= y + k /\ y <= x + k
(* What s is short of.                                                     *)
Gap(s, l, r) == IF s = "left" THEN More(r, l) ELSE More(l, r)
LackingOf(of, s, l, r) ==
  IF of = "contents" THEN Cardinality(Gap(s, l, r))
  ELSE IF s = "left" THEN Total(Excess(r, l), Contents) ELSE Total(Excess(l, r), Contents)

(* What was missing on s at the start, the right table seen through th.    *)
Truth(s, th) == LackingOf(unit, s, Start("left", "left"), Start(th, "right"))
(* What is to be reported is near enough.                                  *)
Answered ==
  pc = "commit" \/ Reported => \E th \in Side : \A s \in Side : Near(missing[s], Truth(s, th), Slack)

LEMMA LackingIs ==
  ASSUME NEW of, NEW s \in Side, NEW l \in Multiset, NEW r \in Multiset
  PROVE  (LET x == IF s = "left" THEN r ELSE l
              y == IF s = "left" THEN l ELSE r
          IN  IF of = "contents" THEN Cardinality(More(x, y))
              ELSE MapThenSumSet(LAMBDA c : x[c] - y[c], More(x, y)))
         = LackingOf(of, s, l, r)
<1> DEFINE x == IF s = "left" THEN r ELSE l
           y == IF s = "left" THEN l ELSE r
<1>1. x \in Multiset /\ y \in Multiset
  OBVIOUS
<1>2. LackingOf(of, s, l, r) = IF of = "contents" THEN Cardinality(More(x, y)) ELSE Total(Excess(x, y), Contents)
  BY DEF LackingOf, Gap
<1>3. MapThenSumSet(LAMBDA c : x[c] - y[c], More(x, y)) = Total(Excess(x, y), Contents)
  <2> HIDE DEF x, y
  <2> QED BY <1>1, CopiesLacking
<1> QED BY <1>2, <1>3

LEMMA DistIs ==
  ASSUME NEW x \in Int, NEW y \in Int
  PROVE  /\ Dist(x, y) \in Nat /\ (Dist(x, y) = 0 <=> x = y) /\ (Dist(x, y) <= 0 <=> x = y)
         /\ \A k \in Int : Dist(x, y) <= k <=> x <= y + k /\ y <= x + k
BY DEF Dist

Quiet(N, c) == N["left"][c] = 0 /\ N["right"][c] = 0

(* N counts the writes to what the statements see, B is what was counted.  *)
Path(N, B) ==
  \A s \in Side, c \in Contents : Dist(B[s][c], Start(s, s)[c]) + Dist(View(s, s)[c], B[s][c]) <= N[s][c]
Counted(B) ==
  \A s \in Side : exact[s] \subseteq {Sized(B[s])} /\ (mode.filtered => size[s] \subseteq {Sized(B[s])})

(* g was read of side s.                                                   *)
NearBag(g, s, N) == g \in Multiset /\ \A c \in Contents : Dist(g[c], Start(s, s)[c]) <= N[s][c]

LEMMA StartSame ==
  ASSUME KeylessType, Steady, ~mode.snapshot, NEW s \in Side, NEW t \in Side
  PROVE  Start(s, t) = Start(t, t)
BY DEF Steady, Start, Side

LEMMA ViewNear ==
  ASSUME KeylessType, Steady, pc \in Reading, NEW N \in Counters, NEW B \in [Side -> Multiset], Path(N, B),
         NEW s \in Side, NEW t \in Side
  PROVE  View(s, t) \in Multiset /\ \A c \in Contents : Dist(View(s, t)[c], Start(s, t)[c]) <= N[t][c]
<1>1. View(s, t) \in Multiset /\ Start(s, t) \in Multiset
  BY ViewBag, StartBag
<1>2. ASSUME NEW c \in Contents PROVE Dist(View(s, t)[c], Start(s, t)[c]) <= N[t][c]
  <2>1. N[t][c] \in Nat
    BY DEF Counters
  <2>2. View(s, t)[c] \in Int /\ Start(s, t)[c] \in Int
    BY <1>1, BagNat
  <2>3. CASE mode.snapshot
    <3>1. snap = base /\ snap[s] # {}
      BY <2>3 DEF Steady, KeylessType
    <3>2. View(s, t) = Start(s, t)
      BY <3>1 DEF View, Start
    <3>3. Dist(View(s, t)[c], Start(s, t)[c]) = 0
      BY <2>2, <3>2, DistIs
    <3> QED BY <2>1, <3>3
  <2>4. CASE ~mode.snapshot
    <3>1. View(s, t) = View(t, t)
      BY <2>4 DEF Steady, View, Both
    <3>2. Start(s, t) = Start(t, t)
      BY <2>4, StartSame
    <3>3. B[t] \in Multiset /\ View(t, t) \in Multiset /\ Start(t, t) \in Multiset
      BY ViewBag, StartBag
    <3>4. B[t][c] \in Int /\ View(t, t)[c] \in Int /\ Start(t, t)[c] \in Int
      BY <3>3, BagNat
    <3>5. Dist(B[t][c], Start(t, t)[c]) + Dist(View(t, t)[c], B[t][c]) <= N[t][c]
      BY DEF Path
    <3>6. Dist(View(t, t)[c], Start(t, t)[c]) <= N[t][c]
      <4> DEFINE x == B[t][c]
                 y == View(t, t)[c]
                 z == Start(t, t)[c]
      <4>1. x \in Int /\ y \in Int /\ z \in Int /\ Dist(x, z) + Dist(y, x) <= N[t][c]
        BY <3>4, <3>5
      <4>2. Dist(y, z) <= N[t][c]
        <5> HIDE DEF x, y, z
        <5> QED BY <2>1, <4>1 DEF Dist
      <4> QED BY <4>2
    <3> QED BY <3>1, <3>2, <3>6
  <2> QED BY <2>3, <2>4
<1> QED BY <1>1, <1>2

LEMMA ViewFrame ==
  ASSUME UNCHANGED <<mode, tab, writes, snap, base>>
  PROVE  /\ \A s, t : View(s, t)' = View(s, t) /\ Start(s, t)' = Start(s, t)
         /\ Slack' = Slack
BY DEF View, Start, Slack

LEMMA StartFrame ==
  ASSUME UNCHANGED base
  PROVE  \A s, t : Start(s, t)' = Start(s, t)
BY DEF Start

LEMMA PathFrame ==
  ASSUME UNCHANGED <<mode, tab, writes, snap, base>>, NEW N, NEW B
  PROVE  Path(N, B)' = Path(N, B)
BY ViewFrame DEF Path

(* Bags read where nothing was written show what was there at the start.   *)
LEMMA QuietTrue ==
  ASSUME KeylessType, NEW N \in Counters, NEW s \in Side, NEW t \in Side, NEW g \in Multiset, NEW c \in Contents,
         Dist(g[c], Start(s, t)[c]) <= N[t][c], N[t][c] = 0
  PROVE  g[c] = Start(s, t)[c]
<1>1. Start(s, t) \in Multiset
  BY StartBag
<1>2. g[c] \in Int /\ Start(s, t)[c] \in Int
  BY <1>1, BagNat
<1> QED BY <1>2, DistIs

(* A report of the contents that differ between bags read where nothing    *)
(* was written is as true as few writes there were.                        *)
LEMMA ContentsNear ==
  ASSUME KeylessType, NEW N \in Counters, Cost(N) <= Slack, NEW l \in Multiset, NEW r \in Multiset,
         NEW th \in Side, NEW s \in Side,
         \A c \in Contents : Quiet(N, c) => l[c] = Start("left", "left")[c] /\ r[c] = Start(th, "right")[c]
  PROVE  Near(Cardinality(Gap(s, l, r)), LackingOf("contents", s, Start("left", "left"), Start(th, "right")), Slack)
<1> DEFINE x == Start("left", "left")
           y == Start(th, "right")
           M == Gap(s, l, r)
           K == Gap(s, x, y)
<1>1. LackingOf("contents", s, x, y) = Cardinality(K)
  BY DEF LackingOf
<1>2. M \in SUBSET Contents /\ K \in SUBSET Contents
  BY DEF Gap, More
<1>3. \A c \in Contents : Quiet(N, c) => (c \in M <=> c \in K)
  BY DEF Gap, More
<1> HIDE DEF M, K
<1>4. /\ Cardinality(M) \in Nat /\ Cardinality(K) \in Nat
      /\ Cardinality(M) <= Cardinality(K) + Cost(N)
      /\ Cardinality(K) <= Cardinality(M) + Cost(N)
  <2>1. \A c \in Contents : N["left"][c] = 0 /\ N["right"][c] = 0 => (c \in M <=> c \in K)
    BY <1>3 DEF Quiet
  <2> QED BY <1>2, <2>1, CardinalityNear
<1>5. Cost(N) \in Nat /\ Slack \in Nat
  BY CostAdds DEF Slack, KeylessType
<1>6. Near(Cardinality(M), Cardinality(K), Slack)
  BY <1>4, <1>5 DEF Near
<1> QED BY <1>1, <1>6 DEF M

LEMMA Reporting ==
  ASSUME KeylessType, NEW counts, NEW of, NEW sum, Report(counts, of, sum), NEW th \in Side,
         \A s \in Side : Near(counts[s], LackingOf(of, s, Start("left", "left"), Start(th, "right")), Slack)
  PROVE  Answered'
<1>1. /\ UNCHANGED <<mode, tab, writes, snap, base>> /\ missing' = counts /\ unit' = of
  BY DEF Report, env, view
<1>2. KeylessType /\ \A s, t : Start(s, t)' = Start(s, t)
  BY <1>1, StartFrame
<1>3. Slack' = Slack
  BY <1>1, ViewFrame
<1>4. ASSUME NEW s \in Side PROVE Truth(s, th)' = LackingOf(of, s, Start("left", "left"), Start(th, "right"))
  BY <1>1, <1>2 DEF Truth
<1> QED BY <1>1, <1>3, <1>4 DEF Answered

LEMMA AnsweredIs ==
  ASSUME KeylessType, Answered, Reported
  PROVE  \E th \in Side : \A s \in Side :
           Near(missing[s], Lacking(s, Start("left", "left"), Start(th, "right")), Slack)
<1>1. PICK th \in Side : \A s \in Side : Near(missing[s], Truth(s, th), Slack)
  BY DEF Answered
<1>2. ASSUME NEW s \in Side
      PROVE  Truth(s, th) = Lacking(s, Start("left", "left"), Start(th, "right"))
  <2> DEFINE l == Start("left", "left")
             r == Start(th, "right")
  <2>1. l \in Multiset /\ r \in Multiset
    BY StartBag DEF Side
  <2>2. Lacking(s, l, r) = LackingOf(unit, s, l, r)
    <3> HIDE DEF l, r
    <3>1. LackingOf(unit, s, l, r) =
            (LET x == IF s = "left" THEN r ELSE l
                 y == IF s = "left" THEN l ELSE r
             IN  IF unit = "contents" THEN Cardinality(More(x, y))
                 ELSE MapThenSumSet(LAMBDA c : x[c] - y[c], More(x, y)))
      BY <2>1, LackingIs
    <3> QED BY <3>1 DEF Lacking
  <2> QED BY <2>2 DEF Truth
<1> QED BY <1>1, <1>2

(* g is true of the quiet contents of the buckets bs.                      *)
TrueOn(g, s, N, bs) ==
  g \in Multiset /\ \A c \in Contents : Placed(c, bs) /\ N[s][c] = 0 => g[c] = Start(s, s)[c]
DifferAt(c) == Start("left", "left")[c] # Start("right", "right")[c]
(* The buckets whose checksums were compared.                              *)
Behind == IF plan = {} THEN {} ELSE 0 .. bucket - 1
(* M is what was found missing: right for the quiet contents of every      *)
(* bucket but those still to be pulled.                                    *)
Found(N, M) ==
  \A s \in Side :
    /\ missing[s] = Cardinality(M[s])
    /\ \A c \in Contents :
         LET short == c \in Gap(s, Start("left", "left"), Start("right", "right"))
         IN  /\ c \in M[s] => ~Placed(c, differ)
             /\ Quiet(N, c) => (c \in M[s] => short) /\ (short => c \in M[s] \/ Placed(c, differ))

(* What is known in every phase, and what each one knows besides.          *)
Ground(N, B) ==
  /\ N \in Counters /\ B \in [Side -> Multiset]
  /\ Cost(N) <= Slack /\ Path(N, B) /\ Counted(B)
LookupFact(N, B) ==
  /\ \E g : got[Small] = {g} /\ NearBag(g, Small, N)
  /\ \E h \in Multiset : got[Big] = {h} /\ \A c \in Contents :
       IF c \in asked THEN Dist(B[Big][c], Start(Big, Big)[c]) + Dist(h[c], B[Big][c]) <= N[Big][c]
                      ELSE h[c] = 0
IbltFact(N) == \A s \in Side : got[s] = {} \/ \E g : got[s] = {g} /\ NearBag(g, s, N)
ProbeFact(N) == \A s \in Side : got[s] = {} \/ \E g : got[s] = {KeysIn(g)} /\ NearBag(g, s, N)
RangeFact(N) ==
  /\ PlanOk
  /\ \A c \in Contents : plan # {} /\ Quiet(N, c) /\ DifferAt(c) => Key[c] \in Only(plan).lo .. Only(plan).hi
SumsFact(N) ==
  /\ bucket \in Nat /\ differ \subseteq 0 .. NumberOf - 1
  /\ plan # {} => bucket < NumberOf
  /\ \A s \in Side : got[s] = {} \/ \E g : got[s] = {g} /\ TrueOn(g, s, N, Under)
  /\ \A c \in Contents : Quiet(N, c) /\ DifferAt(c) /\ Placed(c, Behind) => Placed(c, differ)
PullFact(N) ==
  /\ differ \subseteq 0 .. NumberOf - 1
  /\ \A s \in Side :
       got[s] = {} \/ /\ differ # {}
                      /\ \E g : /\ got[s] = {g} /\ TrueOn(g, s, N, Pulling)
                                /\ \A c \in Contents : ~Placed(c, Pulling) => g[c] = 0
  /\ \E M \in [Side -> SUBSET Contents] : Found(N, M)

Facts(N, B) ==
  /\ Ground(N, B)
  /\ pc = "lookup" => LookupFact(N, B)
  /\ pc = "iblt" => IbltFact(N)
  /\ pc = "probe" => ProbeFact(N)
  /\ pc \in {"sums", "pull"} => RangeFact(N)
  /\ pc = "sums" => SumsFact(N)
  /\ pc = "pull" => PullFact(N)
Told == pc \in Reading => \E N, B : Facts(N, B)

(* The inductive invariant.                                                *)
KeylessInv == KeylessType /\ Steady /\ Told /\ Answered

LEMMA GroundFrame ==
  ASSUME NEW N, NEW B, Ground(N, B), UNCHANGED <<mode, tab, writes, snap, base, size, exact>>
  PROVE  Ground(N, B)'
BY ViewFrame, PathFrame DEF Ground, Counted

LEMMA Idle ==
  ASSUME NEW N, NEW B, Ground(N, B)', pc' \in {"size", "recount", "summary"}
  PROVE  Told'
BY DEF Told, Facts

LEMMA CostZero ==
  ASSUME NEW N, N = [s \in Side |-> [c \in Contents |-> 0]]
  PROVE  N \in Counters /\ Cost(N) = 0
<1>1. N \in Counters
  BY DEF Counters
<1>2. ASSUME NEW s \in Side PROVE Total(N[s], Contents) = 0
  <2> DEFINE w == N[s]
  <2>1. \A c \in Contents : w[c] \in Int /\ w[c] = 0
    OBVIOUS
  <2> HIDE DEF w
  <2>2. IsFiniteSet(Contents) /\ {} \in SUBSET Contents
    BY KeylessAssumption
  <2>3. Total(w, Contents) = Total(w, {})
    BY <2>1, <2>2, TotalSub
  <2>4. Total(w, Contents) = 0
    BY <2>3, TotalEmpty
  <2> QED BY <2>4 DEF w
<1> QED BY <1>1, <1>2 DEF Cost, Side

LEMMA ToldInit == ASSUME Init PROVE Told
<1>1. KeylessType /\ Steady
  BY KeylessInit
<1>2. CASE mode.snapshot
  BY <1>2 DEF Told, Init, Reading
<1>3. CASE ~mode.snapshot
  <2> DEFINE N == [s \in Side |-> [c \in Contents |-> 0]]
  <2>1. N \in Counters /\ Cost(N) = 0
    BY CostZero
  <2>2. tab \in [Side -> Multiset] /\ Slack = 0 /\ pc = "size"
    BY <1>1, <1>3 DEF Slack, KeylessType, Init
  <2>3. \A s \in Side : View(s, s) = tab[s] /\ Start(s, s) = tab[s]
    BY OnlyOne DEF Init, View, Start, Both
  <2>4. Path(N, tab)
    <3> SUFFICES ASSUME NEW s \in Side, NEW c \in Contents
                 PROVE  Dist(tab[s][c], Start(s, s)[c]) + Dist(View(s, s)[c], tab[s][c]) <= N[s][c]
      BY DEF Path
    <3>1. tab[s][c] \in Int
      BY <2>2, BagNat
    <3>2. Dist(tab[s][c], tab[s][c]) = 0
      BY <3>1, DistIs
    <3> QED BY <2>3, <3>2
  <2>5. Counted(tab)
    BY DEF Init, Counted, Both
  <2> HIDE DEF N
  <2>6. Ground(N, tab)
    BY <2>1, <2>2, <2>4, <2>5 DEF Ground
  <2> QED BY <2>2, <2>6 DEF Told, Facts
<1> QED BY <1>2, <1>3

LEMMA OpenTold ==
  ASSUME KeylessInv, NEW s \in Side, OpenSnapshot(s)
  PROVE  Told'
<1>1. CASE s = "left"
  BY <1>1 DEF OpenSnapshot, Told, Reading
<1>2. CASE s # "left"
  <2>1. pc' = "size" /\ pc = "snapRight" /\ mode' = mode /\ size' = size /\ exact' = exact
    BY <1>2 DEF OpenSnapshot, env, sizes
  <2>n. [Next]_vars
    BY DEF Next
  <2>2. KeylessType' /\ Steady'
    BY <2>n, TypeStep, SteadyStep DEF KeylessInv
  <2>3. mode.snapshot /\ size = Both({}) /\ exact = Both({})
    BY <2>1 DEF KeylessInv, Steady, Opening
  <2>4. snap' = base'
    BY <2>1, <2>2, <2>3 DEF Steady, Reading
  <2>5. \A x \in Side : base'[x] # {}
    BY <2>2 DEF KeylessType
  <2>6. \A x \in Side : View(x, x)' = Start(x, x)'
    BY <2>4, <2>5 DEF View, Start
  <2> DEFINE N == [x \in Side |-> [c \in Contents |-> 0]]
  <2>7. N \in Counters /\ Cost(N) = 0
    BY CostZero
  <2>8. PICK B : B = [x \in Side |-> Start(x, x)']
    OBVIOUS
  <2>9. \A x \in Side : Start(x, x)' \in Multiset
    <3>1. \A x \in Side : Only(base'[x]) \in [Side -> Multiset]
      BY <2>2, OnlyIn DEF KeylessType
    <3> QED BY <3>1 DEF Start
  <2>10. B \in [Side -> Multiset]
    BY <2>8, <2>9
  <2>11. Path(N, B)'
    <3> SUFFICES ASSUME NEW x \in Side, NEW c \in Contents
                 PROVE  Dist(B[x][c], Start(x, x)'[c]) + Dist(View(x, x)'[c], B[x][c]) <= N[x][c]
      BY DEF Path
    <3>1. B[x] = Start(x, x)' /\ View(x, x)' = B[x] /\ N[x][c] = 0
      BY <2>6, <2>8
    <3>2. B[x][c] \in Int
      BY <2>10, BagNat
    <3>3. Dist(B[x][c], B[x][c]) = 0
      BY <3>2, DistIs
    <3> QED BY <3>1, <3>3
  <2>12. Counted(B)'
    BY <2>1, <2>3 DEF Counted, Both
  <2>13. Slack' = 0
    BY <2>1, <2>3 DEF Slack
  <2> HIDE DEF N
  <2>14. Ground(N, B)'
    BY <2>7, <2>10, <2>11, <2>12, <2>13 DEF Ground
  <2> QED BY <2>1, <2>14, Idle
<1> QED BY <1>1, <1>2

(* Counting what is seen now.                                              *)
LEMMA Recounting ==
  ASSUME KeylessInv, pc \in Reading, NEW N, NEW B, Ground(N, B), NEW s \in Side,
         UNCHANGED <<mode, tab, writes, snap, base>>
  PROVE  \E A \in [Side -> Multiset] :
           Path(N, A)' /\ A[s] = View(s, s) /\ \A x \in Side \ {s} : A[x] = B[x]
<1>1. PICK v : v = View(s, s)
  OBVIOUS
<1>2. v \in Multiset /\ B \in [Side -> Multiset] /\ N \in Counters
  BY <1>1, ViewBag DEF KeylessInv, Ground
<1> DEFINE A == [B EXCEPT ![s] = v]
<1>3. A \in [Side -> Multiset] /\ A[s] = v /\ \A x \in Side \ {s} : A[x] = B[x]
  BY <1>2
<1> HIDE DEF A
<1>4. Path(N, A)
  <2> SUFFICES ASSUME NEW x \in Side, NEW c \in Contents
               PROVE  Dist(A[x][c], Start(x, x)[c]) + Dist(View(x, x)[c], A[x][c]) <= N[x][c]
    BY DEF Path
  <2>1. CASE x = s
    <3>1. Dist(v[c], Start(s, s)[c]) <= N[s][c]
      BY <1>1, <1>2, ViewNear DEF KeylessInv, Ground
    <3>2. v[c] \in Int /\ Start(s, s) \in Multiset
      BY <1>2, BagNat, StartBag DEF KeylessInv
    <3>3. Start(s, s)[c] \in Int
      BY <3>2, BagNat
    <3>4. Dist(v[c], v[c]) = 0 /\ Dist(v[c], Start(s, s)[c]) \in Nat
      BY <3>2, <3>3, DistIs
    <3> QED BY <1>1, <1>3, <2>1, <3>1, <3>4
  <2>2. CASE x # s
    BY <1>3, <2>2 DEF Ground, Path
  <2> QED BY <2>1, <2>2
<1>5. Path(N, A)'
  BY <1>4, PathFrame
<1> QED BY <1>1, <1>3, <1>5

LEMMA SizingTold ==
  ASSUME KeylessInv, NEW s \in Side, CountFiltered(s) \/ Estimate(s) \/ NoEstimate(s) \/ CountInstead(s)
  PROVE  Told'
<1>1. pc = "size" /\ pc' = "size" /\ UNCHANGED <<mode, tab, writes, snap, base, exact>>
  BY DEF CountFiltered, Estimating, Estimate, NoEstimate, CountInstead, Sizing, view, env
<1>2. exact = Both({})
  BY <1>1 DEF KeylessInv, Steady
<1>3. PICK N, B : Ground(N, B)
  BY <1>1 DEF KeylessInv, Told, Facts, Reading
<1>4. Slack' = Slack
  BY <1>1, ViewFrame
<1>5. CASE mode.filtered
  <2>1. size' = [size EXCEPT ![s] = {Sized(View(s, s))}]
    BY <1>5, <1>1 DEF CountFiltered, Estimating, Estimate, NoEstimate, CountInstead, Sizing,
       KeylessInv
  <2>2. PICK A \in [Side -> Multiset] :
           Path(N, A)' /\ A[s] = View(s, s) /\ \A x \in Side \ {s} : A[x] = B[x]
    BY <1>1, <1>3, Recounting DEF Reading
  <2>3. Counted(A)'
    BY <1>1, <1>2, <1>3, <2>1, <2>2 DEF Counted, Ground, Both, KeylessInv, KeylessType
  <2>4. Ground(N, A)'
    BY <1>3, <1>4, <2>2, <2>3 DEF Ground
  <2> QED BY <1>1, <2>4, Idle
<1>6. CASE ~mode.filtered
  <2>1. Counted(B)'
    BY <1>1, <1>2, <1>6 DEF Counted, Both
  <2>2. Path(N, B)'
    BY <1>1, <1>3, PathFrame DEF Ground
  <2>3. Ground(N, B)'
    BY <1>3, <1>4, <2>1, <2>2 DEF Ground
  <2> QED BY <1>1, <2>3, Idle
<1> QED BY <1>5, <1>6

LEMMA RouteTold == ASSUME KeylessInv, Route PROVE Told'
<1>1. /\ pc = "size" /\ pc' \in {"recount", "summary"} /\ UNCHANGED <<mode, tab, writes, snap, base, size>>
      /\ exact' = IF mode.filtered THEN size ELSE exact
  BY DEF Route, SizesKnown, view, env
<1>2. PICK N, B : Ground(N, B)
  BY <1>1 DEF KeylessInv, Told, Facts, Reading
<1>3. Counted(B)'
  BY <1>1, <1>2 DEF Ground, Counted
<1>4. Path(N, B)' /\ Slack' = Slack
  BY <1>1, <1>2, PathFrame, ViewFrame DEF Ground
<1>5. Ground(N, B)'
  BY <1>2, <1>3, <1>4 DEF Ground
<1> QED BY <1>1, <1>5, Idle

LEMMA RecountTold == ASSUME KeylessInv, NEW s \in Side, Recount(s) PROVE Told'
<1>1. /\ pc = "recount" /\ pc' = "recount" /\ UNCHANGED <<mode, tab, writes, snap, base, size>>
      /\ exact' = [exact EXCEPT ![s] = {Sized(View(s, s))}] /\ exact[s] = {}
  BY DEF Recount, view, env
<1>2. PICK N, B : Ground(N, B)
  BY <1>1 DEF KeylessInv, Told, Facts, Reading
<1>3. ~mode.filtered
  BY <1>1 DEF KeylessInv, Steady, Reading
<1>4. PICK A \in [Side -> Multiset] :
         Path(N, A)' /\ A[s] = View(s, s) /\ \A x \in Side \ {s} : A[x] = B[x]
  BY <1>1, <1>2, Recounting DEF Reading
<1>5. Counted(A)'
  BY <1>1, <1>2, <1>3, <1>4 DEF Ground, Counted, KeylessInv, KeylessType
<1>6. Slack' = Slack
  BY <1>1, ViewFrame
<1>7. Ground(N, A)'
  BY <1>2, <1>4, <1>5, <1>6 DEF Ground
<1> QED BY <1>1, <1>7, Idle

LEMMA Empty ==
  ASSUME NEW g
  PROVE  Part(g, {}) = [c \in Contents |-> 0] /\ Part(g, {}) \in Multiset
BY KeylessAssumption DEF Part, Multiset

LEMMA SmallBig ==
  Small \in Side /\ Big \in Side /\ Small # Big /\ Side = {Small, Big}
BY DEF Small, Big, Other, Side

LEMMA ReadSmallTold == ASSUME KeylessInv, AbandonLookup \/ ReadSmall PROVE Told'
<1>1. pc = "recount" /\ UNCHANGED <<mode, tab, writes, snap, base, size, exact, asked>>
  BY DEF AbandonLookup, ReadSmall, Recounted, view, env, sizes
<1>2. PICK N, B : Ground(N, B)
  BY <1>1 DEF KeylessInv, Told, Facts, Reading
<1>3. Ground(N, B)'
  BY <1>1, <1>2, GroundFrame
<1>4. CASE pc' = "summary"
  BY <1>3, <1>4, Idle
<1>5. CASE pc' # "summary"
  <2> DEFINE rows == View(Small, Small)
  <2>1. pc' = "lookup" /\ got' = [got EXCEPT ![Small] = {rows}, ![Big] = {Part(rows, {})}]
    BY <1>5 DEF AbandonLookup, ReadSmall
  <2>2. got = Both({}) /\ asked = {}
    BY <1>1 DEF KeylessInv, Steady
  <2>3. Small' = Small /\ Big' = Big
    BY <1>1 DEF Small, Big, Counts
  <2>4. got'[Small] = {rows} /\ got'[Big] = {Part(rows, {})}
    BY <2>1, <2>2, SmallBig DEF Both
  <2>5. NearBag(rows, Small, N)'
    <3>1. rows \in Multiset /\ \A c \in Contents : Dist(rows[c], Start(Small, Small)[c]) <= N[Small][c]
      BY <1>1, <1>2, ViewNear, SmallBig DEF KeylessInv, Ground, Reading
    <3>2. \A s, t : Start(s, t)' = Start(s, t)
      BY <1>1, StartFrame
    <3>3. View(Small, Small)' = View(Small, Small)
      BY <1>1, <2>3 DEF View
    <3> HIDE DEF rows
    <3>4. rows' = rows
      BY <3>3 DEF rows
    <3> QED BY <2>3, <3>1, <3>2, <3>4 DEF NearBag
  <2>6. PICK v : v = rows
    OBVIOUS
  <2>7. NearBag(v, Small, N)'
    <3>1. rows' = rows
      BY <1>1, <2>3 DEF View
    <3> HIDE DEF rows
    <3> QED BY <2>5, <2>6, <3>1
  <2>8. LookupFact(N, B)'
    <3>1. \E g : got'[Small'] = {g} /\ NearBag(g, Small, N)'
      BY <2>3, <2>4, <2>6, <2>7
    <3>2. PICK z \in Multiset : z = Part(rows, {}) /\ \A c \in Contents : z[c] = 0
      BY Empty
    <3>3. got'[Big'] = {z} /\ asked' = {}
      BY <1>1, <2>2, <2>3, <2>4, <3>2
    <3> QED BY <3>1, <3>2, <3>3 DEF LookupFact
  <2> QED BY <1>3, <2>1, <2>8 DEF Told, Facts
<1> QED BY <1>4, <1>5

LEMMA CountTold == ASSUME KeylessInv, NEW d \in Contents, CountContent(d) PROVE Told'
<1>1. /\ pc = "lookup" /\ pc' = "lookup" /\ UNCHANGED <<mode, tab, writes, snap, base, size, exact>>
      /\ asked' = asked \cup {d} /\ d \notin asked
      /\ got' = [got EXCEPT ![Big] = {[Only(got[Big]) EXCEPT ![d] = View(Big, Big)[d]]}]
  BY DEF CountContent, view, env, sizes
<1>2. PICK N, B : Ground(N, B) /\ LookupFact(N, B)
  BY <1>1 DEF KeylessInv, Told, Facts, Reading
<1>3. Ground(N, B)'
  BY <1>1, <1>2, GroundFrame
<1>4. Small' = Small /\ Big' = Big
  BY <1>1 DEF Small, Big, Counts
<1>5. PICK g : got[Small] = {g} /\ NearBag(g, Small, N)
  BY <1>2 DEF LookupFact
<1>6. PICK h \in Multiset : got[Big] = {h} /\ \A c \in Contents :
       IF c \in asked THEN Dist(B[Big][c], Start(Big, Big)[c]) + Dist(h[c], B[Big][c]) <= N[Big][c]
                      ELSE h[c] = 0
  BY <1>2 DEF LookupFact
<1>7. Only(got[Big]) = h
  BY <1>6, OnlyOne
<1>8. PICK v : v = View(Big, Big)
  OBVIOUS
<1>9. v \in Multiset
  BY <1>8, ViewBag, SmallBig DEF KeylessInv
<1> DEFINE k == [h EXCEPT ![d] = v[d]]
<1>10. k \in Multiset /\ k[d] = v[d] /\ \A c \in Contents \ {d} : k[c] = h[c]
  BY <1>9 DEF Multiset
<1>11. \E s \in Side : Small = s /\ \E t \in Side : Big = t /\ s # t
  BY SmallBig
<1>12. got'[Big] = {k} /\ got'[Small] = got[Small]
  BY <1>1, <1>7, <1>8, <1>11 DEF KeylessInv, KeylessType
<1> HIDE DEF k
<1>13. \A s, t : Start(s, t)' = Start(s, t)
  BY <1>1, StartFrame
<1>14. NearBag(g, Small, N)'
  BY <1>4, <1>5, <1>13 DEF NearBag
<1>15. \A c \in Contents :
       IF c \in asked' THEN Dist(B[Big][c], Start(Big, Big)[c]) + Dist(k[c], B[Big][c]) <= N[Big][c]
                       ELSE k[c] = 0
  <2>1. Dist(B[Big][d], Start(Big, Big)[d]) + Dist(v[d], B[Big][d]) <= N[Big][d]
    BY <1>2, <1>8, SmallBig DEF Ground, Path
  <2> QED BY <1>1, <1>6, <1>10, <2>1
<1>16. LookupFact(N, B)'
  BY <1>4, <1>5, <1>10, <1>12, <1>13, <1>14, <1>15 DEF LookupFact
<1> QED BY <1>1, <1>3, <1>16 DEF Told, Facts

(* Of copies paired off the lesser count is taken from both sides.         *)
Lesser(x, y) == IF x <= y THEN x ELSE y

(* What a count of surplus copies is off by, content by content.           *)
LEMMA SurplusNear ==
  ASSUME NEW g \in Nat, NEW h \in Nat, NEW b \in Nat, NEW x \in Nat, NEW y \in Nat, NEW m \in Nat, NEW n \in Nat,
         Dist(g, x) <= m, Dist(b, y) + Dist(h, b) <= n \/ (g = 0 /\ h = 0 /\ Dist(b, y) <= n)
  PROVE  /\ Dist(g - Lesser(g, h), IF x > y THEN x - y ELSE 0) <= m + n
         /\ Dist(b - Lesser(g, h), IF y > x THEN y - x ELSE 0) <= m + n
<1>1. CASE Dist(b, y) + Dist(h, b) <= n
  <2>1. CASE g <= h
    <3>1. Lesser(g, h) = g /\ g - g = 0
      BY <2>1 DEF Lesser
    <3>2. Dist(0, IF x > y THEN x - y ELSE 0) <= m + n
      BY <1>1, <2>1 DEF Dist
    <3>3. Dist(b - g, IF y > x THEN y - x ELSE 0) <= m + n
      BY <1>1, <2>1 DEF Dist
    <3> QED BY <3>1, <3>2, <3>3
  <2>2. CASE ~(g <= h)
    <3>1. Lesser(g, h) = h
      BY <2>2 DEF Lesser
    <3>2. Dist(g - h, IF x > y THEN x - y ELSE 0) <= m + n
      BY <1>1, <2>2 DEF Dist
    <3>3. Dist(b - h, IF y > x THEN y - x ELSE 0) <= m + n
      BY <1>1, <2>2 DEF Dist
    <3> QED BY <3>1, <3>2, <3>3
  <2> QED BY <2>1, <2>2
<1>2. CASE g = 0 /\ h = 0 /\ Dist(b, y) <= n
  BY <1>2 DEF Dist, Lesser
<1> QED BY <1>1, <1>2

LEMMA PairsIs ==
  ASSUME NEW g \in Multiset, NEW h \in Multiset, got[Small] = {g}, got[Big] = {h},
         NEW w, w = [c \in Contents |-> Lesser(g[c], h[c])]
  PROVE  Pairs = Total(w, Contents)
<1> DEFINE S == InSmall
           Of(f) == f = [s \in SUBSET S |-> IF s = {} THEN 0 ELSE Paired(Pick(s)) + f[s \ {Pick(s)}]]
<1>1. \A c \in Contents : g[c] \in Nat /\ h[c] \in Nat
  BY BagNat
<1>2. Only(got[Small]) = g /\ Only(got[Big]) = h
  BY OnlyOne
<1>3. S = {c \in Contents : g[c] > 0}
  BY <1>2 DEF InSmall
<1>4. S \in SUBSET Contents /\ IsFiniteSet(Contents) /\ IsFiniteSet(S)
  BY <1>3, KeylessAssumption, FS_Subset
<1>5. \A c \in Contents : w[c] \in Int /\ w[c] = Paired(c) /\ (c \notin S => w[c] = 0)
  <2> SUFFICES ASSUME NEW c \in Contents
               PROVE  w[c] \in Int /\ w[c] = Paired(c) /\ (c \notin S => w[c] = 0)
    OBVIOUS
  <2>1. g[c] \in Nat /\ h[c] \in Nat /\ w[c] = Lesser(g[c], h[c])
    BY <1>1
  <2>2. Paired(c) = Min({g[c], h[c]})
    BY <1>2 DEF Paired
  <2>3. Min({g[c], h[c]}) = Lesser(g[c], h[c])
    BY <2>1, MinOfTwo DEF Lesser
  <2>4. c \notin S => g[c] = 0
    BY <1>3, <2>1
  <2> QED BY <2>1, <2>2, <2>3, <2>4 DEF Lesser
<1>d. Pairs = MapThenSumSet(Paired, S)
  BY DEF Pairs
<1> HIDE DEF S
<1>6. ASSUME NEW f PROVE Of(f) <=> Sums(f, w, S)
  <2>1. \A s \in SUBSET S : s # {} => w[Pick(s)] = Paired(Pick(s))
    BY <1>4, <1>5, PickIn
  <2>2. [s \in SUBSET S |-> IF s = {} THEN 0 ELSE Paired(Pick(s)) + f[s \ {Pick(s)}]]
          = [s \in SUBSET S |-> IF s = {} THEN 0 ELSE w[Pick(s)] + f[s \ {Pick(s)}]]
    BY <2>1
  <2> QED BY <2>2 DEF Sums
<1>7. \A c \in S : w[c] \in Int
  BY <1>4, <1>5
<1>8. PICK f : Sums(f, w, S)
  BY <1>4, <1>7, SumsExist
<1>9. \E k : Of(k)
  BY <1>6, <1>8
<1>10. \E k : Of(k) /\ MapThenSumSet(Paired, S) = k[S]
  BY <1>9 DEF MapThenSumSet, MapThenFoldSet, Pick
<1>11. PICK k : Sums(k, w, S) /\ MapThenSumSet(Paired, S) = k[S]
  BY <1>6, <1>10
<1>12. Total(w, S) = k[S]
  <2>1. S \in SUBSET S
    OBVIOUS
  <2> QED BY <1>4, <1>7, <1>11, <2>1, TotalIs
<1>13. Total(w, Contents) = Total(w, S)
  BY <1>4, <1>5, TotalSub
<1> QED BY <1>d, <1>11, <1>12, <1>13

(* What is counted of g less w, as long as that is near the truth v.       *)
LEMMA LessNear ==
  ASSUME NEW N \in Counters, Cost(N) <= Slack, KeylessType, NEW g \in Multiset, NEW w, NEW v,
         \A c \in Contents : /\ w[c] \in Int /\ v[c] \in Nat
                             /\ Dist(g[c] - w[c], v[c]) <= N["left"][c] + N["right"][c]
  PROVE  /\ Near(Sized(g) - Total(w, Contents), Total(v, Contents), Slack)
         /\ Near(Max({0, Sized(g) - Total(w, Contents)}), Total(v, Contents), Slack)
<1> DEFINE u == [c \in Contents |-> g[c] - w[c]]
<1>1. \A c \in Contents : /\ u[c] \in Int /\ w[c] \in Int /\ g[c] \in Int /\ v[c] \in Int /\ v[c] \in Nat
                          /\ g[c] = u[c] + w[c]
                          /\ Dist(u[c], v[c]) <= N["left"][c] + N["right"][c]
  BY BagNat
<1>f. IsFiniteSet(Contents)
  BY KeylessAssumption
<1> HIDE DEF u
<1>2. Total(g, Contents) = Total(u, Contents) + Total(w, Contents)
  BY <1>1, <1>f, TotalAdd
<1>3. Sized(g) = Total(g, Contents)
  BY SizedNat
<1>4. /\ Total(u, Contents) \in Int /\ Total(v, Contents) \in Int
      /\ Total(u, Contents) <= Total(v, Contents) + Cost(N)
      /\ Total(v, Contents) <= Total(u, Contents) + Cost(N)
  BY <1>1, TotalNear
<1>5. Total(v, Contents) \in Nat /\ Total(w, Contents) \in Int
  BY <1>1, <1>f, TotalNat, TotalInt
<1>6. Cost(N) \in Nat /\ Slack \in Nat
  BY CostAdds DEF Slack, KeylessType
<1> DEFINE a == Total(u, Contents)
           b == Total(v, Contents)
           d == Total(w, Contents)
           e == Sized(g)
           k == Cost(N)
<1>7. a \in Int /\ b \in Nat /\ d \in Int /\ k \in Nat /\ e = a + d /\ a <= b + k /\ b <= a + k /\ k <= Slack
  BY <1>2, <1>3, <1>4, <1>5, <1>6
<1>8. Near(e - d, b, Slack) /\ Near(Max({0, e - d}), b, Slack)
  <2> HIDE DEF a, b, d, e, k
  <2>1. e - d = a /\ Slack \in Nat
    BY <1>6, <1>7
  <2>2. Max({0, a}) = IF 0 <= a THEN a ELSE 0
    BY <1>7, MaxOfTwo
  <2> QED BY <1>7, <2>1, <2>2 DEF Near
<1> QED BY <1>8

LEMMA LookedUpAnswers == ASSUME KeylessInv, LookedUp PROVE Answered'
<1>1. pc = "lookup" /\ InSmall = asked
  BY DEF LookedUp
<1>2. PICK N, B : Ground(N, B) /\ LookupFact(N, B)
  BY <1>1 DEF KeylessInv, Told, Facts, Reading
<1>3. PICK g : got[Small] = {g} /\ NearBag(g, Small, N)
  BY <1>2 DEF LookupFact
<1>4. PICK h \in Multiset : got[Big] = {h} /\ \A c \in Contents :
       IF c \in asked THEN Dist(B[Big][c], Start(Big, Big)[c]) + Dist(h[c], B[Big][c]) <= N[Big][c]
                      ELSE h[c] = 0
  BY <1>2 DEF LookupFact
<1>5. g \in Multiset /\ B[Big] \in Multiset /\ N \in Counters /\ Cost(N) <= Slack
  BY <1>2, <1>3, SmallBig DEF NearBag, Ground
<1>6. Only(got[Small]) = g
  BY <1>3, OnlyOne
<1>7. Counts[Big] = Sized(B[Big])
  <2>1. exact[Big] # {} /\ exact[Big] \subseteq {Sized(B[Big])}
    BY <1>1, <1>2, SmallBig DEF KeylessInv, Steady, Ground, Counted
  <2>2. exact[Big] = {Sized(B[Big])}
    BY <2>1
  <2> QED BY <2>2, OnlyOne, SmallBig DEF Counts
<1> DEFINE w == [c \in Contents |-> Lesser(g[c], h[c])]
           x == Start(Small, Small)
           y == Start(Big, Big)
<1>8. Pairs = Total(w, Contents)
  BY <1>3, <1>4, <1>5, PairsIs
<1>9. x \in Multiset /\ y \in Multiset
  BY StartBag, SmallBig DEF KeylessInv
<1>10. \A c \in Contents : /\ w[c] = Lesser(g[c], h[c]) /\ w[c] \in Int
                           /\ Excess(x, y)[c] = IF x[c] > y[c] THEN x[c] - y[c] ELSE 0
                           /\ Excess(y, x)[c] = IF y[c] > x[c] THEN y[c] - x[c] ELSE 0
                           /\ Excess(x, y)[c] \in Nat /\ Excess(y, x)[c] \in Nat
  <2> SUFFICES ASSUME NEW c \in Contents
               PROVE  /\ w[c] = Lesser(g[c], h[c]) /\ w[c] \in Int
                      /\ Excess(x, y)[c] = IF x[c] > y[c] THEN x[c] - y[c] ELSE 0
                      /\ Excess(y, x)[c] = IF y[c] > x[c] THEN y[c] - x[c] ELSE 0
                      /\ Excess(x, y)[c] \in Nat /\ Excess(y, x)[c] \in Nat
    OBVIOUS
  <2>1. g[c] \in Nat /\ h[c] \in Nat /\ x[c] \in Nat /\ y[c] \in Nat
    BY <1>4, <1>5, <1>9, BagNat
  <2> HIDE DEF x, y
  <2> QED BY <2>1 DEF Excess, Lesser
<1>11. ASSUME NEW c \in Contents
       PROVE  /\ Dist(g[c] - w[c], Excess(x, y)[c]) <= N["left"][c] + N["right"][c]
              /\ Dist(B[Big][c] - w[c], Excess(y, x)[c]) <= N["left"][c] + N["right"][c]
  <2> DEFINE m == N[Small][c]
             n == N[Big][c]
             b == B[Big][c]
  <2>1. g[c] \in Nat /\ h[c] \in Nat /\ x[c] \in Nat /\ y[c] \in Nat /\ b \in Nat
    BY <1>4, <1>5, <1>9, BagNat
  <2>2. m \in Nat /\ n \in Nat /\ N["left"][c] + N["right"][c] = m + n
    BY <1>5, SmallBig DEF Counters, Side
  <2>3. Dist(g[c], x[c]) <= m
    BY <1>3 DEF NearBag
  <2>4. Dist(b, y[c]) + Dist(h[c], b) <= n \/ (g[c] = 0 /\ h[c] = 0 /\ Dist(b, y[c]) <= n)
    <3>1. CASE c \in asked
      BY <1>4, <3>1
    <3>2. CASE c \notin asked
      <4>1. h[c] = 0
        BY <1>4, <3>2
      <4>2. g[c] = 0
        BY <1>1, <1>6, <2>1, <3>2 DEF InSmall
      <4>3. Dist(b, y[c]) + Dist(View(Big, Big)[c], b) <= n
        BY <1>2, SmallBig DEF Ground, Path
      <4>4. View(Big, Big) \in Multiset
        BY ViewBag, SmallBig DEF KeylessInv
      <4>5. View(Big, Big)[c] \in Int
        BY <4>4, BagNat
      <4>6. Dist(b, y[c]) \in Nat /\ Dist(View(Big, Big)[c], b) \in Nat
        <5> HIDE DEF b
        <5>1. b \in Int /\ y[c] \in Int
          BY <2>1
        <5> QED BY <4>5, <5>1, DistIs
      <4>7. Dist(b, y[c]) <= n
        BY <2>2, <4>3, <4>6
      <4> QED BY <4>1, <4>2, <4>7
    <3> QED BY <3>1, <3>2
  <2> HIDE DEF m, n, b, w, x, y
  <2>5. /\ Dist(g[c] - Lesser(g[c], h[c]), IF x[c] > y[c] THEN x[c] - y[c] ELSE 0) <= m + n
        /\ Dist(b - Lesser(g[c], h[c]), IF y[c] > x[c] THEN y[c] - x[c] ELSE 0) <= m + n
    BY <2>1, <2>2, <2>3, <2>4, SurplusNear
  <2>6. /\ Dist(g[c] - w[c], Excess(x, y)[c]) <= m + n
        /\ Dist(b - w[c], Excess(y, x)[c]) <= m + n
    BY <1>10, <2>5
  <2> QED BY <2>2, <2>6 DEF b
<1>12. /\ Near(Sized(g) - Pairs, Total(Excess(x, y), Contents), Slack)
       /\ Near(Max({0, Counts[Big] - Pairs}), Total(Excess(y, x), Contents), Slack)
  <2>1. KeylessType
    BY DEF KeylessInv
  <2> HIDE DEF w, x, y
  <2>2. Near(Sized(g) - Total(w, Contents), Total(Excess(x, y), Contents), Slack)
    BY <1>5, <1>10, <1>11, <2>1, LessNear
  <2>3. Near(Max({0, Sized(B[Big]) - Total(w, Contents)}), Total(Excess(y, x), Contents), Slack)
    BY <1>5, <1>10, <1>11, <2>1, LessNear
  <2> QED BY <1>7, <1>8, <2>2, <2>3
<1> DEFINE counts == [s \in Side |-> IF s = Big THEN Sized(Only(got[Small])) - Pairs
                            ELSE Max({0, Counts[Big] - Pairs})]
<1>13. ASSUME NEW s \in Side
       PROVE  Near(counts[s], LackingOf("copies", s, Start("left", "left"), Start("right", "right")), Slack)
  <2>1. CASE s = Big
    <3>1. LackingOf("copies", s, Start("left", "left"), Start("right", "right")) = Total(Excess(x, y), Contents)
      BY <2>1, SmallBig DEF LackingOf, Side
    <3> QED BY <1>6, <1>12, <2>1, <3>1
  <2>2. CASE s # Big
    <3>1. LackingOf("copies", s, Start("left", "left"), Start("right", "right")) = Total(Excess(y, x), Contents)
      BY <2>2, SmallBig DEF LackingOf, Side
    <3> QED BY <1>12, <2>2, <3>1
  <2> QED BY <2>1, <2>2
<1>14. Report(counts, "copies", Counts)
  BY DEF LookedUp
<1> HIDE DEF counts
<1>15. KeylessType /\ "right" \in Side
  BY DEF KeylessInv, Side
<1> QED BY <1>13, <1>14, <1>15, Reporting

LEMMA JoinAnswers == ASSUME KeylessInv, SummaryJoin PROVE Answered'
<1> DEFINE l == View("left", "left")
           r == View("left", "right")
<1>1. pc = "summary"
  BY DEF SummaryJoin
<1>2. PICK N, B : Ground(N, B)
  BY <1>1 DEF KeylessInv, Told, Facts, Reading
<1>3. KeylessType /\ Steady /\ pc \in Reading /\ "left" \in Side /\ "right" \in Side
  BY <1>1 DEF KeylessInv, Reading, Side
<1>4. N \in Counters /\ B \in [Side -> Multiset] /\ Cost(N) <= Slack /\ Path(N, B)
  BY <1>2 DEF Ground
<1>5. /\ l \in Multiset /\ \A c \in Contents : Dist(l[c], Start("left", "left")[c]) <= N["left"][c]
      /\ r \in Multiset /\ \A c \in Contents : Dist(r[c], Start("left", "right")[c]) <= N["right"][c]
  BY <1>3, <1>4, ViewNear
<1> DEFINE counts == [s \in Side |-> Cardinality(IF s = "left" THEN Surplus(r, l) ELSE Surplus(l, r))]
<1>6. Report(counts, "contents", Sizes)
  BY DEF SummaryJoin
<1> HIDE DEF l, r
<1>7. \A c \in Contents : Quiet(N, c) => l[c] = Start("left", "left")[c] /\ r[c] = Start("left", "right")[c]
  BY <1>3, <1>4, <1>5, QuietTrue DEF Quiet
<1>8. ASSUME NEW s \in Side
      PROVE  Near(counts[s], LackingOf("contents", s, Start("left", "left"), Start("left", "right")), Slack)
  <2>1. counts[s] = Cardinality(Gap(s, l, r))
    BY DEF Gap, Surplus
  <2> HIDE DEF counts
  <2> QED BY <1>3, <1>4, <1>5, <1>7, <2>1, ContentsNear
<1> HIDE DEF counts
<1> QED BY <1>3, <1>6, <1>8, Reporting

LEMMA SkipTold == ASSUME KeylessInv, SkipSummary \/ Undecoded PROVE Told'
<1>1. /\ pc \in {"summary", "iblt"} /\ pc' \in {"iblt", "probe"} /\ got' = Both({})
      /\ UNCHANGED <<mode, tab, writes, snap, base, size, exact>>
  BY DEF SkipSummary, Undecoded, env, view, sizes
<1>2. PICK N, B : Ground(N, B)
  BY <1>1 DEF KeylessInv, Told, Facts, Reading
<1>3. Ground(N, B)'
  BY <1>1, <1>2, GroundFrame
<1>4. IbltFact(N)' /\ ProbeFact(N)'
  BY <1>1 DEF IbltFact, ProbeFact, Both
<1> QED BY <1>1, <1>3, <1>4 DEF Told, Facts

LEMMA NearFrame ==
  ASSUME UNCHANGED base, NEW g, NEW s, NEW N
  PROVE  NearBag(g, s, N)' <=> NearBag(g, s, N)
BY StartFrame DEF NearBag

LEMMA ViewNearBag ==
  ASSUME KeylessInv, pc \in Reading, NEW N, NEW B, Ground(N, B), NEW s \in Side
  PROVE  NearBag(View(s, s), s, N)
BY ViewNear DEF KeylessInv, Ground, NearBag

LEMMA SummarizeTold == ASSUME KeylessInv, NEW s \in Side, Summarize(s) PROVE Told'
<1>1. /\ pc = "iblt" /\ pc' = "iblt" /\ got' = [got EXCEPT ![s] = {View(s, s)}]
      /\ UNCHANGED <<mode, tab, writes, snap, base, size, exact>>
  BY DEF Summarize, env, view, sizes
<1>2. PICK N, B : Ground(N, B) /\ IbltFact(N)
  BY <1>1 DEF KeylessInv, Told, Facts, Reading
<1>3. Ground(N, B)'
  BY <1>1, <1>2, GroundFrame
<1>4. PICK v : v = View(s, s)
  OBVIOUS
<1>5. NearBag(v, s, N)
  BY <1>1, <1>2, <1>4, ViewNearBag DEF Reading
<1>6. /\ got'[s] = {v}
      /\ \A t \in Side \ {s} : got'[t] = got[t]
  BY <1>1, <1>4 DEF KeylessInv, KeylessType
<1>7. \A g, t : NearBag(g, t, N)' <=> NearBag(g, t, N)
  BY <1>1, NearFrame
<1>8. IbltFact(N)'
  BY <1>2, <1>5, <1>6, <1>7 DEF IbltFact
<1> QED BY <1>1, <1>3, <1>8 DEF Told, Facts

LEMMA DecodeAnswers == ASSUME KeylessInv, Decode PROVE Answered'
<1>1. pc = "iblt" /\ \A s \in Side : got[s] # {}
  BY DEF Decode
<1>2. PICK N, B : Ground(N, B) /\ IbltFact(N)
  BY <1>1 DEF KeylessInv, Told, Facts, Reading
<1>3. KeylessType /\ "left" \in Side /\ "right" \in Side
  BY DEF KeylessInv, Side
<1>4. PICK l : got["left"] = {l} /\ NearBag(l, "left", N)
  BY <1>1, <1>2, <1>3 DEF IbltFact
<1>5. PICK r : got["right"] = {r} /\ NearBag(r, "right", N)
  BY <1>1, <1>2, <1>3 DEF IbltFact
<1>6. N \in Counters /\ Cost(N) <= Slack /\ l \in Multiset /\ r \in Multiset
  BY <1>2, <1>4, <1>5 DEF Ground, NearBag
<1> DEFINE counts == [s \in Side |-> Cardinality(IF s = "left" THEN More(r, l) ELSE More(l, r))]
<1>7. Report(counts, "contents", [s \in Side |-> Sized(Only(got[s]))])
  <2>1. Only(got["left"]) = l /\ Only(got["right"]) = r
    BY <1>4, <1>5, OnlyOne
  <2> QED BY <2>1 DEF Decode
<1>8. \A c \in Contents : Quiet(N, c) => l[c] = Start("left", "left")[c] /\ r[c] = Start("right", "right")[c]
  BY <1>3, <1>4, <1>5, <1>6, QuietTrue DEF Quiet, NearBag
<1>9. ASSUME NEW s \in Side
      PROVE  Near(counts[s], LackingOf("contents", s, Start("left", "left"), Start("right", "right")), Slack)
  <2>1. counts[s] = Cardinality(Gap(s, l, r))
    BY DEF Gap
  <2> HIDE DEF counts
  <2> QED BY <1>3, <1>6, <1>8, <2>1, ContentsNear
<1> HIDE DEF counts
<1> QED BY <1>3, <1>7, <1>9, Reporting

LEMMA ProbeTold == ASSUME KeylessInv, NEW s \in Side, Probe(s) PROVE Told'
<1>1. /\ pc = "probe" /\ pc' = "probe" /\ got' = [got EXCEPT ![s] = {KeysIn(View(s, s))}]
      /\ UNCHANGED <<mode, tab, writes, snap, base, size, exact>>
  BY DEF Probe, env, view, sizes
<1>2. PICK N, B : Ground(N, B) /\ ProbeFact(N)
  BY <1>1 DEF KeylessInv, Told, Facts, Reading
<1>3. Ground(N, B)'
  BY <1>1, <1>2, GroundFrame
<1>4. PICK v : v = View(s, s)
  OBVIOUS
<1>5. NearBag(v, s, N)
  BY <1>1, <1>2, <1>4, ViewNearBag DEF Reading
<1>6. /\ got'[s] = {KeysIn(v)}
      /\ \A t \in Side \ {s} : got'[t] = got[t]
  BY <1>1, <1>4 DEF KeylessInv, KeylessType
<1>7. \A g, t : NearBag(g, t, N)' <=> NearBag(g, t, N)
  BY <1>1, NearFrame
<1>8. ProbeFact(N)'
  BY <1>2, <1>5, <1>6, <1>7 DEF ProbeFact
<1> QED BY <1>1, <1>3, <1>8 DEF Told, Facts

LEMMA KeysFinite ==
  ASSUME NEW g
  PROVE  IsFiniteSet(KeysIn(g)) /\ KeysIn(g) \subseteq Int \cup {Null}
<1> DEFINE P == Present(g)
           f == [c \in P |-> Key[c]]
<1>1. P \in SUBSET Contents /\ IsFiniteSet(P)
  BY KeylessAssumption, FS_Subset DEF Present
<1>2. KeysIn(g) = {Key[c] : c \in P}
  BY DEF KeysIn
<1> HIDE DEF P
<1>3. f \in Surjection(P, KeysIn(g))
  BY <1>2 DEF Surjection
<1>4. IsFiniteSet(KeysIn(g))
  BY <1>1, <1>3, FS_Surjection
<1> QED BY <1>1, <1>2, <1>4, KeylessAssumption

(* A plan that spans the keys ks.                                          *)
Spans(p, ks) ==
  \E lo \in Int, hi \in Int, n \in Nat \ {0} :
    lo <= hi /\ p = {Sliced(lo, hi, n)} /\ \A k \in ks : k \in lo .. hi

(* A plan made of the keys of both sides.                                  *)
LEMMA PlanTrue ==
  ASSUME KeylessType, \A s \in Side : size[s] # {}, NEW l, NEW r, IsFiniteSet(l), IsFiniteSet(r),
         l \subseteq Int \cup {Null}, r \subseteq Int \cup {Null}, Usable(l), Usable(r)
  PROVE  Spans(PlanOf(Domain(l, r)), l \cup r)
<1> DEFINE U == l \cup r
           lo == Min(U)
           hi == Max(U)
<1>1. U \in SUBSET Int /\ U # {} /\ IsFiniteSet(U)
  BY FS_Union DEF Usable
<1>d. Domain(l, r) = [lo |-> lo, hi |-> hi]
  BY DEF Domain
<1> HIDE DEF U
<1>2. lo \in U /\ \A y \in U : lo <= y
  BY <1>1, MinFinite
<1>3. hi \in U /\ \A y \in U : y <= hi
  BY <1>1, MaxFinite
<1> HIDE DEF lo, hi
<1>4. lo \in Int /\ hi \in Int /\ lo <= hi /\ \A k \in U : k \in lo .. hi
  BY <1>1, <1>2, <1>3
<1> DEFINE n == Min({Buckets, hi - lo + 1})
<1>5. n \in Nat \ {0}
  <2>1. Buckets \in Nat \ {0} /\ hi - lo + 1 \in Nat \ {0}
    BY <1>4, BucketsPositive
  <2> QED BY <2>1, MinOfTwo
<1>6. PlanOf(Domain(l, r)) = {Sliced(lo, hi, n)}
  <2> DEFINE d == Domain(l, r)
  <2>1. d.lo = lo /\ d.hi = hi
    BY <1>d
  <2> HIDE DEF d
  <2> QED BY <1>4, <2>1 DEF PlanOf, Sliced, d
<1> HIDE DEF n
<1> QED BY <1>4, <1>5, <1>6 DEF U, Spans

(* The first bucket of a plan.                                             *)
LEMMA Planning ==
  ASSUME NEW p, Planned(p), p = {} \/ \E lo \in Int, hi \in Int, n \in Nat \ {0} : lo <= hi /\ p = {Sliced(lo, hi, n)}
  PROVE  /\ PlanOk' /\ plan' = p /\ pc' = "sums"
         /\ UNCHANGED <<mode, tab, writes, snap, base, size, exact>>
         /\ \A N : SumsFact(N)'
<1>1. /\ plan' = p /\ bucket' = 0 /\ differ' = {} /\ got' = Both({}) /\ pc' = "sums"
      /\ UNCHANGED <<mode, tab, writes, snap, base, size, exact>>
  BY DEF Planned, env, view, sizes
<1>2. PlanOk'
  BY <1>1 DEF PlanOk
<1>3. plan' # {} => bucket' < NumberOf'
  <2> SUFFICES ASSUME p # {} PROVE 0 < NumberOf'
    BY <1>1
  <2>1. PICK lo \in Int, hi \in Int, n \in Nat \ {0} : p = {Sliced(lo, hi, n)}
    OBVIOUS
  <2>2. Only(p) = Sliced(lo, hi, n)
    BY <2>1, OnlyOne
  <2>3. Only(p).n = n
    BY <2>2 DEF Sliced
  <2>4. NumberOf' = n
    BY <1>1, <2>3 DEF NumberOf
  <2> QED BY <2>4
<1>4. Behind' = {}
  BY <1>1 DEF Behind
<1>5. ASSUME NEW N PROVE SumsFact(N)'
  BY <1>1, <1>3, <1>4 DEF SumsFact, Both, Placed
<1> QED BY <1>1, <1>2, <1>5

LEMMA PlannedTold == ASSUME KeylessInv, NoRange \/ Probed PROVE Told'
<1>1. pc = "probe"
  BY DEF NoRange, Probed
<1>2. PICK N, B : Ground(N, B) /\ ProbeFact(N)
  BY <1>1 DEF KeylessInv, Told, Facts, Reading
<1>3. CASE NoRange
  <2>1. Planned({})
    BY <1>3 DEF NoRange
  <2>2. /\ PlanOk' /\ plan' = {} /\ pc' = "sums" /\ SumsFact(N)'
        /\ UNCHANGED <<mode, tab, writes, snap, base, size, exact>>
    BY <2>1, Planning
  <2>3. Ground(N, B)'
    BY <1>2, <2>2, GroundFrame
  <2>4. RangeFact(N)'
    BY <2>2 DEF RangeFact
  <2> QED BY <2>2, <2>3, <2>4 DEF Told, Facts
<1>4. CASE Probed
  <2>1. KeylessType /\ "left" \in Side /\ "right" \in Side /\ (\A s \in Side : got[s] # {})
        /\ \A s \in Side : size[s] # {}
    BY <1>1, <1>4 DEF KeylessInv, Probed, Side, Steady, Reading
  <2>2. PICK g : got["left"] = {KeysIn(g)} /\ NearBag(g, "left", N)
    BY <1>2, <2>1 DEF ProbeFact
  <2>3. PICK h : got["right"] = {KeysIn(h)} /\ NearBag(h, "right", N)
    BY <1>2, <2>1 DEF ProbeFact
  <2> DEFINE l == KeysIn(g)
             r == KeysIn(h)
  <2>4. Planned(IF Usable(l) /\ Usable(r) THEN PlanOf(Domain(l, r)) ELSE {})
    <3>1. Only(got["left"]) = l /\ Only(got["right"]) = r
      BY <2>2, <2>3, OnlyOne
    <3> QED BY <1>4, <3>1 DEF Probed
  <2>5. CASE ~(Usable(l) /\ Usable(r))
    <3>1. Planned({})
      BY <2>4, <2>5
    <3>2. /\ PlanOk' /\ plan' = {} /\ pc' = "sums" /\ SumsFact(N)'
          /\ UNCHANGED <<mode, tab, writes, snap, base, size, exact>>
      BY <3>1, Planning
    <3>3. Ground(N, B)'
      BY <1>2, <3>2, GroundFrame
    <3>4. RangeFact(N)'
      BY <3>2 DEF RangeFact
    <3> QED BY <3>2, <3>3, <3>4 DEF Told, Facts
  <2>6. CASE Usable(l) /\ Usable(r)
    <3>1. /\ IsFiniteSet(l) /\ IsFiniteSet(r)
          /\ l \subseteq Int \cup {Null} /\ r \subseteq Int \cup {Null}
      BY KeysFinite
    <3>s. Spans(PlanOf(Domain(l, r)), l \cup r)
      <4> HIDE DEF l, r
      <4> QED BY <2>1, <2>6, <3>1, PlanTrue
    <3>2. PICK lo \in Int, hi \in Int, n \in Nat \ {0} :
            lo <= hi /\ PlanOf(Domain(l, r)) = {Sliced(lo, hi, n)} /\ \A k \in l \cup r : k \in lo .. hi
      BY <3>s DEF Spans
    <3> DEFINE p == {Sliced(lo, hi, n)}
    <3>3. Planned(p)
      BY <2>4, <2>6, <3>2
    <3>4. /\ PlanOk' /\ plan' = p /\ pc' = "sums" /\ SumsFact(N)'
          /\ UNCHANGED <<mode, tab, writes, snap, base, size, exact>>
      <4>1. p = {} \/ \E a \in Int, b \in Int, m \in Nat \ {0} : a <= b /\ p = {Sliced(a, b, m)}
        BY <3>2
      <4> HIDE DEF p
      <4> QED BY <3>3, <4>1, Planning
    <3>5. Ground(N, B)'
      BY <1>2, <3>4, GroundFrame
    <3>6. Only(p).lo = lo /\ Only(p).hi = hi
      <4>1. Only(p) = Sliced(lo, hi, n)
        BY OnlyOne
      <4> QED BY <4>1 DEF Sliced
    <3>7. ASSUME NEW c \in Contents, Quiet(N, c), DifferAt(c) PROVE Key[c] \in lo .. hi
      <4>1. N \in Counters /\ g \in Multiset /\ h \in Multiset
        BY <1>2, <2>2, <2>3 DEF Ground, NearBag
      <4>2. g[c] = Start("left", "left")[c] /\ h[c] = Start("right", "right")[c]
        BY <2>1, <2>2, <2>3, <3>7, <4>1, QuietTrue DEF NearBag, Quiet
      <4>3. g[c] \in Nat /\ h[c] \in Nat /\ g[c] # h[c]
        BY <3>7, <4>1, <4>2, BagNat DEF DifferAt
      <4>4. g[c] > 0 \/ h[c] > 0
        BY <4>3
      <4>5. Key[c] \in l \cup r
        BY <4>4 DEF KeysIn, Present
      <4> QED BY <3>2, <4>5
    <3>8. \A c \in Contents : DifferAt(c)' <=> DifferAt(c)
      BY <3>4, StartFrame DEF DifferAt
    <3>9. RangeFact(N)'
      BY <3>4, <3>6, <3>7, <3>8 DEF RangeFact
    <3> QED BY <3>4, <3>5, <3>9 DEF Told, Facts
  <2> QED BY <2>5, <2>6
<1> QED BY <1>3, <1>4

LEMMA PlacedSame ==
  ASSUME UNCHANGED <<mode, plan, size, exact>>
  PROVE  \A c, bs : Placed(c, bs)' <=> Placed(c, bs)
BY PlacedFrame DEF Placed

LEMMA RangeFrame ==
  ASSUME UNCHANGED <<plan, base>>, NEW N, RangeFact(N)
  PROVE  RangeFact(N)'
<1>1. \A c : DifferAt(c)' <=> DifferAt(c)
  BY StartFrame DEF DifferAt
<1>2. PlanOk' <=> PlanOk
  BY DEF PlanOk
<1> QED BY <1>1, <1>2 DEF RangeFact

(* Reading some buckets is true of them, and shows nothing of the others.  *)
LEMMA PartTrue ==
  ASSUME KeylessInv, pc \in Reading, NEW N, NEW B, Ground(N, B), NEW s \in Side, NEW bs
  PROVE  /\ TrueOn(Part(View(s, s), Covered(bs)), s, N, bs)
         /\ \A c \in Contents : ~Placed(c, bs) => Part(View(s, s), Covered(bs))[c] = 0
<1> DEFINE v == View(s, s)
           p == Part(v, Covered(bs))
<1>1. v \in Multiset /\ \A c \in Contents : Dist(v[c], Start(s, s)[c]) <= N[s][c]
  BY ViewNear DEF KeylessInv, Ground
<1>2. N \in Counters /\ KeylessType
  BY DEF KeylessInv, Ground
<1> HIDE DEF v
<1>3. \A c \in Contents : p[c] = IF Placed(c, bs) THEN v[c] ELSE 0
  BY CoveredIs DEF Part
<1>4. p \in Multiset
  <2>1. 0 \in 0 .. MaxCopies
    BY KeylessAssumption
  <2> QED BY <1>1, <2>1 DEF Multiset, Part
<1> HIDE DEF p
<1>5. ASSUME NEW c \in Contents, Placed(c, bs), N[s][c] = 0 PROVE p[c] = Start(s, s)[c]
  <2>1. p[c] = v[c]
    BY <1>3, <1>5
  <2> QED BY <1>1, <1>2, <1>5, <2>1, QuietTrue
<1> QED BY <1>3, <1>4, <1>5 DEF TrueOn, p, v

LEMMA ChecksumTold == ASSUME KeylessInv, NEW s \in Side, Checksum(s) PROVE Told'
<1>1. /\ pc = "sums" /\ pc' = "sums" /\ got' = [got EXCEPT ![s] = {Part(View(s, s), Covered(Under))}]
      /\ UNCHANGED <<mode, tab, writes, snap, base, size, exact, plan, bucket, differ>>
  BY DEF Checksum, env, view, sizes, walk
<1>2. PICK N, B : Ground(N, B) /\ SumsFact(N) /\ RangeFact(N)
  BY <1>1 DEF KeylessInv, Told, Facts, Reading
<1>3. Ground(N, B)' /\ RangeFact(N)'
  BY <1>1, <1>2, GroundFrame, RangeFrame
<1>4. PICK v : v = Part(View(s, s), Covered(Under))
  OBVIOUS
<1>5. TrueOn(v, s, N, Under)
  BY <1>1, <1>2, <1>4, PartTrue DEF Reading
<1>6. /\ got'[s] = {v}
      /\ \A t \in Side \ {s} : got'[t] = got[t]
  BY <1>1, <1>4 DEF KeylessInv, KeylessType
<1>7. /\ Under' = Under /\ NumberOf' = NumberOf /\ Behind' = Behind
      /\ \A c, bs : Placed(c, bs)' <=> Placed(c, bs)
      /\ \A c : DifferAt(c)' <=> DifferAt(c)
      /\ \A t \in Side : Start(t, t)' = Start(t, t)
  <2>1. Buckets' = Buckets /\ NumberOf' = NumberOf
    BY <1>1, PlacedFrame
  <2> QED BY <1>1, <2>1, PlacedSame, StartFrame DEF Under, Behind, DifferAt
<1>8. \A g, t : t \in Side => (TrueOn(g, t, N, Under)' <=> TrueOn(g, t, N, Under))
  BY <1>7 DEF TrueOn
<1>9. \A t \in Side : got'[t] = {} \/ \E g : got'[t] = {g} /\ TrueOn(g, t, N, Under)'
  BY <1>2, <1>5, <1>6, <1>8 DEF SumsFact
<1>10. \A c, bs : Placed(c, bs)' <=> Placed(c, bs)
  BY <1>7
<1>11. \A c \in Contents : (Quiet(N, c) /\ DifferAt(c) /\ Placed(c, Behind) => Placed(c, differ))'
  <2>1. \A c \in Contents : Placed(c, Behind)' <=> Placed(c, Behind)
    BY <1>1, <1>7, PlacedFrame DEF Placed
  <2>2. \A c \in Contents : Placed(c, differ)' <=> Placed(c, differ)
    BY <1>1, PlacedFrame DEF Placed
  <2> QED BY <1>2, <1>7, <2>1, <2>2 DEF SumsFact
<1>12. SumsFact(N)'
  BY <1>1, <1>2, <1>7, <1>9, <1>11 DEF SumsFact
<1> QED BY <1>1, <1>3, <1>12 DEF Told, Facts

LEMMA NumberPositive ==
  ASSUME KeylessType, \A s \in Side : size[s] # {}, PlanOk
  PROVE  NumberOf \in Nat \ {0}
<1>1. CASE plan = {}
  BY <1>1, BucketsPositive DEF NumberOf
<1>2. CASE plan # {}
  <2>1. PICK lo \in Int, hi \in Int, n \in Nat \ {0} : lo <= hi /\ plan = {Sliced(lo, hi, n)}
    BY <1>2 DEF PlanOk
  <2>2. Only(plan).n = n
    BY <2>1, PlanIs
  <2> QED BY <1>2, <2>2 DEF NumberOf
<1> QED BY <1>1, <1>2

(* What the statements of one bucket have shown.                           *)
LEMMA DiffTrue ==
  ASSUME NEW l, NEW r, got["left"] = {l}, got["right"] = {r}, NEW N, TrueOn(l, "left", N, Under),
         TrueOn(r, "right", N, Under), NEW c \in Contents, Quiet(N, c), DifferAt(c), Placed(c, Under)
  PROVE  Placed(c, DiffBuckets)
<1>1. PICK b \in Under : InBucket(c, b)
  BY DEF Placed
<1>2. Only(got["left"]) = l /\ Only(got["right"]) = r
  BY OnlyOne
<1>3. l[c] # r[c]
  BY DEF TrueOn, Quiet, DifferAt
<1>4. c \in Covered({b})
  BY <1>1, CoveredIs DEF Placed
<1>5. Part(l, Covered({b}))[c] = l[c] /\ Part(r, Covered({b}))[c] = r[c]
  BY <1>4 DEF Part
<1>6. Part(l, Covered({b})) # Part(r, Covered({b}))
  BY <1>3, <1>5
<1>7. b \in DiffBuckets
  BY <1>2, <1>6 DEF DiffBuckets
<1> QED BY <1>1, <1>7 DEF Placed

LEMMA ComparedTold == ASSUME KeylessInv, Compared PROVE Told'
<1>1. /\ pc = "sums" /\ (\A s \in Side : got[s] # {}) /\ got' = Both({})
      /\ differ' = differ \cup DiffBuckets
      /\ IF Last THEN pc' = "pull" /\ bucket' = 0 ELSE bucket' = bucket + 1 /\ pc' = pc
      /\ UNCHANGED <<mode, tab, writes, snap, base, size, exact, plan, missing>>
  BY DEF Compared, env, view, sizes
<1>2. PICK N, B : Ground(N, B) /\ SumsFact(N) /\ RangeFact(N)
  BY <1>1 DEF KeylessInv, Told, Facts, Reading
<1>3. Ground(N, B)' /\ RangeFact(N)'
  BY <1>1, <1>2, GroundFrame, RangeFrame
<1>4. KeylessType /\ "left" \in Side /\ "right" \in Side /\ (\A s \in Side : size[s] # {}) /\ missing = Both(0)
  BY <1>1 DEF KeylessInv, Steady, Reading, Side
<1>5. PICK l : got["left"] = {l} /\ TrueOn(l, "left", N, Under)
  BY <1>1, <1>2, <1>4 DEF SumsFact
<1>6. PICK r : got["right"] = {r} /\ TrueOn(r, "right", N, Under)
  BY <1>1, <1>2, <1>4 DEF SumsFact
<1>7. PlanOk /\ NumberOf \in Nat \ {0}
  BY <1>2, <1>4, NumberPositive DEF RangeFact
<1>8. Under \subseteq 0 .. NumberOf - 1
  <2>1. CASE plan = {}
    BY <2>1 DEF Under, NumberOf
  <2>2. CASE plan # {}
    <3>1. bucket \in Nat /\ bucket < NumberOf /\ Under = {bucket}
      BY <1>2, <2>2 DEF SumsFact, Under
    <3> QED BY <1>7, <3>1
  <2> QED BY <2>1, <2>2
<1>9. differ' \subseteq 0 .. NumberOf - 1 /\ NumberOf' = NumberOf
  <2>1. NumberOf' = NumberOf /\ DiffBuckets \subseteq Under
    BY <1>1, PlacedFrame DEF DiffBuckets
  <2> QED BY <1>1, <1>2, <1>8, <2>1 DEF SumsFact
<1>10. \A c : DifferAt(c)' <=> DifferAt(c)
  BY <1>1, StartFrame DEF DifferAt
<1>11. ASSUME NEW c \in Contents, Quiet(N, c), DifferAt(c), Placed(c, Behind) \/ Placed(c, Under)
       PROVE  Placed(c, differ)'
  <2>1. Placed(c, differ \cup DiffBuckets)
    <3>1. CASE Placed(c, Behind)
      BY <1>2, <1>11, <3>1 DEF SumsFact, Placed
    <3>2. CASE Placed(c, Under)
      <4>1. Placed(c, DiffBuckets)
        BY <1>5, <1>6, <1>11, <3>2, DiffTrue
      <4> QED BY <4>1 DEF Placed
    <3> QED BY <1>11, <3>1, <3>2
  <2> QED BY <1>1, <2>1, PlacedFrame DEF Placed
<1>12. CASE ~Last
  <2>1. pc' = "sums" /\ bucket' = bucket + 1 /\ plan # {} /\ bucket # Only(plan).n - 1
    BY <1>1, <1>12 DEF Last
  <2>2. bucket \in Nat /\ bucket < NumberOf /\ NumberOf = Only(plan).n
    BY <1>2, <2>1 DEF SumsFact, NumberOf
  <2>3. bucket' \in Nat /\ bucket' < NumberOf'
    BY <1>7, <1>9, <2>1, <2>2
  <2>4. ASSUME NEW c \in Contents, Placed(c, Behind)' PROVE Placed(c, Behind) \/ Placed(c, Under)
    <3>1. PICK b \in 0 .. bucket' - 1 : InBucket(c, b)
      BY <1>1, <2>1, <2>4, PlacedFrame DEF Placed, Behind
    <3>2. b \in 0 .. bucket - 1 \/ b = bucket
      BY <2>1, <2>2, <3>1
    <3> QED BY <2>1, <3>1, <3>2 DEF Placed, Behind, Under
  <2>5. \A c \in Contents : (Quiet(N, c) /\ DifferAt(c) /\ Placed(c, Behind) => Placed(c, differ))'
    BY <1>10, <1>11, <2>4
  <2>6. SumsFact(N)'
    BY <1>1, <1>9, <2>3, <2>5 DEF SumsFact, Both
  <2> QED BY <1>3, <2>1, <2>6 DEF Told, Facts
<1>13. CASE Last
  <2>1. pc' = "pull"
    BY <1>1, <1>13
  <2>2. ASSUME NEW c \in Contents, Quiet(N, c), DifferAt(c) PROVE Placed(c, Behind) \/ Placed(c, Under)
    <3>1. Placed(c, 0 .. NumberOf - 1)
      BY <1>2, <1>4, <2>2, SomeBucket DEF RangeFact
    <3>2. PICK b \in 0 .. NumberOf - 1 : InBucket(c, b)
      BY <3>1 DEF Placed
    <3>3. CASE plan = {}
      BY <3>2, <3>3 DEF Placed, Under, NumberOf
    <3>4. CASE plan # {}
      <4>1. bucket \in Nat /\ bucket = NumberOf - 1 /\ Under = {bucket} /\ Behind = 0 .. bucket - 1
        BY <1>2, <1>13, <3>4 DEF SumsFact, NumberOf, Last, Under, Behind
      <4>2. b \in 0 .. bucket - 1 \/ b = bucket
        BY <1>7, <3>2, <4>1
      <4> QED BY <3>2, <4>1, <4>2 DEF Placed
    <3> QED BY <3>3, <3>4
  <2> DEFINE M == [s \in Side |-> {}]
  <2>3. ASSUME NEW s \in Side, NEW c \in Contents, Quiet(N, c),
               c \in Gap(s, Start("left", "left")', Start("right", "right")')
        PROVE  Placed(c, differ)'
    <3>1. Start("left", "left") \in Multiset /\ Start("right", "right") \in Multiset
      BY <1>4, StartBag
    <3>2. c \in Gap(s, Start("left", "left"), Start("right", "right"))
      BY <1>1, <2>3, StartFrame
    <3>3. Start("left", "left")[c] \in Nat /\ Start("right", "right")[c] \in Nat
      BY <3>1, BagNat
    <3>4. DifferAt(c)
      BY <3>2, <3>3 DEF Gap, More, DifferAt
    <3> QED BY <1>11, <2>2, <2>3, <3>4
  <2>4. Found(N, M)'
    <3>1. \A s \in Side : missing'[s] = Cardinality(M[s])
      BY <1>1, <1>4, FS_EmptySet DEF Both
    <3> QED BY <2>3, <3>1 DEF Found
  <2>5. M \in [Side -> SUBSET Contents]
    OBVIOUS
  <2> HIDE DEF M
  <2>6. PullFact(N)'
    BY <1>1, <1>9, <2>4, <2>5 DEF PullFact, Both
  <2> QED BY <1>3, <2>1, <2>6 DEF Told, Facts
<1> QED BY <1>12, <1>13

LEMMA PullingIn ==
  ASSUME differ \subseteq 0 .. NumberOf - 1, differ # {}
  PROVE  Pulling \subseteq differ
<1>1. differ \subseteq Nat
  OBVIOUS
<1>2. \E m \in differ : \A y \in differ : m <= y
  BY <1>1, LeastNat
<1>3. Min(differ) \in differ
  BY <1>2 DEF Min
<1> QED BY <1>3 DEF Pulling

LEMMA PullTold == ASSUME KeylessInv, NEW s \in Side, Pull(s) PROVE Told'
<1>1. /\ pc = "pull" /\ pc' = "pull" /\ got' = [got EXCEPT ![s] = {Part(View(s, s), Covered(Pulling))}]
      /\ differ # {}
      /\ UNCHANGED <<mode, tab, writes, snap, base, size, exact, plan, bucket, differ, missing>>
  BY DEF Pull, env, view, sizes, walk, result
<1>2. PICK N, B : Ground(N, B) /\ PullFact(N) /\ RangeFact(N)
  BY <1>1 DEF KeylessInv, Told, Facts, Reading
<1>3. Ground(N, B)' /\ RangeFact(N)'
  BY <1>1, <1>2, GroundFrame, RangeFrame
<1>4. PICK v : v = Part(View(s, s), Covered(Pulling))
  OBVIOUS
<1>5. TrueOn(v, s, N, Pulling) /\ \A c \in Contents : ~Placed(c, Pulling) => v[c] = 0
  BY <1>1, <1>2, <1>4, PartTrue DEF Reading
<1>6. /\ got'[s] = {v}
      /\ \A t \in Side \ {s} : got'[t] = got[t]
  BY <1>1, <1>4 DEF KeylessInv, KeylessType
<1>7. /\ Pulling' = Pulling /\ NumberOf' = NumberOf
      /\ \A t, u : Start(t, u)' = Start(t, u)
      /\ \A c : Placed(c, Pulling)' <=> Placed(c, Pulling)
      /\ \A c : Placed(c, differ)' <=> Placed(c, differ)
  BY <1>1, PlacedFrame, StartFrame DEF Pulling, Placed
<1>8. \A g, t : t \in Side => (TrueOn(g, t, N, Pulling)' <=> TrueOn(g, t, N, Pulling))
  BY <1>7 DEF TrueOn
<1>9. \A t \in Side :
        got'[t] = {} \/ /\ differ' # {}
                        /\ \E g : /\ got'[t] = {g} /\ TrueOn(g, t, N, Pulling)'
                                  /\ \A c \in Contents : ~Placed(c, Pulling)' => g[c] = 0
  <2>1. ASSUME NEW t \in Side, got'[t] # {}
        PROVE  \E g : /\ got'[t] = {g} /\ TrueOn(g, t, N, Pulling)
                      /\ \A c \in Contents : ~Placed(c, Pulling) => g[c] = 0
    <3>1. CASE t = s
      BY <1>5, <1>6, <3>1
    <3>2. CASE t # s
      BY <1>2, <1>6, <2>1, <3>2 DEF PullFact
    <3> QED BY <3>1, <3>2
  <2> QED BY <1>1, <1>7, <1>8, <2>1
<1>10. PICK M \in [Side -> SUBSET Contents] : Found(N, M)
  BY <1>2 DEF PullFact
<1>11. Found(N, M)'
  BY <1>1, <1>7, <1>10 DEF Found
<1>12. PullFact(N)'
  BY <1>1, <1>2, <1>7, <1>9, <1>10, <1>11 DEF PullFact
<1> QED BY <1>1, <1>3, <1>12 DEF Told, Facts

LEMMA PulledTold == ASSUME KeylessInv, Pulled PROVE Told'
<1>1. /\ pc = "pull" /\ pc' = "pull" /\ (\A s \in Side : got[s] # {}) /\ got' = Both({})
      /\ differ' = differ \ Pulling
      /\ UNCHANGED <<mode, tab, writes, snap, base, size, exact, plan>>
  BY DEF Pulled, env, view, sizes
<1>2. PICK N, B : Ground(N, B) /\ PullFact(N) /\ RangeFact(N)
  BY <1>1 DEF KeylessInv, Told, Facts, Reading
<1>3. Ground(N, B)' /\ RangeFact(N)'
  BY <1>1, <1>2, GroundFrame, RangeFrame
<1>4. KeylessType /\ "left" \in Side /\ "right" \in Side
  BY DEF KeylessInv, Side
<1>5. PICK l : /\ got["left"] = {l} /\ TrueOn(l, "left", N, Pulling)
               /\ \A c \in Contents : ~Placed(c, Pulling) => l[c] = 0
  BY <1>1, <1>2, <1>4 DEF PullFact
<1>6. PICK r : /\ got["right"] = {r} /\ TrueOn(r, "right", N, Pulling)
               /\ \A c \in Contents : ~Placed(c, Pulling) => r[c] = 0
  BY <1>1, <1>2, <1>4 DEF PullFact
<1>7. Pulling \subseteq differ /\ differ \subseteq 0 .. NumberOf - 1
  BY <1>1, <1>2, <1>4, PullingIn DEF PullFact
<1>8. PICK M \in [Side -> SUBSET Contents] : Found(N, M)
  BY <1>2 DEF PullFact
<1>9. \A s \in Side : missing'[s] = missing[s] + Cardinality(Gap(s, l, r))
  <2>1. Only(got["left"]) = l /\ Only(got["right"]) = r
    BY <1>5, <1>6, OnlyOne
  <2> QED BY <2>1 DEF Pulled, Gap
<1> DEFINE x == Start("left", "left")
           y == Start("right", "right")
           K == [s \in Side |-> M[s] \cup Gap(s, l, r)]
<1>10. ASSUME NEW s \in Side, NEW c \in Gap(s, l, r) PROVE c \in Contents /\ Placed(c, Pulling)
  <2>1. c \in Contents /\ l[c] # r[c]
    <3>1. c \in Contents /\ (l[c] > r[c] \/ r[c] > l[c])
      BY DEF Gap, More
    <3>2. l[c] \in Nat /\ r[c] \in Nat
      BY <1>5, <1>6, <3>1, BagNat DEF TrueOn
    <3> QED BY <3>1, <3>2
  <2> QED BY <1>5, <1>6, <2>1
<1>11. \A c : Placed(c, Pulling) => Placed(c, differ)
  BY <1>7 DEF Placed
<1>12. \A c \in Contents : Placed(c, differ)' <=> Placed(c, differ \ Pulling)
  BY <1>1, PlacedFrame DEF Placed
<1>13. ASSUME NEW c \in Contents, Placed(c, Pulling) PROVE ~Placed(c, differ \ Pulling)
  <2>1. PICK a \in Pulling : InBucket(c, a)
    BY <1>13 DEF Placed
  <2>2. ASSUME NEW b \in differ \ Pulling, InBucket(c, b) PROVE FALSE
    <3>1. a \in Nat /\ b \in Nat
      BY <1>7
    <3>2. PlanOk
      BY <1>2 DEF RangeFact
    <3> QED BY <2>1, <2>2, <3>1, <3>2, OneBucket
  <2> QED BY <2>2 DEF Placed
<1>14. ASSUME NEW s \in Side PROVE missing'[s] = Cardinality(K[s])
  <2> DEFINE P == M[s]
             Q == Gap(s, l, r)
  <2>1. missing[s] = Cardinality(P) /\ missing'[s] = missing[s] + Cardinality(Q)
    BY <1>8, <1>9 DEF Found
  <2>2. P \cap Q = {}
    BY <1>8, <1>10, <1>11 DEF Found
  <2>3. IsFiniteSet(P) /\ IsFiniteSet(Q)
    <3>1. P \in SUBSET Contents /\ Q \in SUBSET Contents
      BY <1>10
    <3> QED BY <3>1, FS_Subset, KeylessAssumption
  <2>k. K[s] = P \cup Q
    OBVIOUS
  <2> HIDE DEF P, Q, K
  <2>4. Cardinality(P \cup Q) = Cardinality(P) + Cardinality(Q) - Cardinality(P \cap Q)
    BY <2>3, FS_Union
  <2>5. Cardinality(P \cap Q) = 0
    BY <2>2, FS_EmptySet
  <2>6. Cardinality(P) \in Nat /\ Cardinality(Q) \in Nat
    BY <2>3, FS_CardinalityType
  <2>7. Cardinality(P \cup Q) = Cardinality(P) + Cardinality(Q)
    BY <2>4, <2>5, <2>6
  <2> QED BY <2>1, <2>7, <2>k
<1>15. ASSUME NEW s \in Side, NEW c \in K[s] PROVE ~Placed(c, differ)'
  <2>1. c \in M[s] \/ c \in Gap(s, l, r)
    OBVIOUS
  <2>2. c \in Contents
    BY <2>1, <1>10
  <2>3. CASE c \in M[s]
    <3>1. ~Placed(c, differ)
      BY <1>8, <2>2, <2>3 DEF Found
    <3> QED BY <1>12, <2>2, <3>1 DEF Placed
  <2>4. CASE c \in Gap(s, l, r)
    BY <1>10, <1>12, <1>13, <2>2, <2>4
  <2> QED BY <2>1, <2>3, <2>4
<1>16. ASSUME NEW s \in Side, NEW c \in Contents, Quiet(N, c)
       PROVE  (c \in K[s] => c \in Gap(s, x, y)) /\ (c \in Gap(s, x, y) => c \in K[s] \/ Placed(c, differ)')
  <2>0. (c \in M[s] => c \in Gap(s, x, y)) /\ (c \in Gap(s, x, y) => c \in M[s] \/ Placed(c, differ))
    BY <1>8, <1>16 DEF Found
  <2>k. c \in K[s] <=> c \in M[s] \/ c \in Gap(s, l, r)
    OBVIOUS
  <2>1. Placed(c, Pulling) => (c \in Gap(s, l, r) <=> c \in Gap(s, x, y))
    <3> SUFFICES ASSUME Placed(c, Pulling) PROVE c \in Gap(s, l, r) <=> c \in Gap(s, x, y)
      OBVIOUS
    <3>1. l[c] = x[c] /\ r[c] = y[c]
      BY <1>5, <1>6, <1>16 DEF TrueOn, Quiet
    <3> QED BY <3>1 DEF Gap, More
  <2>2. c \in Gap(s, l, r) => Placed(c, Pulling)
    BY <1>10
  <2>3. Placed(c, differ) => Placed(c, Pulling) \/ Placed(c, differ)'
    BY <1>12 DEF Placed
  <2> HIDE DEF K, x, y
  <2> QED BY <2>0, <2>k, <2>1, <2>2, <2>3
<1>17. K \in [Side -> SUBSET Contents]
  BY <1>10
<1>18. x' = x /\ y' = y
  BY <1>1, StartFrame
<1> HIDE DEF K
<1>19. Found(N, K)'
  BY <1>14, <1>15, <1>16, <1>18 DEF Found
<1>20. differ' \subseteq 0 .. NumberOf' - 1
  BY <1>1, <1>7, PlacedFrame
<1>21. PullFact(N)'
  BY <1>1, <1>17, <1>19, <1>20 DEF PullFact, Both
<1> QED BY <1>1, <1>3, <1>21 DEF Told, Facts

LEMMA AnsweredFrame ==
  ASSUME UNCHANGED <<missing, unit, base, writes, mode>>, NEW th \in Side,
         \A s \in Side : Near(missing[s], Truth(s, th), Slack)
  PROVE  Answered'
<1>1. \A s : Truth(s, th)' = Truth(s, th)
  BY StartFrame DEF Truth
<1>2. Slack' = Slack
  BY DEF Slack
<1> QED BY <1>1, <1>2 DEF Answered

LEMMA AllPulledAnswers == ASSUME KeylessInv, AllPulled PROVE Answered'
<1>1. pc = "pull" /\ differ = {} /\ UNCHANGED <<missing, unit, base, writes, mode>>
  BY DEF AllPulled, env, view, result
<1>2. PICK N, B : Ground(N, B) /\ PullFact(N)
  BY <1>1 DEF KeylessInv, Told, Facts, Reading
<1>3. PICK M \in [Side -> SUBSET Contents] : Found(N, M)
  BY <1>2 DEF PullFact
<1>4. KeylessType /\ unit = "contents" /\ N \in Counters /\ Cost(N) <= Slack /\ "right" \in Side
  BY <1>1, <1>2 DEF KeylessInv, Steady, Reading, Ground, Side
<1>5. ASSUME NEW s \in Side PROVE Near(missing[s], Truth(s, "right"), Slack)
  <2> DEFINE K == Gap(s, Start("left", "left"), Start("right", "right"))
  <2>1. K \in SUBSET Contents /\ M[s] \in SUBSET Contents
    BY DEF Gap, More
  <2>2. missing[s] = Cardinality(M[s]) /\ Truth(s, "right") = Cardinality(K)
    BY <1>3, <1>4 DEF Found, Truth, LackingOf
  <2>3. \A c \in Contents : N["left"][c] = 0 /\ N["right"][c] = 0 => (c \in M[s] <=> c \in K)
    BY <1>1, <1>3 DEF Found, Quiet, Placed
  <2> HIDE DEF K
  <2>4. /\ Cardinality(M[s]) \in Nat /\ Cardinality(K) \in Nat
        /\ Cardinality(M[s]) <= Cardinality(K) + Cost(N)
        /\ Cardinality(K) <= Cardinality(M[s]) + Cost(N)
    BY <1>4, <2>1, <2>3, CardinalityNear
  <2>5. Cost(N) \in Nat /\ Slack \in Nat
    BY <1>4, CostAdds DEF Slack, KeylessType
  <2>6. Near(Cardinality(M[s]), Cardinality(K), Slack)
    BY <1>4, <2>4, <2>5 DEF Near
  <2> QED BY <2>2, <2>6
<1> QED BY <1>1, <1>4, <1>5, AnsweredFrame

(* Whatever was known of what nobody wrote stays known when more is written. *)
LEMMA Widened ==
  ASSUME KeylessType, NEW N, NEW B, Facts(N, B), NEW W \in Counters,
         \A s \in Side, c \in Contents : N[s][c] <= W[s][c],
         UNCHANGED <<mode, pc, base, size, exact, got, asked, plan, bucket, differ, missing>>,
         (Cost(W) <= Slack)', Path(W, B)'
  PROVE  Facts(W, B)'
<1>1. N \in Counters /\ B \in [Side -> Multiset] /\ Counted(B)
  BY DEF Facts, Ground
<1>2. ASSUME NEW s \in Side, NEW c \in Contents
      PROVE  N[s][c] \in Nat /\ W[s][c] \in Nat /\ N[s][c] <= W[s][c] /\ (W[s][c] = 0 => N[s][c] = 0)
  BY <1>1 DEF Counters
<1>3. \A c \in Contents : Quiet(W, c) => Quiet(N, c)
  BY <1>2 DEF Quiet, Side
<1>4. Ground(W, B)'
  <2>1. Counted(B)'
    BY <1>1 DEF Counted
  <2> QED BY <1>1, <2>1 DEF Ground
<1>5. /\ \A s, t : Start(s, t)' = Start(s, t)
      /\ \A c : DifferAt(c)' <=> DifferAt(c)
      /\ NumberOf' = NumberOf /\ Buckets' = Buckets /\ Under' = Under /\ Pulling' = Pulling /\ Behind' = Behind
      /\ Small' = Small /\ Big' = Big
      /\ \A c, bs : Placed(c, bs)' <=> Placed(c, bs)
  BY StartFrame, PlacedFrame, PlacedSame DEF DifferAt, Under, Pulling, Behind, Small, Big, Counts
<1>6. ASSUME NEW g, NEW s \in Side, NearBag(g, s, N) PROVE NearBag(g, s, W)'
  <2>1. g \in Multiset /\ Start(s, s) \in Multiset
    BY <1>6, StartBag DEF NearBag
  <2>2. ASSUME NEW c \in Contents PROVE Dist(g[c], Start(s, s)[c]) <= W[s][c]
    <3>1. g[c] \in Int /\ Start(s, s)[c] \in Int
      BY <2>1, BagNat
    <3>2. Dist(g[c], Start(s, s)[c]) \in Nat /\ Dist(g[c], Start(s, s)[c]) <= N[s][c]
      BY <1>6, <3>1, DistIs DEF NearBag
    <3> QED BY <1>2, <3>2
  <2> QED BY <1>5, <2>1, <2>2 DEF NearBag
<1>7. ASSUME NEW g, NEW s \in Side, TrueOn(g, s, N, Under) PROVE TrueOn(g, s, W, Under)'
  <2>1. \A c : Placed(c, Under)' <=> Placed(c, Under)
    BY <1>5, PlacedFrame DEF Placed
  <2> QED BY <1>2, <1>5, <1>7, <2>1 DEF TrueOn
<1>8. ASSUME NEW g, NEW s \in Side, TrueOn(g, s, N, Pulling) PROVE TrueOn(g, s, W, Pulling)'
  <2>1. \A c : Placed(c, Pulling)' <=> Placed(c, Pulling)
    BY <1>5, PlacedFrame DEF Placed
  <2> QED BY <1>2, <1>5, <1>8, <2>1 DEF TrueOn
<1>9. ASSUME pc = "lookup" PROVE LookupFact(W, B)'
  <2>1. PICK g : got[Small] = {g} /\ NearBag(g, Small, N)
    BY <1>9 DEF Facts, LookupFact
  <2>2. PICK h \in Multiset : got[Big] = {h} /\ \A c \in Contents :
       IF c \in asked THEN Dist(B[Big][c], Start(Big, Big)[c]) + Dist(h[c], B[Big][c]) <= N[Big][c]
                      ELSE h[c] = 0
    BY <1>9 DEF Facts, LookupFact
  <2>3. NearBag(g, Small, W)'
    BY <1>5, <1>6, <2>1, SmallBig DEF NearBag
  <2>4. B[Big] \in Multiset /\ Start(Big, Big) \in Multiset
    BY <1>1, SmallBig, StartBag
  <2>5. ASSUME NEW c \in Contents, c \in asked
        PROVE  Dist(B[Big][c], Start(Big, Big)[c]) + Dist(h[c], B[Big][c]) <= W[Big][c]
    <3>1. B[Big][c] \in Int /\ Start(Big, Big)[c] \in Int /\ h[c] \in Int
      BY <2>4, BagNat
    <3>2. Dist(B[Big][c], Start(Big, Big)[c]) \in Nat /\ Dist(h[c], B[Big][c]) \in Nat
      BY <3>1, DistIs
    <3>3. N[Big][c] \in Nat /\ W[Big][c] \in Nat /\ N[Big][c] <= W[Big][c]
      BY <1>2, SmallBig
    <3> QED BY <2>2, <2>5, <3>2, <3>3
  <2> QED BY <1>5, <2>1, <2>2, <2>3, <2>5 DEF LookupFact
<1>10. ASSUME pc = "iblt" PROVE IbltFact(W)'
  BY <1>6, <1>10 DEF Facts, IbltFact
<1>11. ASSUME pc = "probe" PROVE ProbeFact(W)'
  BY <1>6, <1>11 DEF Facts, ProbeFact
<1>12. ASSUME pc \in {"sums", "pull"} PROVE RangeFact(W)'
  <2>1. RangeFact(N)
    BY <1>12 DEF Facts
  <2>2. PlanOk' <=> PlanOk
    BY DEF PlanOk
  <2> QED BY <1>3, <1>5, <2>1, <2>2 DEF RangeFact
<1>13. ASSUME pc = "sums" PROVE SumsFact(W)'
  <2>1. SumsFact(N)
    BY <1>13 DEF Facts
  <2>2. \A s \in Side : got'[s] = {} \/ \E g : got'[s] = {g} /\ TrueOn(g, s, W, Under)'
    BY <1>7, <2>1 DEF SumsFact
  <2>3. \A c : (Placed(c, Behind)' <=> Placed(c, Behind)) /\ (Placed(c, differ)' <=> Placed(c, differ))
    BY <1>5, PlacedFrame DEF Placed
  <2>4. \A c \in Contents : (Quiet(W, c) /\ DifferAt(c) /\ Placed(c, Behind) => Placed(c, differ))'
    BY <1>3, <1>5, <2>1, <2>3 DEF SumsFact
  <2> QED BY <1>5, <2>1, <2>2, <2>4 DEF SumsFact
<1>14. ASSUME pc = "pull" PROVE PullFact(W)'
  <2>1. PullFact(N)
    BY <1>14 DEF Facts
  <2>2. \A c : (Placed(c, Pulling)' <=> Placed(c, Pulling)) /\ (Placed(c, differ)' <=> Placed(c, differ))
    BY <1>5, PlacedFrame DEF Placed
  <2>3. \A s \in Side :
        got'[s] = {} \/ /\ differ' # {}
                        /\ \E g : /\ got'[s] = {g} /\ TrueOn(g, s, W, Pulling)'
                                  /\ \A c \in Contents : ~Placed(c, Pulling)' => g[c] = 0
    BY <1>8, <2>1, <2>2 DEF PullFact
  <2>4. PICK M \in [Side -> SUBSET Contents] : Found(N, M)
    BY <2>1 DEF PullFact
  <2>5. Found(W, M)'
    BY <1>3, <1>5, <2>2, <2>4 DEF Found
  <2> QED BY <1>5, <2>1, <2>3, <2>4, <2>5 DEF PullFact
<1> QED BY <1>4, <1>9, <1>10, <1>11, <1>12, <1>13, <1>14 DEF Facts

(* A row of content c written on side s.                                   *)
OneMore(N, s, c) == [N EXCEPT ![s][c] = N[s][c] + 1]

LEMMA CostGrows ==
  ASSUME NEW N \in Counters, NEW s \in Side, NEW c \in Contents, NEW W, W = OneMore(N, s, c)
  PROVE  /\ W \in Counters /\ Cost(W) = Cost(N) + 1 /\ W[s][c] = N[s][c] + 1
         /\ \A t \in Side, d \in Contents : t # s \/ d # c => W[t][d] = N[t][d]
         /\ \A t \in Side, d \in Contents : N[t][d] <= W[t][d]
<1>1. W \in Counters /\ W[s][c] = N[s][c] + 1 /\ N[s][c] \in Nat
  BY DEF Counters, OneMore
<1>2. \A t \in Side, d \in Contents : t # s \/ d # c => W[t][d] = N[t][d]
  BY DEF Counters, OneMore
<1>3. \A t \in Side, d \in Contents : N[t][d] \in Nat /\ W[t][d] \in Nat
  BY <1>1 DEF Counters
<1>4. \A t \in Side, d \in Contents : N[t][d] <= W[t][d]
  BY <1>1, <1>2, <1>3
<1>5. ASSUME NEW t \in Side, t # s PROVE Total(W[t], Contents) = Total(N[t], Contents)
  BY <1>5 DEF Counters, OneMore
<1>6. Total(W[s], Contents) = Total(N[s], Contents) + 1
  <2> DEFINE w == W[s]
             n == N[s]
             R == Contents \ {c}
  <2>1. \A d \in Contents : w[d] \in Int /\ n[d] \in Int /\ (d # c => w[d] = n[d])
    BY <1>2, <1>3
  <2>2. w[c] = n[c] + 1 /\ n[c] \in Int
    BY <1>1
  <2> HIDE DEF w, n
  <2>3. IsFiniteSet(Contents) /\ IsFiniteSet(R)
    BY KeylessAssumption, FS_RemoveElement
  <2>4. Total(w, Contents) = w[c] + Total(w, R) /\ Total(n, Contents) = n[c] + Total(n, R)
    BY <2>1, <2>3, TotalRemove
  <2>5. Total(w, R) = Total(n, R) /\ Total(n, R) \in Int
    <3>1. \A d \in R : w[d] \in Int /\ w[d] = n[d] /\ n[d] \in Int
      BY <2>1
    <3> HIDE DEF R
    <3> QED BY <2>3, <3>1, TotalAgree, TotalInt
  <2>6. Total(w, Contents) = Total(n, Contents) + 1
    <3> DEFINE a == Total(w, R)
               b == Total(n, R)
               e == Total(w, Contents)
               f == Total(n, Contents)
               p == w[c]
               q == n[c]
    <3>1. e = p + a /\ f = q + b /\ a = b /\ b \in Int /\ p = q + 1 /\ q \in Int
      BY <2>2, <2>4, <2>5
    <3>2. e = f + 1
      <4> HIDE DEF a, b, e, f, p, q
      <4> QED BY <3>1
    <3> QED BY <3>2
  <2> QED BY <2>6 DEF w, n
<1>7. \A t \in Side : Total(N[t], Contents) \in Nat
  <2> SUFFICES ASSUME NEW t \in Side PROVE Total(N[t], Contents) \in Nat
    OBVIOUS
  <2> DEFINE n == N[t]
  <2>1. \A d \in Contents : n[d] \in Nat
    BY <1>3
  <2> HIDE DEF n
  <2>2. Total(n, Contents) \in Nat
    BY <2>1, KeylessAssumption, TotalNat
  <2> QED BY <2>2 DEF n
<1>8. Cost(W) = Cost(N) + 1
  <2> DEFINE a == Total(N["left"], Contents)
             b == Total(N["right"], Contents)
             d == Total(W["left"], Contents)
             e == Total(W["right"], Contents)
  <2>1. a \in Nat /\ b \in Nat /\ ((d = a + 1 /\ e = b) \/ (d = a /\ e = b + 1))
    BY <1>5, <1>6, <1>7 DEF Side
  <2>2. Cost(N) = a + b /\ Cost(W) = d + e
    BY DEF Cost
  <2> HIDE DEF a, b, d, e
  <2> QED BY <2>1, <2>2
<1> QED BY <1>1, <1>2, <1>4, <1>8

LEMMA WriteTold == ASSUME KeylessInv, NEW s \in Side, NEW c \in Contents, Write(s, c) PROVE Told'
<1>1. /\ UNCHANGED <<mode, pc, snap, base, size, exact, got, asked, plan, bucket, differ, missing>>
      /\ writes' = writes + 1 /\ writes \in Nat
  BY DEF Write, view, sizes, walk, result, KeylessInv, KeylessType
<1> SUFFICES ASSUME pc \in Reading PROVE Told'
  BY <1>1 DEF Told
<1>2. PICK N, B : Facts(N, B)
  BY DEF KeylessInv, Told
<1>3. KeylessType /\ Steady /\ N \in Counters /\ B \in [Side -> Multiset] /\ Cost(N) <= Slack /\ Path(N, B)
  BY <1>2 DEF Facts, Ground, KeylessInv
<1>n. [Next]_vars
  BY DEF Next
<1>4. CASE mode.snapshot
  <2>1. snap = base /\ \A t \in Side : snap[t] # {}
    BY <1>3, <1>4 DEF Steady, KeylessType
  <2>2. \A t \in Side : View(t, t)' = View(t, t) /\ Start(t, t)' = Start(t, t)
    BY <1>1, <2>1 DEF View, Start
  <2>3. Path(N, B)'
    BY <1>3, <2>2 DEF Path
  <2>4. (Cost(N) <= Slack)'
    BY <1>1, <1>3, <1>4 DEF Slack
  <2>5. \A t \in Side, d \in Contents : N[t][d] <= N[t][d]
    BY <1>3 DEF Counters
  <2>6. Facts(N, B)'
    BY <1>1, <1>2, <1>3, <2>3, <2>4, <2>5, Widened
  <2> QED BY <2>6 DEF Told
<1>5. CASE ~mode.snapshot
  <2>1. PICK W : W = OneMore(N, s, c)
    OBVIOUS
  <2>2. /\ W \in Counters /\ Cost(W) = Cost(N) + 1 /\ W[s][c] = N[s][c] + 1
        /\ \A t \in Side, d \in Contents : t # s \/ d # c => W[t][d] = N[t][d]
        /\ \A t \in Side, d \in Contents : N[t][d] <= W[t][d]
    BY <1>3, <2>1, CostGrows
  <2>3. (Cost(W) <= Slack)'
    <3>1. Cost(N) \in Nat /\ Cost(N) <= writes
      BY <1>3, <1>5, CostAdds DEF Slack
    <3>2. Slack' = writes + 1
      BY <1>1, <1>5 DEF Slack
    <3> QED BY <1>1, <2>2, <3>1, <3>2
  <2>4. snap = Both({})
    BY <1>3, <1>5 DEF Steady
  <2>5. \A t \in Side : View(t, t) = tab[t] /\ View(t, t)' = tab'[t] /\ Start(t, t)' = Start(t, t)
    BY <1>1, <2>4, StartFrame DEF View, Both
  <2>6. PICK n \in {tab[s][c] - 1, tab[s][c] + 1} \cap 0 .. MaxCopies : tab' = [tab EXCEPT ![s][c] = n]
    BY DEF Write
  <2>7. tab \in [Side -> Multiset] /\ n \in Int /\ Dist(n, tab[s][c]) <= 1
    <3>1. tab \in [Side -> Multiset]
      BY <1>3 DEF KeylessType
    <3>2. tab[s][c] \in Nat
      BY <3>1, BagNat
    <3> QED BY <2>6, <3>1, <3>2 DEF Dist
  <2>8. /\ tab'[s][c] = n
        /\ \A t \in Side, d \in Contents : t # s \/ d # c => tab'[t][d] = tab[t][d]
    BY <2>6, <2>7 DEF Multiset
  <2>9. ASSUME NEW t \in Side, NEW d \in Contents
        PROVE  Dist(B[t][d], Start(t, t)[d]) + Dist(tab'[t][d], B[t][d]) <= W[t][d]
    <3>1. Dist(B[t][d], Start(t, t)[d]) + Dist(tab[t][d], B[t][d]) <= N[t][d]
      BY <1>3, <2>5 DEF Path
    <3>2. B[t] \in Multiset /\ Start(t, t) \in Multiset /\ tab[t] \in Multiset
      BY <1>3, <2>7, StartBag
    <3>3. B[t][d] \in Int /\ Start(t, t)[d] \in Int /\ tab[t][d] \in Int
      BY <3>2, BagNat
    <3>4. N[t][d] \in Nat
      BY <1>3 DEF Counters
    <3>5. CASE t # s \/ d # c
      BY <2>2, <2>8, <3>1, <3>5
    <3>6. CASE t = s /\ d = c
      <4> DEFINE b == B[t][d]
                 x == Start(t, t)[d]
                 y == tab[t][d]
                 p == Dist(b, x)
      <4>1. b \in Int /\ y \in Int /\ p \in Nat /\ p + Dist(y, b) <= N[t][d]
        BY <3>1, <3>3, DistIs
      <4>2. Dist(n, y) <= 1 /\ tab'[t][d] = n /\ W[t][d] = N[t][d] + 1
        BY <2>2, <2>7, <2>8, <3>6
      <4>3. p + Dist(n, b) <= N[t][d] + 1
        <5> HIDE DEF b, y, p
        <5> QED BY <2>7, <3>4, <4>1, <4>2 DEF Dist
      <4> QED BY <4>2, <4>3
    <3> QED BY <3>5, <3>6
  <2>10. Path(W, B)'
    BY <2>5, <2>9 DEF Path
  <2>11. Facts(W, B)'
    BY <1>1, <1>2, <1>3, <2>2, <2>3, <2>10, Widened
  <2> QED BY <2>11 DEF Told
<1> QED BY <1>4, <1>5

LEMMA WriteAnswered == ASSUME KeylessInv, NEW s \in Side, NEW c \in Contents, Write(s, c) PROVE Answered'
<1>1. /\ UNCHANGED <<mode, pc, base, missing, unit, exit>> /\ pc # "done" /\ writes' = writes + 1 /\ writes \in Nat
  BY DEF Write, view, result, KeylessInv, KeylessType
<1>2. CASE pc = "commit"
  <2>1. PICK th \in Side : \A t \in Side : Near(missing[t], Truth(t, th), Slack)
    BY <1>2 DEF KeylessInv, Answered
  <2>2. \A t : Truth(t, th)' = Truth(t, th)
    BY <1>1, StartFrame DEF Truth
  <2>3. Slack \in Int /\ Slack' \in Int /\ Slack <= Slack'
    BY <1>1 DEF Slack
  <2>4. \A t \in Side : Near(missing[t], Truth(t, th), Slack')
    BY <2>1, <2>3 DEF Near
  <2> QED BY <1>1, <2>2, <2>4 DEF Answered
<1>3. CASE pc # "commit"
  BY <1>1, <1>3 DEF KeylessInv, Steady, Answered, Reported
<1> QED BY <1>2, <1>3

LEMMA FinishAnswered == ASSUME KeylessInv, Finish PROVE Answered'
<1>1. pc = "commit" /\ UNCHANGED <<missing, unit, base, writes, mode>>
  BY DEF Finish, env
<1>2. PICK th \in Side : \A t \in Side : Near(missing[t], Truth(t, th), Slack)
  BY <1>1 DEF KeylessInv, Answered
<1> QED BY <1>1, <1>2, AnsweredFrame

(* No report is due yet.                                                   *)
LEMMA Unanswered ==
  ASSUME Steady, UNCHANGED exit, pc # "done", pc' # "commit"
  PROVE  Answered'
BY DEF Steady, Answered, Reported

LEMMA KeylessStep == ASSUME KeylessInv, [Next]_vars PROVE KeylessInv'
<1>1. KeylessType' /\ Steady' /\ Steady
  BY TypeStep, SteadyStep DEF KeylessInv
<1> SUFFICES Told' /\ Answered'
  BY <1>1 DEF KeylessInv
<1>2. ASSUME NEW s \in Side, OpenSnapshot(s) PROVE Told' /\ Answered'
  <2>1. Told'
    BY <1>2, OpenTold
  <2>2. pc # "done" /\ pc' # "commit" /\ exit' = exit
    BY <1>2 DEF OpenSnapshot, result
  <2> QED BY <1>1, <2>1, <2>2, Unanswered
<1>3. ASSUME NEW s \in Side, CountFiltered(s) \/ Estimate(s) \/ NoEstimate(s) \/ CountInstead(s)
      PROVE  Told' /\ Answered'
  <2>1. Told'
    BY <1>3, SizingTold
  <2>2. pc # "done" /\ pc' # "commit" /\ exit' = exit
    BY <1>3 DEF CountFiltered, Estimate, Estimating, NoEstimate, CountInstead, Sizing, result
  <2> QED BY <1>1, <2>1, <2>2, Unanswered
<1>4. ASSUME NEW s \in Side, Recount(s) \/ Summarize(s) \/ Probe(s) \/ Checksum(s) \/ Pull(s)
      PROVE  Told' /\ Answered'
  <2>1. Told'
    BY <1>4, RecountTold, SummarizeTold, ProbeTold, ChecksumTold, PullTold
  <2>2. pc # "done" /\ pc' # "commit" /\ exit' = exit
    BY <1>4 DEF Recount, Summarize, Probe, Checksum, Pull, result
  <2> QED BY <1>1, <2>1, <2>2, Unanswered
<1>5. ASSUME NEW s \in Side, Fail(s) PROVE Told' /\ Answered'
  BY <1>5 DEF Fail, Told, Answered, Reported, Reading
<1>6. ASSUME NEW s \in Side, NEW c \in Contents, Write(s, c) PROVE Told' /\ Answered'
  BY <1>6, WriteTold, WriteAnswered
<1>7. ASSUME Route \/ AbandonLookup \/ ReadSmall \/ SkipSummary \/ Undecoded \/ NoRange \/ Probed \/ Compared \/ Pulled
      PROVE  Told' /\ Answered'
  <2>1. Told'
    BY <1>7, RouteTold, ReadSmallTold, SkipTold, PlannedTold, ComparedTold, PulledTold
  <2>2. pc # "done" /\ pc' # "commit" /\ exit' = exit
    BY <1>7 DEF Route, SizesKnown, AbandonLookup, ReadSmall, Recounted, SkipSummary, Undecoded,
       NoRange, Probed, Planned,
                Compared, Pulled, result
  <2> QED BY <1>1, <2>1, <2>2, Unanswered
<1>8. ASSUME NEW c \in Contents, CountContent(c) PROVE Told' /\ Answered'
  <2>1. Told'
    BY <1>8, CountTold
  <2>2. pc # "done" /\ pc' # "commit" /\ exit' = exit
    BY <1>8 DEF CountContent, result
  <2> QED BY <1>1, <2>1, <2>2, Unanswered
<1>9. ASSUME LookedUp \/ SummaryJoin \/ Decode \/ AllPulled PROVE Told' /\ Answered'
  <2>1. Answered'
    BY <1>9, LookedUpAnswers, JoinAnswers, DecodeAnswers, AllPulledAnswers
  <2>2. pc' = "commit"
    BY <1>9 DEF LookedUp, SummaryJoin, Decode, AllPulled, Report
  <2> QED BY <2>1, <2>2 DEF Told, Reading
<1>10. CASE Finish
  <2>1. pc' = "done"
    BY <1>10 DEF Finish
  <2> QED BY <1>10, <2>1, FinishAnswered DEF Told, Reading
<1>11. CASE UNCHANGED vars
  <2>1. UNCHANGED <<mode, tab, writes, snap, base, pc, size, exact, got, asked, plan, bucket, differ, missing, unit, exit>>
    BY <1>11 DEF vars, env, view, sizes, walk, result
  <2>2. Answered'
    <3> SUFFICES ASSUME pc = "commit" \/ Reported PROVE Answered'
      BY <2>1 DEF Answered, Reported
    <3>1. PICK th \in Side : \A t \in Side : Near(missing[t], Truth(t, th), Slack)
      BY DEF KeylessInv, Answered
    <3> QED BY <2>1, <3>1, AnsweredFrame
  <2>3. ASSUME pc \in Reading PROVE Told'
    <3>1. PICK N, B : Facts(N, B)
      BY <2>3 DEF KeylessInv, Told
    <3>2. N \in Counters /\ (Cost(N) <= Slack)' /\ Path(N, B)' /\ KeylessType
      BY <2>1, <3>1, ViewFrame, PathFrame DEF Facts, Ground, KeylessInv
    <3>3. \A t \in Side, d \in Contents : N[t][d] <= N[t][d]
      BY <3>2 DEF Counters
    <3>4. Facts(N, B)'
      BY <2>1, <3>1, <3>2, <3>3, Widened
    <3> QED BY <3>4 DEF Told
  <2> QED BY <2>1, <2>2, <2>3 DEF Told
<1> QED
  BY <1>2, <1>3, <1>4, <1>5, <1>6, <1>7, <1>8, <1>9, <1>10, <1>11 DEF Next

LEMMA KeylessStart == Init => KeylessInv
BY KeylessInit, ToldInit DEF KeylessInv, Answered, Reported, Init

LEMMA KeylessHolds == Spec => []KeylessInv
<1>1. Init => KeylessInv
  BY KeylessStart
<1>2. KeylessInv /\ [Next]_vars => KeylessInv'
  BY KeylessStep
<1> QED BY <1>1, <1>2, PTL DEF Spec

(* With --consistency snapshot a report counts what was missing when the   *)
(* snapshots were opened, whichever way answered (bucket_diff.rs:374-602). *)
THEOREM KeylessSnapshotExact == Spec => []SnapshotExact
<1>1. KeylessInv => SnapshotExact
  <2> SUFFICES ASSUME KeylessInv, Reported, mode.snapshot
               PROVE  \E through \in {"left", "right"} :
                        \A s \in Side : missing[s] = Lacking(s, Start("left", "left"), Start(through, "right"))
    BY DEF SnapshotExact
  <2>1. PICK th \in Side : \A s \in Side :
           Near(missing[s], Lacking(s, Start("left", "left"), Start(th, "right")), Slack)
    BY AnsweredIs DEF KeylessInv
  <2>2. Slack = 0
    BY DEF Slack
  <2>3. \A s \in Side : missing[s] = Lacking(s, Start("left", "left"), Start(th, "right"))
    BY <2>1, <2>2 DEF Near
  <2> QED BY <2>3 DEF Side
<1> QED BY <1>1, KeylessHolds, PTL

(* Without snapshots each direction's count is off by no more than the     *)
(* rows written meanwhile, however the statements read of a bucket, its    *)
(* checksum and the sizes fall between the writes                          *)
(* (bucket_diff.rs:485-600, 1227-1385).                                    *)
THEOREM KeylessOffByWritesOnly == Spec => []OffByWritesOnly
<1>1. KeylessInv => OffByWritesOnly
  <2> SUFFICES ASSUME KeylessInv, Reported, ~mode.snapshot, NEW s \in Side
               PROVE  missing[s] \in Lacking(s, Start("left", "left"), Start("right", "right")) - writes
                                     .. Lacking(s, Start("left", "left"), Start("right", "right")) + writes
    BY DEF OffByWritesOnly
  <2>1. PICK th \in Side :
           Near(missing[s], Lacking(s, Start("left", "left"), Start(th, "right")), Slack)
    BY AnsweredIs DEF KeylessInv
  <2>2. Slack = writes /\ writes \in Nat
    BY DEF Slack, KeylessInv, KeylessType
  <2>3. Start(th, "right") = Start("right", "right")
    BY StartSame DEF KeylessInv, Side
  <2> DEFINE truth == Lacking(s, Start("left", "left"), Start("right", "right"))
  <2>4. Near(missing[s], truth, writes)
    BY <2>1, <2>2, <2>3
  <2>5. missing[s] \in truth - writes .. truth + writes
    <3> HIDE DEF truth
    <3> QED BY <2>2, <2>4 DEF Near
  <2> QED BY <2>5
<1> QED BY <1>1, KeylessHolds, PTL

(* What an aborted transaction takes.                                      *)
AbortedByStatistics ==
  aborted # {} \/ cause = "aborted" => CatalogFails /\ mode.snapshot /\ mode.aborts /\ ~mode.filtered

(* A run that a failed speculative statement ends, and any transaction     *)
(* left aborted, had catalog statistics that could not be read, inside a   *)
(* snapshot, on a server where errors abort it (bucket_diff.rs:1473): of   *)
(* the others, each is undone first (bucket_diff.rs:1022-1048).            *)
THEOREM PoisonedByStatistics == Spec => []AbortedByStatistics
<1>1. Init => AbortedByStatistics
  BY DEF Init, AbortedByStatistics
<1>2. AbortedByStatistics /\ [Next]_vars => AbortedByStatistics'
  <2> SUFFICES ASSUME AbortedByStatistics, [Next]_vars PROVE AbortedByStatistics'
    OBVIOUS
  <2>1. mode' = mode
    BY DEF Next, OpenSnapshot, Sizing, CountFiltered, Estimating, Estimate, NoEstimate,
       CountInstead, Recount,
         Summarize, Probe, Checksum, Pull, Fail, Write, Route, AbandonLookup, ReadSmall, LookedUp, Report,
         CountContent, SummaryJoin, SkipSummary, Decode, Undecoded, NoRange, Probed, Planned, Compared,
         Pulled, AllPulled, Finish, vars, env
  <2>2. ASSUME NEW s \in Side, NoEstimate(s) PROVE AbortedByStatistics'
    <3>1. cause' = cause /\ ~mode.filtered
      BY <2>2 DEF NoEstimate, Estimating, Sizing, result
    <3>2. PICK failed \in {FALSE, CatalogFails} : aborted' = IF failed THEN Aborting(s) ELSE aborted
      BY <2>2 DEF NoEstimate
    <3>3. CASE ~failed
      BY <2>1, <3>1, <3>2, <3>3 DEF AbortedByStatistics
    <3>4. CASE failed
      <4>1. CatalogFails
        BY <3>4
      <4>2. CASE mode.snapshot /\ mode.aborts
        BY <2>1, <3>1, <4>1, <4>2 DEF AbortedByStatistics
      <4>3. CASE ~(mode.snapshot /\ mode.aborts)
        <5>1. aborted' = aborted
          BY <3>2, <3>4, <4>3 DEF Aborting
        <5> QED BY <2>1, <3>1, <5>1 DEF AbortedByStatistics
      <4> QED BY <4>2, <4>3
    <3> QED BY <3>3, <3>4
  <2>3. ASSUME NEW s \in Side, Fail(s) PROVE AbortedByStatistics'
    BY <2>1, <2>3 DEF Fail, AbortedByStatistics
  <2>4. ASSUME UNCHANGED <<aborted, cause>> PROVE AbortedByStatistics'
    BY <2>1, <2>4 DEF AbortedByStatistics
  <2>5. \/ \E s \in Side : NoEstimate(s) \/ Fail(s)
        \/ UNCHANGED <<aborted, cause>>
    BY DEF Next, OpenSnapshot, Sizing, CountFiltered, Estimating, Estimate, CountInstead, Recount,
         Summarize, Probe, Checksum, Pull, Write, Route, AbandonLookup, ReadSmall, LookedUp, Report,
         CountContent, SummaryJoin, SkipSummary, UndoneTo, Decode, Undecoded, NoRange, Probed, Planned, Compared,
         Pulled, AllPulled, Finish, vars, result
  <2> QED BY <2>2, <2>3, <2>4, <2>5
<1> QED BY <1>1, <1>2, PTL DEF Spec

(* So where statistics can be read no run ends for a transaction that a    *)
(* speculative statement aborted (bucket_diff.rs:1022-1048).               *)
THEOREM KeylessNeverPoisoned ==
  ASSUME ~CatalogFails
  PROVE  Spec => []NeverPoisoned
<1>1. AbortedByStatistics => NeverPoisoned
  BY DEF AbortedByStatistics, NeverPoisoned
<1> QED BY <1>1, PoisonedByStatistics, PTL
=============================================================================
