---------------------------- MODULE SynthGenerateMC ----------------------------
(* Small schemas of two and three tables for TLC.                          *)
EXTENDS SynthGenerate

Col(space) == [space |-> space, levels |-> FALSE, number |-> TRUE, nulls |-> "never", pinned |-> {}]
Text(space) == [Col(space) EXCEPT !.levels = TRUE, !.number = FALSE]
None == << >>

Ref(fk, parent, key) ==
  [fk |-> fk, parent |-> parent, key |-> key, unique |-> FALSE, modeled |-> FALSE,
   fanouts |-> {}, orphans |-> {0}, fixed |-> {}, derive |-> None]
Unique(rel) == [rel EXCEPT !.unique = TRUE]
ModeledBy(rel, fanouts, orphans) ==
  [rel EXCEPT !.modeled = TRUE, !.fanouts = fanouts, !.orphans = orphans]

Of(n, columns, pk, rels) ==
  [rows |-> n, columns |-> columns, pk |-> pk, weighted |-> FALSE, rels |-> rels,
   derive |-> None, branches |-> <<>>]

Parent(n, space) == Of(n, [id |-> Col(space)], {"id"}, <<>>)

(* A chain of three tables; the middle one's key is a foreign key.         *)
Chain(n, space, rel, last) ==
  [p |-> Parent(n, space),
   c |-> Of(2, [ref |-> Col({8, 9})], {"ref"}, <<rel>>),
   g |-> [Of(2, [id |-> Col({1, 2}), ref |-> [Col({9}) EXCEPT !.nulls = last]], {"id", "ref"},
             <<Ref("ref", "c", "ref")>>) EXCEPT !.weighted = (last = "model")]]

Chains ==
  {Chain(n, 1 .. 3, rel, last) :
     n \in {2, 4}, last \in {"never", "model"},
     rel \in {Ref("ref", "p", "id"), Unique(Ref("ref", "p", "id")),
              ModeledBy(Ref("ref", "p", "id"), {0, 1, 2}, {0, 1}),
              [Ref("ref", "p", "id") EXCEPT !.fixed = {1, 5}]}}

(* One child of a parent with few values: redraws and extensions.          *)
Child(rel, id, nulls, pk) ==
  Of(3, [id |-> id, ref |-> [Col({9}) EXCEPT !.nulls = nulls]], pk, <<rel>>)
Pairs ==
  {[p |-> Parent(n, s), c |-> Child(rel, id, nulls, pk)] :
     n \in {2, 3}, s \in {{1, 2}, {1, 2, 3}}, id \in {Col({1, 2}), Text({1, 2}), Col({1})},
     nulls \in {"never", "rule"}, pk \in {{"id"}, {"ref"}, {"id", "ref"}},
     rel \in {Ref("ref", "p", "id"), Unique(Ref("ref", "p", "id")),
              ModeledBy(Unique(Ref("ref", "p", "id")), {0, 2}, {0})}}

(* A child that copies a column of its parent, and repairs another.        *)
Copies(rel) ==
  [p |-> Of(2, [id |-> Col({1, 2}), v |-> Col({0, 1})], {"id"}, <<>>),
   c |-> [Of(2, [ref |-> Col({9}), x |-> Col({0, 1}), y |-> Col({0}), w |-> Col({0})], {"ref", "x"},
             <<[rel EXCEPT !.derive = [w |-> "v"]]>>)
            EXCEPT !.derive = [y |-> "x"],
                   !.branches = <<[reads |-> "y", value |-> 1, target |-> 2, set |-> [x |-> 1]]>>]]
(* Two branches in turn: the second writes a column another derives from,  *)
(* or neither can move its predicate.                                      *)
Writes(reads, set) == [reads |-> reads, value |-> 1, target |-> 2, set |-> set]
Twice(reads) ==
  [p |-> Parent(1, {1}),
   c |-> [Of(2, [ref |-> Col({9}), x |-> Col({0, 1}), y |-> Col({0}), z |-> Col({0, 2})], {}, <<Ref("ref", "p", "id")>>)
            EXCEPT !.derive = [y |-> "x"],
                   !.branches = <<Writes("z", [z |-> 2]), Writes(reads, [x |-> 1])>>]]
(* The first of two branches that move nothing writes what y derives from: *)
(* the round is undone and leaves the row as DerivedFresh allows for.      *)
Stuck ==
  [Twice("z") EXCEPT !.c.branches = <<Writes("z", [x |-> 1]), Writes("z", [z |-> 2])>>]
Derivations == {Copies(Ref("ref", "p", "id")), Twice("y"), Twice("z"), Stuck}

(* The column referred to is not the primary key.                          *)
Alternatives ==
  {[p |-> Of(3, [code |-> Col(1 .. 4)], {}, <<>>),
    c |-> Of(1, [ref |-> Col({1})], {}, <<Ref("ref", "p", "code")>>)]}

(* Rules the validation or the pools refuse.                               *)
Refusals ==
  {[p |-> Parent(2, {1, 2}), c |-> Of(2, [ref |-> [Col({1}) EXCEPT !.pinned = {7}]], {}, <<Ref("ref", "p", "id")>>)],
   [p |-> Of(2, [id |-> Col({1, 2})], {}, <<Ref("id", "c", "ref")>>),
    c |-> Of(2, [ref |-> Col({1})], {}, <<Ref("ref", "p", "id")>>)],
   [p |-> Of(3, [id |-> Text({1, 2})], {"id"}, <<>>),
    c |-> Of(2, [ref |-> Col({1})], {}, <<Ref("ref", "p", "id")>>)],
   [c |-> Of(2, [ref |-> Col({1})], {}, <<Ref("ref", "p", "id")>>)]}

Pinnings ==
  {[p |-> Of(2, [a |-> [Col({1, 2}) EXCEPT !.pinned = {5, 6}], b |-> Col({1, 2})], {"a", "b"}, <<>>)]}

MCSchemas == Chains \cup Pairs \cup Derivations \cup Alternatives \cup Refusals \cup Pinnings
===============================================================================
