------------------------------ MODULE IbltDiffMC ------------------------------
EXTENDS IbltDiff

(* Rows 1 to 4; a hash word has a low bit, which alone places a row when a *)
(* subtable has two cells, and a high bit that is fixed.                   *)
High(r, j) == IF (r + j) % 2 = 0 THEN {1} ELSE {}
Words(rows) ==
  {[r \in Rows |-> [j \in 1 .. Subtables |->
      High(r, j) \cup (IF <<r, j>> \in low THEN {0} ELSE {})]] :
     low \in SUBSET (rows \X (1 .. Subtables))}

(* No two rows share every cell.                                           *)
Apart(word, rows) ==
  \A r, s \in rows : r # s => \E j \in 1 .. Subtables : word[r][j] # word[s][j]

Placed(net) ==
  LET rows == {r \in Rows : net[r] # 0}
  IN  {w \in Words(rows \ {1}) : Apart(w, rows)}

(* A modified row and one that is missing on the right.                    *)
KeyedSamples ==
  LET net == <<1, -1, 1, 0>>
  IN  {[net |-> net, key |-> <<{0}, {0}, {1}, {}>>, word |-> w] : w \in Placed(net)}

(* Without a key: contents that one side has two more of; contents that    *)
(* each side has one more of, some of them with the same hash prefix.      *)
KeylessSamples ==
  UNION {{[net |-> net, key |-> [r \in Rows |-> w[r][1]], word |-> w] : w \in Placed(net)} :
           net \in {<<2, 1, -1, 0>>, <<1, 1, 0, -1>>}}

AllSamples == KeyedSamples \cup KeylessSamples
Mode(keyed, auto, strict, recheck) ==
  [keyed |-> keyed, auto |-> auto, strict |-> strict, recheck |-> recheck]
AllModes == {Mode(TRUE, TRUE, FALSE, TRUE), Mode(TRUE, FALSE, TRUE, FALSE),
             Mode(FALSE, FALSE, FALSE, FALSE)}
KeyedModes == {Mode(TRUE, auto, FALSE, FALSE) : auto \in BOOLEAN}
==============================================================================
