------------------------------ MODULE KeyRange ------------------------------
(***************************************************************************)
(* The integer arithmetic by which HashDiffer cuts a key domain [lo, hi)   *)
(* into segments.  Keys are i64 in the code; here they are the two's       *)
(* complement integers -MaxInt-1 .. MaxInt, and every operation wraps the  *)
(* way a release build does (Cargo.toml sets no overflow checks).          *)
(***************************************************************************)
EXTENDS Integers, FiniteSetsExt

CONSTANT MaxInt      \* i64::MAX

ASSUME MaxIntAssumption == MaxInt \in Nat \ {0}

Modulus == 2 * (MaxInt + 1)

Int64 == (-MaxInt - 1) .. MaxInt

Wrap(x) == ((x + MaxInt + 1) % Modulus) - MaxInt - 1

(* `(hi - lo) as u128': the i64 difference, sign-extended. *)
Span(lo, hi) == Wrap(hi - lo) % (Modulus * Modulus)

(* Number of segments: n, clamped to `span as usize' and to at least 1. *)
Pieces(lo, hi, n) == Max({1, Min({n, Span(lo, hi) % Modulus})})

(* Upper end proposed for the i-th piece; the last one is hi itself. *)
BoundShort(lo, hi, m, i) == Wrap(lo + Wrap((Span(lo, hi) \div m) * i))
Bound(lo, hi, m, i) ==
  IF i = m THEN hi ELSE Wrap(lo + Wrap((Span(lo, hi) \div m) * i))

(* Where the loop's cursor `cur' stands when it looks at piece i: it only  *)
(* ever moves up, to each bound that passes it.                            *)
Cursor(lo, hi, m, i) == Max({lo} \cup {Bound(lo, hi, m, j) : j \in 1 .. i - 1})

(* The segments pushed by the loop, as pairs <<from, to>> meaning [from,   *)
(* to).  Their order is the order of `from'.                               *)
SplitRange(lo, hi, n) ==
  IF hi <= lo \/ n = 0 THEN {}
  ELSE LET m == Pieces(lo, hi, n)
       IN  {<<Cursor(lo, hi, m, i), Bound(lo, hi, m, i)>> :
              i \in {p \in 1 .. m : Bound(lo, hi, m, p) > Cursor(lo, hi, m, p)}}
=============================================================================
