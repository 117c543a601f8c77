------------------------------- MODULE Floats -------------------------------
(***************************************************************************)
(* Python's floats as far as a comparison, a minimum and the sign of a sum *)
(* can tell them apart: the finite ones are integers (multiples of a unit, *)
(* exact), and there are the two infinities and not-a-number.  A           *)
(* comparison with not-a-number is false either way round, so what min     *)
(* returns depends on where it stands.                                     *)
(***************************************************************************)
EXTENDS Integers, SequencesExt

CONSTANTS NaN, PosInf, NegInf

Number == Int \cup {PosInf, NegInf}
Float == Number \cup {NaN}

ASSUME FloatsAssumption ==
    /\ {NaN, PosInf, NegInf} \cap Int = {}
    /\ NaN # PosInf /\ NaN # NegInf /\ PosInf # NegInf

\* x < y
Lower(x, y) ==
    /\ x # NaN /\ y # NaN /\ x # y
    /\ x = NegInf \/ y = PosInf \/ (x \in Int /\ y \in Int /\ x < y)

\* min(x, y): the first unless the second is lower.
Lesser(x, y) == IF Lower(y, x) THEN y ELSE x

\* The running minimum of xs, begun at x.
Lowest(x, xs) == FoldLeft(Lesser, x, xs)

\* min(xs, default=inf): begun at the first.
LowestOf(xs) == IF xs = <<>> THEN PosInf ELSE Lowest(xs[1], xs)
=============================================================================
