---------------------------- MODULE MCPackFloat ----------------------------
(***************************************************************************)
(* Small widths that keep the order of the real limits and powers of ten,  *)
(* and the inputs around every limit.                                      *)
(***************************************************************************)
EXTENDS PackFloat, TLC

MCPow10 == [n \in 0..(D + 1) |->
              CASE n = 0 -> 1 [] n = 1 -> 10 [] n = 2 -> 100
                [] n = 3 -> 1000 [] n = 4 -> 10000 [] n = 5 -> 100000]

Around(x, r) == (x - r)..(x + r)

(***************************************************************************)
(* Every boundary of packLossy: zero, int224's limits and ten times them,  *)
(* the threshold of the jump and int256's limits, both signs.              *)
(***************************************************************************)
Edges == UNION {Around(x, 2) : x \in
  {0, PackMax, 10 * PackMax + 9, 100 * PackMax + 99, Pow10[PackD + Jump], Pow10[D]}}
MCCoefficients == Edges \cup {-x : x \in Edges} \cup {CoefMin, CoefMin + 1, CoefMax}

(***************************************************************************)
(* Exponents around int32's limits and at the ends of int256, where        *)
(* raising them wraps.                                                     *)
(***************************************************************************)
MCExponents == Around(PackExpMin, D + 2) \cup {0} \cup Around(PackExpMax, 2)
               \cup {ExpMin} \cup (ExpMax - D - 1)..ExpMax

MCValues == {0, 1, PackMax, PackMax + 1} \cup Around(Pow10[D], 1)
            \cup Around(CoefMax, 12) \cup {UintMax - 7, UintMax}
MCDecimals == {0, 1, 2, PackExpMax, PackExpMax + 3, PackExpMax + D + 1}

-----------------------------------------------------------------------------

(***************************************************************************)
(* What a comment says of packing, where the code differs.                 *)
(***************************************************************************)

(***************************************************************************)
(* "True if the conversion was lossless" (packLossy): an exact conversion  *)
(* is reported as lossless.  The flag is decided before the loop, so a     *)
(* coefficient that only loses trailing zeros is reported as lossy.        *)
(***************************************************************************)
ExactIsReportedLossless ==
  Succeeded /\ call.fn = "packLossy" /\ SameNumber(result.c, result.e, given[1], given[2])
    => result.lossless
=============================================================================
