-------------------------- MODULE MaximizeContract --------------------------
(***************************************************************************)
(* What maximizing a coefficient promises: the coefficient gains as many   *)
(* digits as int256 holds and the exponent can give, and the number does   *)
(* not change.  MaximizeFloat shows that the stages of the code do this.   *)
(***************************************************************************)
EXTENDS DecimalWidths

(***************************************************************************)
(* k more digits fit the coefficient and can be taken from the exponent.   *)
(***************************************************************************)
CanGain(c, e, k) == c * Pow10[k] \in Coef /\ e - k >= ExpMin

DigitsToGain(c, e) == CHOOSE k \in 0..D : /\ CanGain(c, e, k)
                                          /\ ~CanGain(c, e, k + 1)

IsFull(c) == Quot(c, Pow10[D - 1]) # 0

Maximize(c, e) ==
  IF c = 0 THEN [c |-> 0, e |-> 0, full |-> TRUE]
  ELSE LET k == DigitsToGain(c, e)
       IN  [c |-> c * Pow10[k], e |-> e - k, full |-> IsFull(c * Pow10[k])]
=============================================================================
