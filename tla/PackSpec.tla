------------------------------ MODULE PackSpec ------------------------------
(***************************************************************************)
(* The abstract packing service: a caller asks, the library answers in one *)
(* step with what PackContract promises, and the caller takes the answer.  *)
(***************************************************************************)
EXTENDS PackContract

VARIABLES request, answer

NoAnswer == Revert("pending")
NoCall   == [fn |-> "none", c |-> 0, e |-> 0, exact |-> TRUE]

Init == request = NoCall /\ answer = NoAnswer

Ask == /\ request = NoCall
       /\ request' \in [fn : {"packLossy", "packLossless", "packArithmeticResult"},
                        c : Coef, e : Int, exact : BOOLEAN]
       /\ UNCHANGED answer

(***************************************************************************)
(* fromFixedDecimalLosslessPacked refuses a number it had to round before  *)
(* packing it at all.                                                      *)
(***************************************************************************)
Answer == /\ request # NoCall /\ answer = NoAnswer
          /\ answer' = IF request.fn = "packLossless" /\ ~request.exact
                         THEN Revert("LossyConversionToFloat")
                         ELSE Finalise(request.fn,
                                PackLossy(request.c, request.e), request.exact)
          /\ UNCHANGED request

Take == answer # NoAnswer /\ request' = NoCall /\ answer' = NoAnswer

Next == Ask \/ Answer \/ Take
Spec == Init /\ [][Next]_<<request, answer>> /\ WF_<<request, answer>>(Answer)
=============================================================================
