--------------------------- MODULE MaximizeFloat ---------------------------
(***************************************************************************)
(* maximize of LibDecimalFloatImplementation, stage by stage.  Each stage  *)
(* multiplies by a power of ten if the coefficient has room for it and the *)
(* exponent can give it: 10^38, 10^19, 10^10 once each, 10^2 as often as   *)
(* possible, 10^1 once; the last stage tries one digit more and keeps it   *)
(* if it did not wrap.                                                     *)
(***************************************************************************)
EXTENDS MaximizeContract, Sequences

CONSTANTS
  Stages,        \* <<38, 19, 10>>, the stages taken at most once
  Coefficients,  \* the inputs: a subset of Coef
  Exponents      \* and of Exp

ASSUME StagesAssumption ==
  /\ Stages \in Seq(1..D)
  /\ Coefficients \subseteq Coef /\ Exponents \subseteq Exp

VARIABLES
  pc,      \* "idle", "stages", "pairs", "one", "try", "done"
  next,    \* the stage to take next, while pc = "stages"
  call,    \* the arguments
  c, e,    \* signedCoefficient and exponent
  full     \* the third result

vars == <<pc, next, call, c, e, full>>

Init == /\ pc = "idle" /\ next = 1 /\ call = <<0, 0>>
        /\ c = 0 /\ e = 0 /\ full = FALSE

(***************************************************************************)
(* Mutant of Room: one digit too many.                                     *)
(***************************************************************************)
RoomOneTooMany(k) == Quot(c, Pow10[D - k + 1]) = 0 /\ e >= ExpMin + k

(***************************************************************************)
(* Room for k more digits, and taking them.                                *)
(***************************************************************************)
Room(k) == Quot(c, Pow10[D - k]) = 0 /\ e >= ExpMin + k
Gain(k) == c' = WrapCoef(c * Pow10[k]) /\ e' = e - k
GainIfRoom(k) == IF Room(k) THEN Gain(k) ELSE UNCHANGED <<c, e>>

Enter(coefficient, exponent) ==
  /\ pc = "idle"
  /\ call' = <<coefficient, exponent>>
  /\ c' = coefficient /\ next' = 1
  /\ CASE coefficient = 0    -> pc' = "done" /\ e' = 0 /\ full' = TRUE
       [] IsFull(coefficient) -> pc' = "try" /\ e' = exponent /\ UNCHANGED full
       [] OTHER              -> pc' = "stages" /\ e' = exponent /\ UNCHANGED full

OnceStage == /\ pc = "stages" /\ next <= Len(Stages)
             /\ GainIfRoom(Stages[next]) /\ next' = next + 1
             /\ UNCHANGED <<pc, call, full>>

LeaveStages == /\ pc = "stages" /\ next > Len(Stages) /\ pc' = "pairs"
               /\ UNCHANGED <<next, call, c, e, full>>

(***************************************************************************)
(* Mutant of PairStage: the multiplied coefficient is not stored.          *)
(***************************************************************************)
PairStageNotStored == pc = "pairs" /\ Room(2) /\ UNCHANGED vars

PairStage == /\ pc = "pairs" /\ Room(2) /\ Gain(2)
             /\ UNCHANGED <<pc, next, call, full>>

LeavePairs == /\ pc = "pairs" /\ ~Room(2) /\ pc' = "one"
              /\ UNCHANGED <<next, call, c, e, full>>

OneStage == /\ pc = "one" /\ pc' = "try" /\ GainIfRoom(1)
            /\ UNCHANGED <<next, call, full>>

TryOneMore ==
  LET try  == WrapCoef(c * 10)
      more == c = Quot(try, 10) /\ e >= ExpMin + 1
  IN  /\ pc = "try" /\ pc' = "done"
      /\ IF more THEN c' = try /\ e' = e - 1 ELSE UNCHANGED <<c, e>>
      /\ full' = IsFull(c')
      /\ UNCHANGED <<next, call>>

TakeResult == /\ pc = "done" /\ pc' = "idle"
              /\ call' = <<0, 0>> /\ next' = 1 /\ c' = 0 /\ e' = 0 /\ full' = FALSE

Steps == \/ OnceStage \/ LeaveStages \/ PairStage \/ LeavePairs
         \/ OneStage \/ TryOneMore

Next == \/ \E coefficient \in Coefficients, exponent \in Exponents :
             Enter(coefficient, exponent)
        \/ Steps \/ TakeResult

(***************************************************************************)
(* An entered call runs to its end: it is one EVM execution.               *)
(***************************************************************************)
Spec == Init /\ [][Next]_vars /\ WF_vars(Steps)

-----------------------------------------------------------------------------

(***************************************************************************)
(* The stages find the maximum whatever mixture of digits and exponent     *)
(* headroom they start from: no digit that fits and that the exponent can  *)
(* give is left out by the coarse stages, and the number is unchanged.     *)
(***************************************************************************)
ReachesMaximum ==
  pc = "done" => [c |-> c, e |-> e, full |-> full] = Maximize(call[1], call[2])

(***************************************************************************)
(* Every call ends: the loop of two digits stops.                          *)
(***************************************************************************)
CallReturns == pc # "idle" ~> pc = "done"
=============================================================================
