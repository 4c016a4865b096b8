------------------------ MODULE MaximizeFloatProofs ------------------------
(***************************************************************************)
(* For every width and every list of stages: maximize gains every digit    *)
(* that the coefficient and the exponent have room for, and never changes  *)
(* the number, though its last step multiplies unchecked.                  *)
(***************************************************************************)
EXTENDS MaximizeFloat, FloatImplementationProofs

-----------------------------------------------------------------------------
(***************************************************************************)
(* Room for digits.                                                        *)
(***************************************************************************)

(***************************************************************************)
(* The code's tests for room divide by a power of ten: a zero quotient is  *)
(* a smaller magnitude.                                                    *)
(***************************************************************************)
LEMMA BelowPower ==
  ASSUME NEW x \in Int, NEW i \in 0..(D + 1)
  PROVE  Quot(x, Pow10[i]) = 0 <=> Abs(x) < Pow10[i]
<1>1. Pow10[i] \in Nat /\ Pow10[i] >= 1
  BY Pow10Grows
<1> QED BY <1>1, QuotShrinks

(***************************************************************************)
(* A coefficient with room for n digits takes them without wrapping.       *)
(***************************************************************************)
LEMMA RoomIsEnough ==
  ASSUME NEW x \in Int, NEW n \in 1..D, Quot(x, Pow10[D - n]) = 0
  PROVE  /\ Abs(x) < Pow10[D - n]
         /\ x * Pow10[n] \in Coef
         /\ WrapCoef(x * Pow10[n]) = x * Pow10[n]
<1>1. /\ D \in Nat /\ n \in 0..(D + 1) /\ D - n \in 0..(D + 1) /\ D - n + n = D
      /\ Pow10[D] <= CoefMax /\ CoefMax \in Nat
  BY PowersOfCoef
<1>2. Pow10[n] \in Nat /\ Pow10[n] >= 1 /\ Pow10[D - n] \in Nat
  BY <1>1, Pow10Grows
<1>3. Pow10[D] = Pow10[D - n] * Pow10[n]
  <2>1. D - n + n <= D + 1
    BY <1>1
  <2> QED BY <1>1, <2>1, Pow10Def
<1>4. Abs(x) < Pow10[D - n] /\ Abs(x) \in Nat
  BY <1>1, BelowPower, CoefMagnitude
<1>5. Abs(x) * Pow10[n] <= Pow10[D - n] * Pow10[n]
  <2>1. Pow10[n] * Abs(x) <= Pow10[n] * Pow10[D - n]
    BY <1>2, <1>4, TimesGrows
  <2> QED BY <1>2, <1>4, <2>1
<1>6. x * Pow10[n] \in Int /\ Abs(x * Pow10[n]) = Abs(x) * Pow10[n]
  BY <1>2, TimesMagnitude
<1>7. x * Pow10[n] \in Coef
  <2>1. Abs(x * Pow10[n]) <= CoefMax
    BY <1>1, <1>2, <1>3, <1>4, <1>5, <1>6
  <2> QED BY <1>6, <2>1, CoefMagnitude
<1>8. WrapCoef(x * Pow10[n]) = x * Pow10[n]
  BY <1>1, <1>7, WrapKeepsType DEF WrapCoef, Coef, CoefMin
<1> QED BY <1>4, <1>7, <1>8

(***************************************************************************)
(* The last step multiplies unchecked and divides back: it gets back what  *)
(* it had just where the product fits.                                     *)
(***************************************************************************)
LEMMA TenDividesBack ==
  ASSUME NEW x \in Int
  PROVE  /\ x * 10 \in Coef => WrapCoef(x * 10) = x * 10
         /\ x = Quot(WrapCoef(x * 10), 10) <=> x * 10 \in Coef
<1>1. 10 \in Nat /\ 10 >= 1 /\ 10 <= CoefMax
  BY PowersOfCoef
<1> QED BY <1>1, DividingBackFindsWrap, Zenon

-----------------------------------------------------------------------------
(***************************************************************************)
(* The contract's number of digits.                                        *)
(***************************************************************************)

(***************************************************************************)
(* Where many digits can be gained, fewer can.                             *)
(***************************************************************************)
LEMMA FewerCanBeGained ==
  ASSUME NEW x \in Int, NEW y \in Int, NEW i \in 0..(D + 1), NEW j \in 0..(D + 1), i <= j,
         CanGain(x, y, j)
  PROVE  CanGain(x, y, i)
<1>1. /\ Pow10[i] \in Nat /\ Pow10[j] \in Nat /\ Pow10[i] <= Pow10[j]
      /\ i \in Int /\ j \in Int /\ ExpMin \in Int /\ CoefMax \in Nat
  BY Pow10Grows, PowersOfCoef, Widths DEF ExpMin
<1>2. CASE x >= 0
  <2>1. x * Pow10[i] <= x * Pow10[j] /\ x * Pow10[i] >= 0
    BY <1>1, <1>2, TimesGrows
  <2> QED BY <1>1, <2>1 DEF CanGain, Coef, CoefMin
<1>3. CASE x < 0
  <2>1. (-x) * Pow10[i] <= (-x) * Pow10[j] /\ (-x) * Pow10[i] >= 0
    BY <1>1, <1>3, TimesGrows
  <2>2. x * Pow10[i] = -((-x) * Pow10[i]) /\ x * Pow10[j] = -((-x) * Pow10[j])
    BY <1>1
  <2> QED BY <1>1, <2>1, <2>2 DEF CanGain, Coef, CoefMin
<1> QED BY <1>2, <1>3

(***************************************************************************)
(* So a number of digits with no more to gain is the contract's.           *)
(***************************************************************************)
LEMMA GainIsUnique ==
  ASSUME NEW x \in Int, NEW y \in Int, NEW k \in 0..D,
         CanGain(x, y, k), ~CanGain(x, y, k + 1)
  PROVE  DigitsToGain(x, y) = k
<1>1. D \in Nat
  BY WidthsAreInts
<1>2. ASSUME NEW i \in 0..D, CanGain(x, y, i), ~CanGain(x, y, i + 1)
      PROVE  i = k
  <2>1. /\ i \in 0..(D + 1) /\ k \in 0..(D + 1)
        /\ i + 1 \in 0..(D + 1) /\ k + 1 \in 0..(D + 1)
    BY <1>1
  <2>2. ~(i + 1 <= k)
    BY <1>2, <2>1, FewerCanBeGained
  <2>3. ~(k + 1 <= i)
    BY <1>2, <2>1, FewerCanBeGained
  <2> QED BY <1>1, <2>2, <2>3
<1> QED BY <1>2 DEF DigitsToGain

-----------------------------------------------------------------------------
(***************************************************************************)
(* The inductive invariant: at every place k digits have been gained and   *)
(* the exponent lowered by k, and behind each stage there is no room left  *)
(* for the digits that it could have taken.                                *)
(***************************************************************************)
Gained(k) == /\ c = call[1] * Pow10[k] /\ e = call[2] - k
             /\ c \in Coef /\ e \in Int /\ e >= ExpMin

GainsDigits ==
  /\ pc \in {"idle", "stages", "pairs", "one", "try", "done"}
  /\ next \in Nat \ {0}
  /\ pc # "idle" => call \in Coef \X Exp
  /\ pc \in {"stages", "pairs", "one", "try"} =>
       call[1] # 0 /\ \E k \in 0..D : Gained(k)
  /\ pc = "one" => ~Room(2)
  /\ pc = "try" => ~Room(1)
  /\ ReachesMaximum

(***************************************************************************)
(* Where k digits have been gained and there is room for n, k + n can be.  *)
(***************************************************************************)
LEMMA GainedMore ==
  ASSUME NEW n \in 1..D, Room(n), Gain(n), UNCHANGED call,
         call \in Coef \X Exp, call[1] # 0, NEW k \in 0..D, Gained(k)
  PROVE  /\ k + n \in 0..D
         /\ Gained(k + n)'
         /\ c' = c * Pow10[n] /\ e' = e - n
<1>1. /\ D \in Nat /\ n \in Int /\ k \in Int /\ D - n \in 0..(D + 1) /\ k \in 0..(D + 1)
      /\ n \in 0..(D + 1) /\ ExpMin \in Int
  BY PowersOfCoef, Widths DEF ExpMin
<1>2. /\ call[1] \in Int /\ call[2] \in Int /\ c \in Int /\ e \in Int
      /\ e >= ExpMin + n /\ Quot(c, Pow10[D - n]) = 0
  BY Widths DEF Coef, CoefMin, Exp, ExpMin, Gained, Room
<1>3. Pow10[k] \in Nat /\ Pow10[k] >= 1 /\ Pow10[n] \in Nat /\ Pow10[D - n] \in Nat
  BY <1>1, Pow10Grows
<1>4. /\ Abs(c) < Pow10[D - n] /\ c * Pow10[n] \in Coef
      /\ WrapCoef(c * Pow10[n]) = c * Pow10[n]
  BY <1>2, RoomIsEnough
<1>5. Pow10[k] <= Abs(c)
  <2>1. Abs(c) = Abs(call[1]) * Pow10[k]
    BY <1>2, <1>3, TimesMagnitude DEF Gained
  <2>2. Abs(call[1]) \in Nat /\ 1 <= Abs(call[1])
    BY <1>2 DEF Abs
  <2>3. Pow10[k] * 1 <= Pow10[k] * Abs(call[1])
    BY <1>3, <2>2, TimesGrows
  <2> QED BY <1>3, <2>1, <2>2, <2>3
<1>6. k + n <= D
  <2>1. Abs(c) \in Nat
    BY <1>2, CoefMagnitude
  <2>2. ~(D - n <= k)
    BY <1>1, <1>3, <1>4, <1>5, <2>1, Pow10Grows
  <2> QED BY <1>1, <2>2
<1>7. c' = c * Pow10[n] /\ e' = e - n
  BY <1>4 DEF Gain
<1>8. c * Pow10[n] = call[1] * Pow10[k + n]
  <2>1. Pow10[k + n] = Pow10[k] * Pow10[n]
    <3>1. k + n <= D + 1
      BY <1>1, <1>6
    <3> QED BY <1>1, <3>1, Pow10Def
  <2>2. (call[1] * Pow10[k]) * Pow10[n] = call[1] * (Pow10[k] * Pow10[n])
    BY <1>2, <1>3
  <2> QED BY <2>1, <2>2 DEF Gained
<1>9. e - n = call[2] - (k + n) /\ e - n >= ExpMin /\ e - n \in Int
  BY <1>1, <1>2 DEF Gained
<1> QED BY <1>1, <1>4, <1>6, <1>7, <1>8, <1>9 DEF Gained

(***************************************************************************)
(* A stage that gains if there is room keeps what has been gained.         *)
(***************************************************************************)
LEMMA GainedIfRoom ==
  ASSUME NEW n \in 1..D, GainIfRoom(n), UNCHANGED call,
         call \in Coef \X Exp, call[1] # 0, \E k \in 0..D : Gained(k)
  PROVE  \E k \in 0..D : Gained(k)'
<1>1. PICK k \in 0..D : Gained(k)
  OBVIOUS
<1>2. CASE Room(n)
  BY <1>1, <1>2, GainedMore DEF GainIfRoom
<1>3. CASE ~Room(n)
  BY <1>1, <1>3 DEF GainIfRoom, Gained
<1> QED BY <1>2, <1>3

-----------------------------------------------------------------------------
(***************************************************************************)
(* The steps.                                                              *)
(***************************************************************************)

(***************************************************************************)
(* After the stage of one digit there is no room for one: before it there  *)
(* was none for two.                                                       *)
(***************************************************************************)
LEMMA OneStageLeavesNoRoom ==
  ASSUME NEW k \in 0..D, Gained(k), call \in Coef \X Exp, call[1] # 0,
         ~Room(2), GainIfRoom(1), UNCHANGED call
  PROVE  ~Room(1)'
<1>1. CASE ~Room(1)
  BY <1>1 DEF GainIfRoom, Room
<1>2. CASE Room(1)
  <2>1. 1 \in 1..D /\ Pow10[1] = 10
    BY PowersOfCoef, Pow10Def
  <2>2. c' = c * 10 /\ e' = e - 1
    <3>1. Gain(1)
      BY <1>2 DEF GainIfRoom
    <3> QED BY <1>2, <2>1, <3>1, GainedMore
  <2>3. c \in Int /\ e \in Int /\ ExpMin \in Int
    BY Widths DEF Gained, Coef, CoefMin, ExpMin
  <2>4. CASE ~(e >= ExpMin + 2)
    BY <2>2, <2>3, <2>4 DEF Room
  <2>5. CASE Quot(c, Pow10[D - 2]) # 0
    <3>1. ~(Abs(c) < Pow10[D - 2]) /\ Abs(c) \in Nat
      BY <2>3, <2>5, PowersOfCoef, BelowPower, CoefMagnitude
    <3>2. Abs(c * 10) = Abs(c) * 10 /\ c * 10 \in Int
      BY <2>3, TimesMagnitude
    <3>3. ~(Abs(c * 10) < Pow10[D - 1])
      BY <3>1, <3>2, PowersOfCoef
    <3>4. Quot(c * 10, Pow10[D - 1]) # 0
      BY <3>2, <3>3, PowersOfCoef, BelowPower
    <3> QED BY <2>2, <3>4 DEF Room
  <2> QED BY <2>4, <2>5 DEF Room
<1> QED BY <1>1, <1>2

(***************************************************************************)
(* The last attempt ends at the maximum.                                   *)
(***************************************************************************)
LEMMA LastDigit ==
  ASSUME NEW k \in 0..D, Gained(k), call \in Coef \X Exp, call[1] # 0,
         ~Room(1), TryOneMore
  PROVE  ReachesMaximum'
<1> DEFINE x == call[1]
           y == call[2]
           more == c = Quot(WrapCoef(c * 10), 10) /\ e >= ExpMin + 1
<1>1. /\ x \in Int /\ y \in Int /\ c \in Int /\ c \in Coef /\ e \in Int /\ e >= ExpMin
      /\ c = x * Pow10[k] /\ e = y - k /\ ExpMin \in Int /\ x # 0
      /\ D \in Nat /\ k \in 0..(D + 1) /\ k + 1 \in 0..(D + 1) /\ k \in Int
  BY PowersOfCoef, Widths DEF Coef, CoefMin, Exp, ExpMin, Gained
<1>2. Pow10[k + 1] = Pow10[k] * 10 /\ Pow10[k] \in Nat /\ Pow10[k] >= 1
  BY <1>1, NextPower
<1>3. x * Pow10[k + 1] = c * 10 /\ c * 10 \in Int
  <2>1. x * (Pow10[k] * 10) = (x * Pow10[k]) * 10
    BY <1>1, <1>2
  <2> QED BY <1>1, <1>2, <2>1
<1>4. more <=> CanGain(x, y, k + 1)
  <2>1. c = Quot(WrapCoef(c * 10), 10) <=> c * 10 \in Coef
    BY <1>1, TenDividesBack
  <2>2. e >= ExpMin + 1 <=> y - (k + 1) >= ExpMin
    BY <1>1
  <2> QED BY <1>3, <2>1, <2>2 DEF CanGain
<1>5. CanGain(x, y, k)
  BY <1>1 DEF CanGain
<1>6. /\ call' = call
      /\ more => c' = WrapCoef(c * 10) /\ e' = e - 1
      /\ ~more => c' = c /\ e' = e
      /\ full' = IsFull(c')
  BY DEF TryOneMore
<1>7. ASSUME NEW j \in 0..D, DigitsToGain(x, y) = j, c' = x * Pow10[j], e' = y - j
      PROVE  [c |-> c', e |-> e', full |-> full'] = Maximize(call'[1], call'[2])
  BY <1>1, <1>6, <1>7 DEF Maximize
<1>8. CASE ~more
  BY <1>1, <1>4, <1>5, <1>6, <1>7, <1>8, GainIsUnique DEF ReachesMaximum
<1>9. CASE more
  <2>1. c * 10 \in Coef /\ c' = c * 10 /\ e' = e - 1 /\ e - 1 = y - (k + 1)
    BY <1>1, <1>3, <1>4, <1>6, <1>9, TenDividesBack DEF CanGain
  <2>2. k + 1 \in 0..D
    <3>1. Abs(x) \in Nat /\ 1 <= Abs(x)
      BY <1>1 DEF Abs
    <3>2. Pow10[k + 1] \in Nat /\ Pow10[k + 1] >= 1
      BY <1>1, Pow10Grows
    <3>3. Abs(x * Pow10[k + 1]) = Abs(x) * Pow10[k + 1]
      BY <1>1, <3>2, TimesMagnitude
    <3>4. Pow10[k + 1] * 1 <= Pow10[k + 1] * Abs(x)
      BY <3>1, <3>2, TimesGrows
    <3>5. Abs(x * Pow10[k + 1]) <= CoefMax + 1
      BY <1>3, <2>1, CoefMagnitude
    <3>6. k + 1 # D + 1
      BY <3>1, <3>2, <3>3, <3>4, <3>5, PowersOfCoef
    <3> QED BY <1>1, <3>6
  <2>3. ~CanGain(x, y, k + 1 + 1)
    <3>1. k + 1 + 1 \in 0..(D + 1)
      BY <1>1, <2>2
    <3>2. Pow10[k + 1 + 1] = Pow10[k + 1] * 10 /\ Pow10[k + 1] \in Nat
      BY <1>1, <3>1, NextPower
    <3>3. x * Pow10[k + 1 + 1] = (c * 10) * 10 /\ (c * 10) * 10 \in Int
      <4>1. x * (Pow10[k + 1] * 10) = (x * Pow10[k + 1]) * 10
        BY <1>1, <3>2
      <4> QED BY <1>3, <3>2, <4>1
    <3>4. Quot(c, Pow10[D - 1]) # 0
      BY <1>9 DEF Room
    <3>5. ~(Abs(c) < Pow10[D - 1]) /\ Abs(c) \in Nat
      BY <1>1, <3>4, PowersOfCoef, BelowPower, CoefMagnitude
    <3>6. Abs((c * 10) * 10) = (Abs(c) * 10) * 10
      <4>1. 10 \in Nat /\ 10 >= 1 /\ c * 10 \in Int
        BY <1>3
      <4>2. Abs(c * 10) = Abs(c) * 10 /\ Abs((c * 10) * 10) = Abs(c * 10) * 10
        BY <1>1, <4>1, TimesMagnitude, Zenon
      <4> QED BY <4>2
    <3>7. ~(Abs((c * 10) * 10) <= CoefMax + 1)
      BY <3>5, <3>6, PowersOfCoef
    <3>8. (c * 10) * 10 \notin Coef
      BY <3>3, <3>7, CoefMagnitude
    <3> QED BY <3>3, <3>8 DEF CanGain
  <2>4. DigitsToGain(x, y) = k + 1
    BY <1>1, <1>4, <1>9, <2>2, <2>3, GainIsUnique
  <2> QED BY <1>3, <1>7, <2>1, <2>2, <2>4 DEF ReachesMaximum
<1> QED BY <1>8, <1>9

(***************************************************************************)
(* Every step keeps the invariant.                                         *)
(***************************************************************************)
LEMMA NextGainsDigits == GainsDigits /\ [Next]_vars => GainsDigits'
<1> SUFFICES ASSUME GainsDigits, [Next]_vars PROVE GainsDigits'
  OBVIOUS
<1> USE DEF GainsDigits
<1>0. /\ D \in Nat /\ Pow10[0] = 1 /\ 1 \in 1..D /\ 2 \in 1..D /\ ExpMin \in Int
  BY PowersOfCoef, Pow10Def, Widths DEF ExpMin
<1>1. ASSUME NEW coefficient \in Coefficients, NEW exponent \in Exponents,
             Enter(coefficient, exponent)
      PROVE  GainsDigits'
  <2>1. /\ coefficient \in Coef /\ exponent \in Exp
        /\ coefficient \in Int /\ exponent \in Int /\ exponent >= ExpMin
    BY StagesAssumption, Widths DEF Coef, CoefMin, Exp, ExpMin
  <2>2. call' = <<coefficient, exponent>> /\ c' = coefficient /\ next' = 1
    BY <1>1 DEF Enter
  <2>3. CASE coefficient = 0
    <3>1. ~IsFull(coefficient)
      <4>1. Abs(coefficient) < Pow10[D - 1]
        BY <2>3, PowersOfCoef DEF Abs
      <4> QED BY <2>1, <4>1, PowersOfCoef, BelowPower DEF IsFull
    <3>2. pc' = "done" /\ e' = 0 /\ full' = TRUE
      BY <1>1, <2>3, <3>1 DEF Enter
    <3> QED BY <2>1, <2>2, <2>3, <3>2 DEF ReachesMaximum, Maximize
  <2>4. CASE coefficient # 0
    <3>1. e' = exponent /\ pc' \in {"try", "stages"}
          /\ (pc' = "try" => IsFull(coefficient))
      BY <1>1, <2>4 DEF Enter
    <3>2. Gained(0)'
      BY <1>0, <2>1, <2>2, <3>1 DEF Gained
    <3>3. pc' = "try" => ~Room(1)'
      BY <2>2, <3>1 DEF Room, IsFull
    <3> QED BY <1>0, <2>1, <2>2, <2>4, <3>1, <3>2, <3>3 DEF ReachesMaximum
  <2> QED BY <2>3, <2>4
<1>2. CASE OnceStage
  <2>1. Stages[next] \in 1..D
    <3>1. next \in Nat /\ next >= 1 /\ next <= Len(Stages)
      BY <1>2 DEF OnceStage
    <3>2. Stages \in Seq(1..D) /\ Len(Stages) \in Nat
      BY StagesAssumption
    <3>3. next \in 1..Len(Stages)
      BY <3>1, <3>2
    <3>4. \A S : \A s \in Seq(S) : \A i \in 1..Len(s) : s[i] \in S
      OBVIOUS
    <3> QED BY <3>2, <3>3, <3>4, Zenon
  <2>2. \E k \in 0..D : Gained(k)'
    BY <1>2, <2>1, GainedIfRoom DEF OnceStage
  <2> QED BY <1>2, <2>2 DEF OnceStage, ReachesMaximum
<1>3. CASE LeaveStages
  BY <1>3 DEF LeaveStages, ReachesMaximum, Gained
<1>4. CASE PairStage
  <2>1. GainIfRoom(2)
    BY <1>4 DEF PairStage, GainIfRoom
  <2>2. \E k \in 0..D : Gained(k)'
    BY <1>0, <1>4, <2>1, GainedIfRoom DEF PairStage
  <2> QED BY <1>4, <2>2 DEF PairStage, ReachesMaximum
<1>5. CASE LeavePairs
  BY <1>5 DEF LeavePairs, ReachesMaximum, Gained, Room
<1>6. CASE OneStage
  <2>1. \E k \in 0..D : Gained(k)'
    BY <1>0, <1>6, GainedIfRoom DEF OneStage
  <2>2. ~Room(1)'
    BY <1>6, OneStageLeavesNoRoom DEF OneStage
  <2> QED BY <1>6, <2>1, <2>2 DEF OneStage, ReachesMaximum
<1>7. CASE TryOneMore
  <2>1. ReachesMaximum'
    BY <1>7, LastDigit DEF TryOneMore
  <2> QED BY <1>7, <2>1 DEF TryOneMore
<1>8. CASE TakeResult
  BY <1>8 DEF TakeResult, ReachesMaximum
<1>9. CASE UNCHANGED vars
  BY <1>9 DEF vars, ReachesMaximum, Gained, Room
<1> QED BY <1>1, <1>2, <1>3, <1>4, <1>5, <1>6, <1>7, <1>8, <1>9 DEF Next, Steps

(***************************************************************************)
(* maximize gains every digit there is room for and returns the number it  *)
(* was given, for all widths and whatever the stages: the coarse ones only *)
(* save rounds, and the unchecked last product is never kept when it       *)
(* wrapped.                                                                *)
(***************************************************************************)
THEOREM MaximizeReachesMaximum == Spec => []ReachesMaximum
<1>1. Init => GainsDigits
  BY DEF Init, GainsDigits, ReachesMaximum
<1>2. GainsDigits => ReachesMaximum
  BY DEF GainsDigits
<1> QED BY <1>1, <1>2, NextGainsDigits, PTL DEF Spec
=============================================================================
