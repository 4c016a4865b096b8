------------------------- MODULE DecimalCallsProofs -------------------------
(***************************************************************************)
(* What the functions of the contract return, for every width and all      *)
(* packed floats: what becomes of sums, products and quotients when they   *)
(* are packed, which errors come up, which numbers are out of range, what  *)
(* is read back of a text, and that equal floats are treated alike.        *)
(* The theorems about the contract and about the crate rest on this.       *)
(***************************************************************************)
EXTENDS DecimalCalls, FloatImplementationProofs

-----------------------------------------------------------------------------
(***************************************************************************)
(* Packing.                                                                *)
(***************************************************************************)

(***************************************************************************)
(* There is always a number of digits to drop.                             *)
(***************************************************************************)
LEMMA DropsExist ==
  ASSUME NEW x \in Coef
  PROVE  DigitsToDrop(x) \in 0..(D + 1) /\ Drops(x, DigitsToDrop(x))
<1> DEFINE B == {k \in 0..(D + 1) : Fits(Quot(x, Pow10[k]))}
<1>1. x \in Int /\ D + 1 \in 0..(D + 1) /\ D \in Nat /\ B \in SUBSET Nat
  BY CoefIsInt, WidthsAreInts
<1>2. D + 1 \in B
  <2>1. Abs(x) < Pow10[D + 1] /\ Pow10[D + 1] \in Nat /\ Pow10[D + 1] >= 1
    BY <1>1, CoefMagnitude, PowersOfCoef, Pow10Grows
  <2>2. Quot(x, Pow10[D + 1]) = 0
    BY <1>1, <2>1, QuotShrinks
  <2>3. Fits(0)
    BY Widths DEF Fits, Packed, PackMin
  <2> QED BY <1>1, <2>2, <2>3
<1>3. PICK n \in B : \A m \in B : n <= m
  BY <1>1, <1>2, LeastNumber
<1>4. Drops(x, n)
  <2>1. ASSUME NEW j \in 0..(n - 1) PROVE ~Fits(Quot(x, Pow10[j]))
    <3>1. j \in 0..(D + 1) /\ ~(n <= j)
      BY <1>1, <1>3
    <3> QED BY <1>3, <3>1
  <2> QED BY <1>3, <2>1 DEF Drops
<1>5. DigitsToDrop(x) = n
  BY <1>3, <1>4, DropsAreUnique
<1> QED BY <1>3, <1>4, <1>5

(***************************************************************************)
(* What packs is as large as an int224 allows.                             *)
(***************************************************************************)
LEMMA DropsKeepDigits ==
  ASSUME NEW x \in Coef, x # 0, NEW k, k = DigitsToDrop(x), NEW q, q = Quot(x, Pow10[k])
  PROVE  /\ k \in 0..(D + 1) /\ q \in Packed /\ q # 0 /\ (q < 0 <=> x < 0)
         /\ Abs(q) = Abs(x) \div Pow10[k]
         /\ x \in Packed => k = 0
         /\ k = 0 => q = x
         /\ k > 0 => /\ k - 1 \in 0..(D + 1) /\ Abs(x) \div Pow10[k - 1] > PackMax
                     /\ Abs(q) >= PackMax \div 10
<1>1. k \in 0..(D + 1) /\ Fits(q) /\ \A j \in 0..(k - 1) : ~Fits(Quot(x, Pow10[j]))
  BY DropsExist DEF Drops
<1>2. /\ x \in Int /\ Abs(x) \in Nat /\ D \in Nat /\ PackMax \in Nat /\ PackMax >= 10
      /\ Pow10[k] \in Nat /\ Pow10[k] >= 1 /\ Pow10[0] = 1
  BY <1>1, CoefIsInt, WidthsAreInts, Widths, Pow10Grows, Pow10Def
<1>3. Abs(q) = Abs(x) \div Pow10[k] /\ q \in Int
  BY <1>2, QuotForm, QuotShrinks
<1>4. k = 0 => q = x
  BY <1>2, QuotByOne
<1>5. x \in Packed => k = 0
  <2>1. ASSUME x \in Packed, k > 0 PROVE FALSE
    <3>1. 0 \in 0..(k - 1) /\ Quot(x, Pow10[0]) = x
      BY <1>1, <1>2, <2>1, QuotByOne
    <3> QED BY <1>1, <2>1, <3>1 DEF Fits
  <2> QED BY <1>1, <2>1
<1>6. ASSUME k > 0
      PROVE  /\ k - 1 \in 0..(D + 1) /\ Abs(x) \div Pow10[k - 1] > PackMax
             /\ Abs(q) >= PackMax \div 10
  <2>1. k - 1 \in 0..(k - 1) /\ k - 1 \in 0..(D + 1) /\ k - 1 + 1 = k
    BY <1>1, <1>2, <1>6
  <2>2. Pow10[k - 1] \in Nat /\ Pow10[k - 1] >= 1 /\ Pow10[k] = Pow10[k - 1] * 10
    BY <1>1, <2>1, NextPower, Pow10Grows
  <2>3. PICK z \in Int : z = Quot(x, Pow10[k - 1]) /\ Abs(z) = Abs(x) \div Pow10[k - 1]
    BY <1>2, <2>2, QuotForm, QuotShrinks
  <2>4. Abs(z) > PackMax /\ Abs(z) \in Nat
    <3>1. z \notin Packed
      BY <1>1, <2>1, <2>3 DEF Fits
    <3> QED BY <1>2, <3>1 DEF Packed, PackMin, Abs
  <2>5. Abs(q) = Abs(z) \div 10
    BY <1>2, <1>3, <2>2, <2>3, DivTwice
  <2>6. PackMax \div 10 <= Abs(z) \div 10
    BY <1>2, <2>4
  <2> QED BY <2>1, <2>3, <2>4, <2>5, <2>6
<1>7. q # 0
  <2>1. CASE k = 0
    BY <1>4, <2>1
  <2>2. CASE k > 0
    <3>1. PackMax \div 10 >= 1 /\ PackMax \div 10 \in Nat
      BY <1>2
    <3> QED BY <1>3, <1>6, <2>2, <3>1 DEF Abs
  <2> QED BY <1>1, <2>1, <2>2
<1>8. q < 0 <=> x < 0
  <2>1. (x >= 0 => q \in 0..x) /\ (x < 0 => q \in x..0)
    BY <1>2, QuotShrinks
  <2> QED BY <1>2, <1>3, <1>7, <2>1
<1> QED BY <1>1, <1>3, <1>4, <1>5, <1>6, <1>7, <1>8 DEF Fits

(***************************************************************************)
(* packArithmeticResult drops the digits that do not fit, and fails where  *)
(* the raised exponent does not.                                           *)
(***************************************************************************)
Fate(e) == IF e \in PackExp THEN "ok"
           ELSE IF e < PackExpMin THEN "ExponentUnderflow" ELSE "ExponentOverflow"

LEMMA PackTruncates ==
  ASSUME NEW x \in Coef, x # 0, NEW y \in Exp, y + D + 1 <= ExpMax,
         NEW k, k = DigitsToDrop(x), NEW r, r = PackArithmeticResult(x, y)
  PROVE  /\ r.status = Fate(y + k)
         /\ r.status = "ok" => r.c = Quot(x, Pow10[k]) /\ r.e = y + k
<1>1. k \in 0..(D + 1) /\ Quot(x, Pow10[k]) # 0
  BY DropsKeepDigits
<1>2. y + k \in Exp /\ WrapExp(y + k) = y + k
  <2>1. y + k \in Exp
    BY <1>1, Widths, WidthsAreInts DEF Exp, ExpMin
  <2> QED BY <2>1, WrapExpKeepsType
<1>3. PICK l : l = PackLossy(x, y)
  OBVIOUS
<1>4. r = Finalise("packArithmeticResult", l, TRUE)
  BY <1>3 DEF PackArithmeticResult
<1>5. CASE y + k \in PackExp
  <2>1. PICK flag \in BOOLEAN : flag = (k = 0)
    BY Zenon
  <2>2. l = Float(Quot(x, Pow10[k]), y + k, flag)
    <3>1. l = Float(Quot(x, Pow10[k]), WrapExp(y + k), k = 0)
      BY <1>2, <1>3, <1>5, LossyInRange
    <3> QED BY <1>2, <2>1, <3>1
  <2>3. l = [status |-> "ok", c |-> Quot(x, Pow10[k]), e |-> y + k, lossless |-> flag]
    BY <2>2 DEF Float
  <2>4. r.status = "ok" /\ r.c = Quot(x, Pow10[k]) /\ r.e = y + k
    <3>1. CASE flag
      <4>1. r = [l EXCEPT !.lossless = l.lossless /\ TRUE]
        BY <1>4, <2>3, <3>1 DEF Finalise
      <4> QED BY <2>3, <4>1
    <3>2. CASE ~flag
      BY <1>1, <1>4, <2>3, <3>2 DEF Finalise
    <3> QED BY <3>1, <3>2
  <2> QED BY <1>5, <2>4 DEF Fate
<1>6. CASE y + k \notin PackExp /\ y + k < PackExpMin
  <2>1. l = Underflow
    BY <1>2, <1>3, <1>6 DEF PackLossy
  <2>2. r = Revert("ExponentUnderflow")
    BY <1>4, <2>1 DEF Underflow, Float, Finalise
  <2> QED BY <1>6, <2>2 DEF Fate, Revert
<1>7. CASE y + k \notin PackExp /\ ~(y + k < PackExpMin)
  <2>1. l = Revert("ExponentOverflow")
    BY <1>2, <1>3, <1>7 DEF PackLossy
  <2>2. l = [status |-> "ExponentOverflow", c |-> 0, e |-> 0, lossless |-> FALSE]
    BY <2>1 DEF Revert
  <2>3. r = [l EXCEPT !.lossless = l.lossless /\ TRUE]
    BY <1>4, <2>2 DEF Finalise
  <2>4. r.status = "ExponentOverflow"
    BY <2>2, <2>3
  <2> QED BY <1>7, <2>4 DEF Fate
<1> QED BY <1>5, <1>6, <1>7

(***************************************************************************)
(* Zero packs as zero.                                                     *)
(***************************************************************************)
LEMMA ZeroPacks ==
  ASSUME NEW y, NEW r, r = PackArithmeticResult(0, y)
  PROVE  r.status = "ok" /\ r.c = 0 /\ r.e = 0
<1>1. PackLossy(0, y) = [status |-> "ok", c |-> 0, e |-> 0, lossless |-> TRUE]
  BY DEF PackLossy, FloatZero, Float
<1>2. r = [[status |-> "ok", c |-> 0, e |-> 0, lossless |-> TRUE] EXCEPT !.lossless = TRUE /\ TRUE]
  BY <1>1 DEF PackArithmeticResult, Finalise
<1> QED BY <1>2

(***************************************************************************)
(* A number that is packed has its last digits cut off, as few as possible. *)
(***************************************************************************)
LEMMA PackedNumber ==
  ASSUME NEW x \in Coef, x # 0, NEW y \in Exp, y + D + 1 <= ExpMax,
         NEW r, r = PackArithmeticResult(x, y), r.status = "ok"
  PROVE  /\ r.c \in Packed /\ r.c # 0 /\ (r.c < 0 <=> x < 0) /\ r.e \in PackExp
         /\ x \in Packed => r.c = x /\ r.e = y
         /\ \E k \in 0..(D + 1) :
              /\ r.e = y + k /\ Abs(r.c) = Abs(x) \div Pow10[k]
              /\ k = 0 => r.c = x
              /\ k > 0 => /\ k - 1 \in 0..(D + 1) /\ Abs(x) \div Pow10[k - 1] > PackMax
                          /\ Abs(r.c) >= PackMax \div 10
<1>1. PICK k : k = DigitsToDrop(x)
  OBVIOUS
<1>2. r.status = Fate(y + k) /\ r.c = Quot(x, Pow10[k]) /\ r.e = y + k
  BY <1>1, PackTruncates
<1>3. r.e \in PackExp
  BY <1>2 DEF Fate
<1>4. y + 0 = y
  BY Widths DEF Exp, ExpMin
<1>5. PICK q : q = Quot(x, Pow10[k])
  OBVIOUS
<1>6. /\ k \in 0..(D + 1) /\ q \in Packed /\ q # 0 /\ (q < 0 <=> x < 0)
      /\ Abs(q) = Abs(x) \div Pow10[k]
      /\ x \in Packed => k = 0
      /\ k = 0 => q = x
      /\ k > 0 => /\ k - 1 \in 0..(D + 1) /\ Abs(x) \div Pow10[k - 1] > PackMax
                  /\ Abs(q) >= PackMax \div 10
  BY <1>1, <1>5, DropsKeepDigits
<1>7. r.c = q
  BY <1>2, <1>5
<1> QED BY <1>2, <1>3, <1>4, <1>6, <1>7

(***************************************************************************)
(* Cutting twice is cutting once.                                          *)
(***************************************************************************)
LEMMA CutAgain ==
  ASSUME NEW m \in Nat, NEW i \in 0..(D + 1), NEW k \in 0..(D + 1), i + k <= D + 1
  PROVE  i + k \in 0..(D + 1) /\ (m \div Pow10[i]) \div Pow10[k] = m \div Pow10[i + k]
<1>1. i + k \in 0..(D + 1) /\ Pow10[i + k] = Pow10[i] * Pow10[k]
  BY WidthsAreInts, Pow10Def
<1>2. Pow10[i] \in Nat /\ Pow10[i] >= 1 /\ Pow10[k] \in Nat /\ Pow10[k] >= 1
  BY Pow10Grows
<1> QED BY <1>1, <1>2, DivTwice

(***************************************************************************)
(* The product of two packed coefficients has so many digits that the cut  *)
(* of mul and the one of packing stay together within reach.               *)
(***************************************************************************)
LEMMA ProductCutsFit ==
  ASSUME NEW x \in Packed, NEW y \in Packed, NEW p, p = Abs(x * y),
         NEW i \in 0..(D + 1), NEW k \in 0..(D + 1), k - 1 \in 0..(D + 1),
         (p \div Pow10[i]) \div Pow10[k - 1] > PackMax
  PROVE  i + k <= D + 1
<1> DEFINE M == PackMax + 1
           q == p \div Pow10[i]
<1>1. /\ D \in Nat /\ PackD \in Nat /\ PackMax \in Nat /\ PackD + 1 <= D /\ M < Pow10[PackD + 1]
      /\ PackD + 1 \in 0..(D + 1)
  <2>1. PackD \in Nat /\ D \in Nat /\ Jump \in Nat /\ PackD + Jump <= D /\ 1 <= Jump
    BY WidthsAreInts, WidthsFitDecimals
  <2>2. PackMax \in Nat /\ PackMax < Pow10[PackD + 1] - 1 /\ Pow10[PackD + 1] \in Int
    <3>1. PackD + 1 \in 0..(D + 1)
      BY <2>1
    <3> QED BY <3>1, WidthsAreInts, WidthsFitDecimals, Pow10Def
  <2> QED BY <2>1, <2>2
<1>2. Pow10[PackD + 1] \in Nat /\ Pow10[i] \in Nat /\ Pow10[i] >= 1 /\ Pow10[k - 1] \in Nat /\ Pow10[k - 1] >= 1
  BY <1>1, Pow10Grows
<1>3. p \in Nat /\ p < M * Pow10[PackD + 1]
  <2>1. x \in Int /\ y \in Int /\ Abs(x) \in 0..M /\ Abs(y) \in 0..M
    BY <1>1 DEF Packed, PackMin, Abs
  <2>2. Abs(x * y) = Abs(x) * Abs(y) /\ Abs(x) * Abs(y) \in Nat
    <3>1. x * y \in Int /\ Abs(x * y) = Abs(x) * Abs(y)
      BY <2>1, ProductMagnitude
    <3> QED BY <3>1 DEF Abs
  <2>3. Abs(x) * Abs(y) <= Abs(x) * M
    <3>1. Abs(x) \in Nat /\ Abs(y) \in Int /\ M \in Int /\ Abs(y) <= M
      BY <1>1, <2>1
    <3> HIDE DEF M
    <3> QED BY <3>1, TimesGrows
  <2>4. M * Abs(x) <= M * M
    BY <1>1, <2>1, TimesGrows
  <2>5. M * (M + 1) <= M * Pow10[PackD + 1]
    BY <1>1, <1>2, TimesGrows
  <2>6. Abs(x) * M = M * Abs(x) /\ M * (M + 1) = M * M + M /\ M >= 1 /\ M * M \in Nat
        /\ M * Pow10[PackD + 1] \in Nat /\ M * Abs(x) \in Nat
    BY <1>1, <1>2, <2>1
  <2>7. PICK u \in Int, v \in Int, w \in Int, z \in Int :
          u = Abs(x) * Abs(y) /\ v = M * Abs(x) /\ w = M * M /\ z = M * Pow10[PackD + 1]
    BY <1>1, <2>2, <2>6
  <2>8. u <= v /\ v <= w /\ w + M <= z
    BY <2>3, <2>4, <2>5, <2>6, <2>7
  <2>9. u < z /\ u \in Nat
    BY <1>1, <2>2, <2>6, <2>7, <2>8
  <2> QED BY <2>2, <2>7, <2>9
<1>4. q \in Nat /\ Pow10[i] * q <= p
  BY <1>2, <1>3, DivBounds
<1>5. Pow10[k - 1] * M <= q
  <2>1. M \in Nat /\ M <= q \div Pow10[k - 1]
    <3>1. q \div Pow10[k - 1] \in Nat
      BY <1>2, <1>4, DivBounds
    <3> QED BY <1>1, <3>1
  <2> QED BY <1>2, <1>4, <2>1, DivAtLeast
<1>6. Pow10[i] * (Pow10[k - 1] * M) <= p
  <2>1. Pow10[k - 1] * M \in Int
    BY <1>1, <1>2
  <2>2. Pow10[i] * (Pow10[k - 1] * M) <= Pow10[i] * q
    BY <1>2, <1>4, <1>5, <2>1, TimesGrows
  <2>3. Pow10[i] * (Pow10[k - 1] * M) \in Int /\ Pow10[i] * q \in Int
    BY <1>2, <1>4, <2>1
  <2> QED BY <1>3, <1>4, <2>2, <2>3
<1>7. ASSUME NEW n \in 0..(D + 1), n <= k - 1, i + n <= D + 1, PackD + 1 <= i + n PROVE FALSE
  <2>1. i + n \in 0..(D + 1) /\ Pow10[i + n] = Pow10[i] * Pow10[n] /\ Pow10[PackD + 1] <= Pow10[i + n]
    <3>1. i + n \in 0..(D + 1)
      BY <1>1, <1>7
    <3>2. Pow10[i + n] = Pow10[i] * Pow10[n]
      BY <1>7, Pow10Def
    <3>3. Pow10[PackD + 1] <= Pow10[i + n]
      BY <1>1, <1>7, <3>1, Pow10Grows
    <3> QED BY <3>1, <3>2, <3>3
  <2>2. Pow10[n] \in Nat /\ Pow10[n] <= Pow10[k - 1]
    BY <1>7, Pow10Grows
  <2>3. M * Pow10[PackD + 1] <= M * (Pow10[i] * Pow10[n])
    BY <1>1, <1>2, <2>1, <2>2, TimesGrows
  <2>4. (M * Pow10[i]) * Pow10[n] <= (M * Pow10[i]) * Pow10[k - 1]
    BY <1>1, <1>2, <2>2, TimesGrows
  <2>5. M * (Pow10[i] * Pow10[n]) = (M * Pow10[i]) * Pow10[n]
        /\ (M * Pow10[i]) * Pow10[k - 1] = Pow10[i] * (Pow10[k - 1] * M)
        /\ (M * Pow10[i]) * Pow10[n] \in Int /\ (M * Pow10[i]) * Pow10[k - 1] \in Int
        /\ M * Pow10[PackD + 1] \in Int
    BY <1>1, <1>2, <2>2
  <2> HIDE DEF M
  <2> QED BY <1>3, <1>6, <2>3, <2>4, <2>5
<1>8. CASE i + k <= D + 1
  BY <1>8
<1>9. CASE i + k > D + 1
  <2>1. CASE i >= PackD + 1
    BY <1>1, <1>7, <2>1
  <2>2. CASE i < PackD + 1
    <3>1. PICK n \in 0..(D + 1) : n = PackD + 1 - i
      BY <1>1, <2>2
    <3>2. n <= k - 1 /\ i + n = PackD + 1
      BY <1>1, <1>9, <3>1
    <3> QED BY <1>1, <1>7, <3>2
  <2> QED BY <1>1, <2>1, <2>2
<1> QED BY <1>8, <1>9, <1>1

(***************************************************************************)
(* The packed product is the exact one cut off once, at full precision.    *)
(***************************************************************************)
LEMMA PackedProduct ==
  ASSUME NEW x \in Packed, NEW y \in Packed, x # 0, y # 0, NEW ex \in PackExp, NEW ey \in PackExp,
         NEW n, n = Mul(x, ex, y, ey), NEW r, r = PackArithmeticResult(n.c, n.e), n.status = "ok", r.status = "ok"
  PROVE  /\ r.c \in Packed /\ r.e \in PackExp /\ r.c # 0 /\ (r.c < 0 <=> (x < 0) # (y < 0))
         /\ CutDigits(Abs(r.c), r.e, Abs(x * y), ex + ey)
         /\ r.e = ex + ey \/ Abs(r.c) >= PackMax \div 10
<1> DEFINE p == Abs(x * y)
<1>1. /\ x \in Coef /\ y \in Coef /\ x \in Int /\ y \in Int /\ ex \in Exp /\ ey \in Exp
      /\ ex \in Int /\ ey \in Int /\ ex <= PackExpMax /\ ey <= PackExpMax
      /\ PackExpMax \in Nat /\ D \in Nat /\ Reach = D + 1 /\ p \in Nat
  <2>1. x \in Int /\ y \in Int /\ x \in Coef /\ y \in Coef
    BY Widths DEF Packed, PackMin, Coef, CoefMin
  <2>2. p \in Nat
    <3>1. x * y \in Int
      BY <2>1
    <3> QED BY <3>1 DEF Abs
  <2> QED BY <2>1, <2>2, Widths, WidthsAreInts DEF PackExp, PackExpMin, Exp, ExpMin, Reach
<1>2. /\ n.c \in Coef /\ n.e \in Exp /\ n.c # 0 /\ (n.c < 0 <=> (x < 0) # (y < 0))
      /\ CutDigits(Abs(n.c), n.e, p, ex + ey)
      /\ IF p > CoefMax THEN Abs(n.c) >= CoefMax \div 10 ELSE n.e = ex + ey
  BY <1>1, MulTruncates
<1>3. PICK i \in 0..(D + 1) : n.e = ex + ey + i /\ Abs(n.c) = p \div Pow10[i]
  BY <1>1, <1>2 DEF CutDigits
<1>4. n.e + D + 1 <= ExpMax
  BY <1>1, <1>3, Widths, ExponentsFit
<1>5. /\ r.c \in Packed /\ r.c # 0 /\ (r.c < 0 <=> n.c < 0) /\ r.e \in PackExp
      /\ \E k \in 0..(D + 1) :
           /\ r.e = n.e + k /\ Abs(r.c) = Abs(n.c) \div Pow10[k]
           /\ k = 0 => r.c = n.c
           /\ k > 0 => /\ k - 1 \in 0..(D + 1) /\ Abs(n.c) \div Pow10[k - 1] > PackMax
                       /\ Abs(r.c) >= PackMax \div 10
  BY <1>2, <1>4, PackedNumber
<1>6. PICK k \in 0..(D + 1) :
           /\ r.e = n.e + k /\ Abs(r.c) = Abs(n.c) \div Pow10[k]
           /\ k = 0 => r.c = n.c
           /\ k > 0 => /\ k - 1 \in 0..(D + 1) /\ Abs(n.c) \div Pow10[k - 1] > PackMax
                       /\ Abs(r.c) >= PackMax \div 10
  BY <1>5
<1>7. i + k <= D + 1
  <2>1. CASE k = 0
    BY <1>1, <2>1
  <2>2. CASE k > 0
    BY <1>1, <1>3, <1>6, <2>2, ProductCutsFit
  <2> QED BY <1>1, <2>1, <2>2
<1>8. CutDigits(Abs(r.c), r.e, p, ex + ey)
  <2>1. i + k \in 0..(D + 1) /\ Abs(r.c) = p \div Pow10[i + k]
    BY <1>1, <1>3, <1>6, <1>7, CutAgain
  <2>2. r.e = ex + ey + (i + k)
    BY <1>1, <1>3, <1>6
  <2> QED BY <1>1, <2>1, <2>2 DEF CutDigits
<1>9. r.e = ex + ey \/ Abs(r.c) >= PackMax \div 10
  <2>1. CASE k > 0
    BY <1>6, <2>1
  <2>2. CASE k = 0
    <3>1. r.c = n.c /\ r.e = n.e
      BY <1>1, <1>3, <1>6, <2>2
    <3>2. CoefMax \div 10 >= PackMax \div 10 /\ CoefMax \div 10 \in Int /\ PackMax \div 10 \in Int
          /\ Abs(n.c) \in Int
      <4>1. n.c \in Int
        BY <1>2, CoefIsInt
      <4> QED BY <4>1, Widths DEF Abs
    <3> QED BY <1>2, <3>1, <3>2
  <2> QED BY <1>1, <2>1, <2>2
<1> QED BY <1>2, <1>5, <1>8, <1>9

(***************************************************************************)
(* The digits a maximized number gained.                                   *)
(***************************************************************************)
LEMMA MaximizedBy ==
  ASSUME NEW x \in Coef, x # 0, NEW y \in Exp, NEW m, m = Maximize(x, y)
  PROVE  \E k \in 0..D : m.c = x * Pow10[k] /\ m.e = y - k /\ Abs(m.c) = Abs(x) * Pow10[k]
<1>1. PICK k \in 0..D : k = DigitsToGain(x, y)
  BY GainExists
<1>2. m.c = x * Pow10[k] /\ m.e = y - k
  BY <1>1 DEF Maximize
<1>3. Pow10[k] \in Nat /\ Pow10[k] >= 1 /\ x \in Int
  <2>1. k \in 0..(D + 1)
    BY WidthsAreInts
  <2> QED BY <2>1, Pow10Grows, CoefIsInt
<1>4. Abs(x * Pow10[k]) = Abs(x) * Pow10[k]
  BY <1>3, TimesMagnitude
<1> QED BY <1>2, <1>4

(***************************************************************************)
(* A quotient of scaled numbers that is not zero, with the scales taken    *)
(* back, is one of the numbers themselves.                                 *)
(***************************************************************************)
LEMMA ScalesCancel ==
  ASSUME NEW x \in Nat, x < ten[D + 1], NEW y \in Nat, y >= 1, NEW n \in Nat, n <= 2 * D + 1,
         NEW w \in Nat, NEW c, c = (x * ten[n]) \div (y * ten[w]), c # 0,
         NEW p \in Int, NEW f, f = p - n + w
  PROVE  \E i \in 0..D : CutQuotient(c, f, x * Pow10[i], y, p - i)
<1>1. D \in Nat /\ 0 \in 0..D /\ Reach = D + 1 /\ ten[n] \in Nat /\ ten[n] >= 1 /\ ten[w] \in Nat /\ ten[w] >= 1
      /\ ten[D + 1] \in Nat
  BY WidthsAreInts, TenType DEF Reach
<1>2. CASE n <= w
  <2>1. PICK t \in Nat : t = w - n /\ ten[w] = ten[n] * ten[t]
    BY <1>2, TenGrows
  <2>2. ten[t] \in Nat /\ ten[t] >= 1
    BY TenType
  <2>3. PICK z \in Nat : z = y * ten[t]
    BY <2>2
  <2>4. z >= 1 /\ y * ten[w] = z * ten[n] /\ ten[t] <= z
    <3>1. y * ten[w] = (y * ten[t]) * ten[n]
      BY <1>1, <2>1, <2>2
    <3>2. ten[t] * 1 <= ten[t] * y /\ ten[t] * y = z
      BY <2>2, <2>3, TimesGrows
    <3> QED BY <2>2, <2>3, <3>1, <3>2
  <2>5. c = x \div z
    <3>1. (x * ten[n]) \div (z * ten[n]) = x \div z
      BY <1>1, <2>4, DivCancels
    <3> QED BY <2>4, <3>1, Zenon
  <2>6. z <= x
    <3>1. z * 1 <= x <=> 1 <= x \div z
      BY <2>4, DivAtLeast
    <3>2. x \div z \in Nat
      BY <2>4, DivBounds
    <3> QED BY <2>5, <3>1, <3>2
  <2>7. t \in 0..(D + 1)
    <3>1. CASE t > D + 1
      <4>1. ten[D + 1] <= ten[t]
        BY <1>1, <3>1, TenGrows
      <4> QED BY <1>1, <2>2, <2>4, <2>6, <4>1
    <3> QED BY <1>1, <3>1
  <2>8. Pow10[t] = ten[t] /\ x * Pow10[0] = x
    BY <2>7, PowersAreTens, Pow10Def
  <2>9. c = x \div (y * Pow10[t]) /\ f = (p - 0) + t
    BY <2>1, <2>3, <2>5, <2>8
  <2> QED BY <1>1, <2>7, <2>8, <2>9 DEF CutQuotient
<1>3. CASE ~(n <= w)
  <2>1. PICK s \in Nat : s = n - w /\ ten[n] = ten[w] * ten[s]
    BY <1>3, TenGrows
  <2>2. PICK i \in 0..D, k \in 0..(D + 1) : i + k = s
    <3>1. CASE s <= D
      <4>1. s \in 0..D /\ 0 \in 0..(D + 1) /\ s + 0 = s
        BY <1>1, <3>1
      <4> QED BY <4>1
    <3>2. CASE s > D
      <4>1. D \in 0..D /\ s - D \in 0..(D + 1) /\ D + (s - D) = s
        BY <1>1, <2>1, <3>2
      <4> QED BY <4>1
    <3> QED BY <1>1, <3>1, <3>2
  <2>3. ten[s] = Pow10[i] * Pow10[k] /\ Pow10[i] \in Nat /\ Pow10[k] \in Nat
    <3>1. i \in 0..(D + 1) /\ i \in Nat /\ k \in Nat
      BY <1>1
    <3>2. Pow10[i] = ten[i] /\ Pow10[k] = ten[k]
      BY <3>1, PowersAreTens
    <3>3. ten[s] = ten[i] * ten[k]
      BY <2>2, <3>1, TenAdds
    <3> QED BY <3>1, <3>2, <3>3, TenType
  <2>4. PICK z \in Nat : z = (x * Pow10[i]) * Pow10[k]
    BY <2>3
  <2>5. x * ten[n] = z * ten[w]
    <3>1. ten[n] = ten[w] * (Pow10[i] * Pow10[k])
      BY <2>1, <2>3
    <3> QED BY <1>1, <2>3, <2>4, <3>1
  <2>6. c = z \div y
    <3>1. (z * ten[w]) \div (y * ten[w]) = z \div y
      BY <1>1, DivCancels
    <3> QED BY <2>5, <3>1, Zenon
  <2>7. f = (p - i) - k
    BY <1>1, <2>1, <2>2
  <2> QED BY <1>1, <2>4, <2>6, <2>7 DEF CutQuotient
<1> QED BY <1>2, <1>3

(***************************************************************************)
(* The packed quotient of two maximized numbers, in terms of the numbers   *)
(* x and y they were before, is cut off once, at full precision.           *)
(***************************************************************************)
LEMMA PackedQuotient ==
  ASSUME NEW A, NEW B, A.c \in Coef, B.c \in Coef, A.c # 0, B.c # 0, A.e \in Int, B.e \in Int,
         10 * Abs(A.c) > CoefMax, A.e - B.e <= ExpMax - 2 * (D + 1), ExpMin + D + 2 < A.e - B.e,
         NEW x \in Nat, NEW y \in Nat, y >= 1, NEW i \in 0..D, NEW j \in 0..D,
         Abs(A.c) = x * Pow10[i], Abs(B.c) = y * Pow10[j],
         NEW n, QuotientIsCut(n, A, B),
         NEW r, r = PackArithmeticResult(n.c, n.e), r.status = "ok"
  PROVE  /\ r.c \in Packed /\ r.e \in PackExp /\ r.c # 0 /\ (r.c < 0 <=> (A.c < 0) # (B.c < 0))
         /\ Abs(r.c) >= PackMax \div 10
         /\ \E k \in 0..D : CutQuotient(Abs(r.c), r.e, x * Pow10[k], y, A.e + i - (B.e + j) - k)
<1> DEFINE a == Abs(A.c)
           b == Abs(B.c)
<1>1. /\ D \in Nat /\ Reach = D + 1 /\ ExpMax \in Nat /\ ExpMin = -ExpMax - 1 /\ PackMax \in Nat
      /\ CoefMax \in Nat /\ i \in 0..(D + 1) /\ j \in 0..(D + 1) /\ i \in Nat /\ j \in Nat
      /\ a \in Nat /\ b \in Nat /\ a >= 1 /\ b >= 1 /\ a < ten[D + 1] /\ ten[D + 1] \in Nat
  <2>1. A.c \in Int /\ B.c \in Int /\ a <= CoefMax + 1
    BY CoefIsInt, CoefMagnitude
  <2>2. CoefMax + 1 < Pow10[D + 1] /\ Pow10[D + 1] = ten[D + 1] /\ ten[D + 1] \in Nat
    BY PowersOfCoef, PowersAreTens, TenType
  <2> QED BY <2>1, <2>2, Widths, WidthsAreInts DEF ExpMin, Reach, Abs
<1>2. n.c # 0
  <2>1. ASSUME SmallerNumber(a, A.e - B.e, b, ExpMin + 1) PROVE FALSE
    BY <1>1, <2>1 DEF SmallerNumber
  <2> QED BY <2>1 DEF QuotientIsCut
<1>3. /\ n.c \in Coef /\ n.e \in Exp /\ (n.c < 0 <=> (A.c < 0) # (B.c < 0))
      /\ CutQuotient(Abs(n.c), n.e, a, b, A.e - B.e)
      /\ Abs(n.c) >= a \div 10 \/ n.e <= ExpMin + 1
  <2>1. 0 \in Exp
    BY <1>1 DEF Exp
  <2> QED BY <1>2, <2>1 DEF QuotientIsCut
<1>4. PICK k \in 0..(D + 1) : \/ n.e = (A.e - B.e) + k /\ Abs(n.c) = a \div (b * Pow10[k])
                              \/ n.e = (A.e - B.e) - k /\ Abs(n.c) = (a * Pow10[k]) \div b
  <2> HIDE DEF a, b
  <2>1. \E k \in 0..Reach : \/ n.e = (A.e - B.e) + k /\ Abs(n.c) = a \div (b * Pow10[k])
                            \/ n.e = (A.e - B.e) - k /\ Abs(n.c) = (a * Pow10[k]) \div b
    BY <1>3 DEF CutQuotient
  <2> QED BY <1>1, <2>1, Zenon
<1>5. n.e + D + 1 <= ExpMax
  BY <1>1, <1>4
<1>6. /\ r.c \in Packed /\ r.c # 0 /\ (r.c < 0 <=> n.c < 0) /\ r.e \in PackExp
      /\ \E l \in 0..(D + 1) :
           /\ r.e = n.e + l /\ Abs(r.c) = Abs(n.c) \div Pow10[l]
           /\ l = 0 => r.c = n.c
           /\ l > 0 => /\ l - 1 \in 0..(D + 1) /\ Abs(n.c) \div Pow10[l - 1] > PackMax
                       /\ Abs(r.c) >= PackMax \div 10
  BY <1>2, <1>3, <1>5, PackedNumber
<1>7. PICK l \in 0..(D + 1) :
           /\ r.e = n.e + l /\ Abs(r.c) = Abs(n.c) \div Pow10[l]
           /\ l = 0 => r.c = n.c
           /\ l > 0 => Abs(r.c) >= PackMax \div 10
  BY <1>6
<1>8. Abs(r.c) >= PackMax \div 10
  <2>1. CASE l > 0
    BY <1>7, <2>1
  <2>2. CASE l = 0
    <3>1. r.c = n.c /\ r.e = n.e /\ r.e > ExpMin + 1
      <4>1. r.e >= -PackExpMax - 1 /\ PackExpMax \in Nat
        BY <1>6, Widths DEF PackExp, PackExpMin
      <4>2. n.e \in Int
        BY <1>3 DEF Exp, ExpMin
      <4> QED BY <1>1, <1>7, <2>2, <4>1, <4>2, ExponentsFit
    <3>2. Abs(n.c) >= a \div 10
      <4>1. n.e \in Int
        BY <1>3 DEF Exp, ExpMin
      <4> QED BY <1>1, <1>3, <3>1, <4>1
    <3>3. a >= PackMax
      <4>1. 10 * PackMax <= CoefMax
        BY WidthsFitDecimals, WidthsAreInts
      <4> QED BY <1>1, <4>1
    <3>4. a \div 10 >= PackMax \div 10 /\ Abs(n.c) \in Int
      <4>1. n.c \in Int
        BY <1>3, CoefIsInt
      <4> QED BY <1>1, <3>3, <4>1, DivGrows DEF Abs
    <3> QED BY <1>1, <3>1, <3>2, <3>4
  <2> QED BY <1>1, <2>1, <2>2
<1>9. Pow10[k] = ten[k] /\ Pow10[l] = ten[l] /\ Pow10[i] = ten[i] /\ Pow10[j] = ten[j]
  BY <1>1, PowersAreTens
<1>10. /\ k \in Nat /\ l \in Nat
       /\ ten[k] \in Nat /\ ten[k] >= 1 /\ ten[l] \in Nat /\ ten[l] >= 1 /\ ten[i] \in Nat /\ ten[i] >= 1
       /\ ten[j] \in Nat /\ ten[j] >= 1
  BY <1>1, TenType
<1>11. x < ten[D + 1]
  <2>1. x * 1 <= x * ten[i]
    BY <1>10, TimesGrows
  <2> QED BY <1>1, <1>9, <2>1
<1>12. \E u \in Nat, w \in Nat : /\ u <= 2 * D + 1
                                 /\ Abs(r.c) = (x * ten[u]) \div (y * ten[w])
                                 /\ r.e = (A.e + i - (B.e + j)) - u + w
  <2>1. CASE n.e = (A.e - B.e) + k /\ Abs(n.c) = a \div (b * Pow10[k])
    <3>1. PICK z \in Nat : z = b * ten[k]
      BY <1>1, <1>10
    <3>2. z >= 1
      <4>1. b * 1 <= b * ten[k]
        BY <1>1, <1>10, TimesGrows
      <4> QED BY <1>1, <3>1, <4>1
    <3>3. Abs(r.c) = a \div (z * ten[l])
      <4>1. (a \div z) \div ten[l] = a \div (z * ten[l])
        BY <1>1, <1>10, <3>2, DivTwice
      <4> QED BY <1>7, <1>9, <2>1, <3>1, <4>1, Zenon
    <3>4. z * ten[l] = y * ten[(j + k) + l]
      <4>1. ten[(j + k) + l] = (ten[j] * ten[k]) * ten[l]
        <5>1. j + k \in Nat
          BY <1>1, <1>10
        <5>2. ten[j + k] = ten[j] * ten[k]
          BY <1>1, <1>10, TenAdds
        <5>3. ten[(j + k) + l] = ten[j + k] * ten[l]
          BY <1>10, <5>1, TenAdds
        <5> QED BY <5>2, <5>3
      <4> QED BY <1>9, <1>10, <3>1, <4>1
    <3>5. Abs(r.c) = (x * ten[i]) \div (y * ten[(j + k) + l])
      BY <1>9, <3>3, <3>4, Zenon
    <3>6. r.e = (A.e + i - (B.e + j)) - i + ((j + k) + l)
      BY <1>1, <1>7, <1>10, <2>1
    <3>7. i <= 2 * D + 1 /\ (j + k) + l \in Nat
      BY <1>1, <1>10
    <3> QED BY <1>1, <3>5, <3>6, <3>7
  <2>2. CASE n.e = (A.e - B.e) - k /\ Abs(n.c) = (a * Pow10[k]) \div b
    <3>1. PICK z \in Nat : z = a * ten[k]
      BY <1>1, <1>10
    <3>2. Abs(r.c) = z \div (b * ten[l])
      <4>1. (z \div b) \div ten[l] = z \div (b * ten[l])
        BY <1>1, <1>10, DivTwice
      <4> QED BY <1>7, <1>9, <2>2, <3>1, <4>1, Zenon
    <3>3. b * ten[l] = y * ten[j + l]
      <4>1. ten[j + l] = ten[j] * ten[l]
        BY <1>1, <1>10, TenAdds
      <4> QED BY <1>9, <1>10, <4>1
    <3>4. z = x * ten[i + k]
      <4>1. ten[i + k] = ten[i] * ten[k]
        BY <1>1, <1>10, TenAdds
      <4> QED BY <1>9, <1>10, <3>1, <4>1
    <3>5. Abs(r.c) = (x * ten[i + k]) \div (y * ten[j + l])
      BY <3>2, <3>3, <3>4, Zenon
    <3>6. r.e = (A.e + i - (B.e + j)) - (i + k) + (j + l)
      BY <1>1, <1>7, <1>10, <2>2
    <3>7. i + k <= 2 * D + 1 /\ j + l \in Nat /\ i + k \in Nat
      BY <1>1, <1>10
    <3> QED BY <3>5, <3>6, <3>7
  <2> QED BY <1>4, <2>1, <2>2
<1>13. PICK u \in Nat, w \in Nat : /\ u <= 2 * D + 1
                                   /\ Abs(r.c) = (x * ten[u]) \div (y * ten[w])
                                   /\ r.e = (A.e + i - (B.e + j)) - u + w
  BY <1>12
<1>14. Abs(r.c) # 0
  BY <1>6, Widths DEF Packed, PackMin, Abs
<1>15. \E m \in 0..D : CutQuotient(Abs(r.c), r.e, x * Pow10[m], y, A.e + i - (B.e + j) - m)
  <2>1. PICK p \in Int : p = A.e + i - (B.e + j)
    BY <1>1
  <2>2. r.e = p - u + w
    BY <1>13, <2>1
  <2>3. \E m \in 0..D : CutQuotient(Abs(r.c), r.e, x * Pow10[m], y, p - m)
    <3>1. PICK c, e : c = Abs(r.c) /\ e = r.e
      OBVIOUS
    <3>2. \E m \in 0..D : CutQuotient(c, e, x * Pow10[m], y, p - m)
      <4>1. c = (x * ten[u]) \div (y * ten[w]) /\ c # 0 /\ e = p - u + w
        BY <1>13, <1>14, <2>2, <3>1
      <4> QED BY <1>11, <1>13, <4>1, ScalesCancel
    <3> QED BY <3>1, <3>2
  <2> QED BY <2>1, <2>3
<1> QED BY <1>3, <1>6, <1>8, <1>15

-----------------------------------------------------------------------------
(***************************************************************************)
(* Errors.  The exponents of packed numbers, and of the one that floor and *)
(* ceil step by, leave room to maximize and to multiply.                   *)
(***************************************************************************)
Roomy == (-(PackExpMax + D + 1))..PackExpMax

Good(r) == r.status \in {"ok", "ExponentOverflow", "ExponentUnderflow"}

(***************************************************************************)
(* The room there is.                                                      *)
(***************************************************************************)
LEMMA RoomySuffices ==
  ASSUME NEW x \in Roomy
  PROVE  /\ x \in Exp /\ x \in Int /\ x - (D + 1) >= ExpMin /\ x < ExpMax
         /\ \A y \in Roomy : ProductInRange(x + y) /\ x - y <= ExpMax - (D + 1)
BY Widths, WidthsAreInts, ExponentsFit DEF Roomy, Exp, ExpMin, ProductInRange

(***************************************************************************)
(* Packed numbers, and one.                                                *)
(***************************************************************************)
LEMMA PackedIsRoomy ==
  /\ Packed \subseteq Coef /\ Packed \subseteq Int /\ PackExp \subseteq Roomy /\ PackExp \subseteq Int
  /\ \A x \in Packed : x # CoefMin /\ -x \in Coef /\ -x # CoefMin
  /\ Pow10[D] \in Coef /\ Pow10[D] # 0 /\ -Pow10[D] \in Coef /\ -D \in Roomy
BY Widths, WidthsAreInts, PowersOfCoef DEF Packed, PackMin, Coef, CoefMin, PackExp, PackExpMin, Roomy

(***************************************************************************)
(* Operands with room maximize fully, so add overflows at most an exponent. *)
(***************************************************************************)
LEMMA AddIsGood ==
  ASSUME NEW x \in Coef, NEW y \in Coef, NEW ex \in Roomy, NEW ey \in Roomy
  PROVE  Good(Add(x, ex, y, ey))
<1> DEFINE A == Maximize(x, ex)
           B == Maximize(y, ey)
<1>1. ex \in Exp /\ ey \in Exp /\ ex - (D + 1) >= ExpMin /\ ey - (D + 1) >= ExpMin
  BY RoomySuffices
<1>2. CASE x = 0 \/ y = 0
  BY <1>2 DEF Add, Num, Good
<1>3. CASE x # 0 /\ y # 0
  <2>1. A.full /\ B.full
    BY <1>1, <1>3, MaximizedDigits
  <2>2. A.e \in Exp /\ B.e \in Exp
    BY <1>1, <1>3, MaximizedNumber
  <2> HIDE DEF A, B
  <2>3. Add(x, ex, y, ey) = AddMaximized(A, B)
    BY <1>3, <2>1 DEF Add, A, B
  <2>4. ASSUME NEW c1, NEW c2, NEW e \in Exp PROVE Good(AddAligned(c1, c2, e))
    <3>1. e = ExpMax \/ e < ExpMax
      BY Widths DEF Exp, ExpMin
    <3> QED BY <3>1 DEF AddAligned, Num, Fail, Good
  <2> QED BY <2>2, <2>3, <2>4 DEF AddMaximized, Num, Good
<1> QED BY <1>2, <1>3

(***************************************************************************)
(* So does sub, for a subtrahend that can be negated.                      *)
(***************************************************************************)
LEMMA SubIsGood ==
  ASSUME NEW x \in Coef, NEW y \in Coef, y # CoefMin, NEW ex \in Roomy, NEW ey \in Roomy
  PROVE  Good(Sub(x, ex, y, ey)) /\ Sub(x, ex, y, ey) = Add(x, ex, -y, ey)
<1>1. Minus(y, ey) = Num(-y, ey)
  BY DEF Minus
<1>2. Sub(x, ex, y, ey) = Add(x, ex, -y, ey)
  BY <1>1 DEF Sub, Num
<1>3. -y \in Coef
  BY Widths DEF Coef, CoefMin
<1> QED BY <1>2, <1>3, AddIsGood

(***************************************************************************)
(* mul has room for every exponent.                                        *)
(***************************************************************************)
LEMMA MulIsGood ==
  ASSUME NEW x \in Coef, NEW y \in Coef, NEW ex \in Roomy, NEW ey \in Roomy
  PROVE  Mul(x, ex, y, ey).status = "ok"
<1>1. ex \in Exp /\ ey \in Exp /\ ProductInRange(ex + ey)
  BY RoomySuffices
<1>2. CASE x = 0 \/ y = 0
  BY <1>2 DEF Mul, MaximizedZero, Num
<1>3. CASE x # 0 /\ y # 0
  BY <1>1, <1>3, MulTruncates
<1> QED BY <1>2, <1>3

(***************************************************************************)
(* div refuses zero, and nothing else.                                     *)
(***************************************************************************)
LEMMA DivIsGood ==
  ASSUME NEW x \in Coef, NEW y \in Coef, NEW ex \in Roomy, NEW ey \in Roomy
  PROVE  Div(x, ex, y, ey).status = IF y = 0 THEN "DivisionByZero" ELSE "ok"
<1>1. /\ ex \in Exp /\ ey \in Exp /\ ex - ey <= ExpMax - (D + 1)
      /\ ex - (D + 1) >= ExpMin /\ ey - (D + 1) >= ExpMin
  BY RoomySuffices
<1>2. CASE y = 0
  BY <1>2 DEF Div, Fail
<1>3. CASE y # 0 /\ x = 0
  BY <1>3 DEF Div, MaximizedZero, Num
<1>4. CASE y # 0 /\ x # 0
  <2>1. PICK A, B : A = Maximize(x, ex) /\ B = Maximize(y, ey)
    OBVIOUS
  <2>2. A.full /\ B.full
    BY <1>1, <1>4, <2>1, MaximizedDigits
  <2> QED BY <1>1, <1>4, <2>1, <2>2, DivTruncates
<1> QED BY <1>2, <1>3, <1>4

(***************************************************************************)
(* Solidity's remainder: what is left has the sign of the dividend, and so *)
(* has what is taken away.                                                 *)
(***************************************************************************)
LEMMA RemShrinks ==
  ASSUME NEW x \in Int, NEW y \in Nat, y >= 1
  PROVE  /\ Rem(x, y) \in Int /\ Abs(Rem(x, y)) < y
         /\ x >= 0 => Rem(x, y) \in 0..x /\ x - Rem(x, y) \in 0..x
         /\ x < 0 => Rem(x, y) \in x..0 /\ x - Rem(x, y) \in x..0
<1>1. PICK m \in Nat : m = Abs(x) /\ (x < 0 => x = -m) /\ (x >= 0 => x = m)
  BY DEF Abs
<1>2. PICK q \in Nat : q = m \div y
  BY DivBounds
<1>3. y * q <= m /\ m < y * (q + 1) /\ y * (q + 1) = y * q + y /\ y * (-q) = -(y * q)
  BY <1>2, DivBounds
<1>4. Quot(x, y) = IF x < 0 THEN -q ELSE q
  BY <1>1, <1>2, QuotForm
<1>5. PICK u \in Nat : u = y * q
  OBVIOUS
<1>6. Rem(x, y) = IF x < 0 THEN x + u ELSE x - u
  BY <1>3, <1>4, <1>5 DEF Rem
<1> QED BY <1>1, <1>3, <1>5, <1>6 DEF Abs

(***************************************************************************)
(* The parts of a coefficient are coefficients of its sign.                *)
(***************************************************************************)
LEMMA PartsAreCoef ==
  ASSUME NEW x \in Coef, NEW e \in Int, NEW p, p = IntFrac(x, e)
  PROVE  /\ p.integer \in Int /\ p.frac \in Int /\ p.integer + p.frac = x
         /\ x >= 0 => p.integer \in 0..x /\ p.frac \in 0..x
         /\ x < 0 => p.integer \in x..0 /\ p.frac \in x..0
<1>1. x \in Int /\ D \in Nat
  BY CoefIsInt, WidthsAreInts
<1>2. CASE e >= 0
  <2>1. ~(e < -D) /\ e \notin -D..-1
    BY <1>1, <1>2
  <2>2. p = [integer |-> x, frac |-> 0]
    BY <1>2, <2>1, Zenon DEF IntFrac
  <2> QED BY <1>1, <2>2
<1>3. CASE e < -D
  <2>1. p.integer = 0 /\ p.frac = x
    BY <1>1, <1>3 DEF IntFrac
  <2> QED BY <1>1, <2>1
<1>4. CASE e \in -D..-1
  <2>1. -e \in 0..(D + 1) /\ ~(e >= 0) /\ ~(e < -D)
    BY <1>1, <1>4
  <2>2. Pow10[-e] \in Nat /\ Pow10[-e] >= 1
    BY <2>1, Pow10Grows
  <2>3. PICK f \in Int : f = Rem(x, Pow10[-e])
    BY <1>1, <2>2, RemShrinks
  <2>4. p.integer = x - f /\ p.frac = f
    BY <1>4, <2>1, <2>3 DEF IntFrac
  <2>5. /\ x >= 0 => f \in 0..x /\ x - f \in 0..x
        /\ x < 0 => f \in x..0 /\ x - f \in x..0
    BY <1>1, <2>2, <2>3, RemShrinks
  <2> QED BY <1>1, <2>4, <2>5
<1> QED BY <1>1, <1>2, <1>3, <1>4

-----------------------------------------------------------------------------
(***************************************************************************)
(* Sums of packed numbers.                                                 *)
(***************************************************************************)

(***************************************************************************)
(* Aligned operands whose larger one ends in a zero: what is lost in the   *)
(* alignment is less than a unit of the sum, and nothing if they cancel.   *)
(***************************************************************************)
LEMMA AlignedSum ==
  ASSUME NEW l \in Coef, NEW h \in Int, l = h * 10, 10 * Abs(l) > CoefMax,
         NEW s \in Coef, NEW d \in 0..D, NEW e \in Exp, e < ExpMax,
         NEW r, r = AddAligned(l, Quot(s, Pow10[d]), e)
  PROVE  /\ r.status = "ok" /\ r.c \in Coef
         /\ r.c = 0 <=> l * Pow10[d] + s = 0
         /\ \E j \in {0, 1} :
              /\ r.e = e + j /\ d + j \in 0..(D + 1)
              /\ Abs(l * Pow10[d] + s - r.c * Pow10[d + j]) < Pow10[d + j]
              /\ j = 1 => Abs(r.c) > PackMax
<1>1. /\ l \in Int /\ s \in Int /\ D \in Nat /\ CoefMax \in Nat /\ CoefMax >= 10 /\ e \in Int
      /\ d \in 0..(D + 1) /\ d + 1 \in 0..(D + 1) /\ PackMax \in Nat /\ PackMax >= 10
      /\ 10 * (PackMax + 1) <= CoefMax
      /\ l <= CoefMax /\ l >= -CoefMax - 1 /\ s <= CoefMax /\ s >= -CoefMax - 1
  BY PowersOfCoef, Widths, WidthsFitDecimals DEF Coef, CoefMin, Exp, ExpMin
<1>2. Pow10[d + 1] = Pow10[d] * 10 /\ Pow10[d] \in Nat /\ Pow10[d] >= 1
  BY <1>1, NextPower
<1>3. PICK p \in Nat : p = Pow10[d]
  BY <1>2
<1>4. PICK q \in Int : q = Quot(s, p)
  BY <1>1, <1>2, <1>3, QuotLeaves
<1>5. PICK t \in Int : s = q * p + t /\ -p < t /\ t < p
  BY <1>1, <1>2, <1>3, <1>4, QuotLeaves
<1>6. PICK qp \in Int, lp \in Int : qp = q * p /\ lp = l * p
  BY <1>1
<1>7. CASE l + q \in Coef
  <2>1. r.c = l + q /\ r.e = e + 0 /\ r.status = "ok"
    BY <1>1, <1>3, <1>4, <1>7 DEF AddAligned, Num
  <2>2. PICK c \in Int : c = l + q
    BY <1>1
  <2>3. c * p = lp + qp
    BY <1>1, <1>6, <2>2
  <2>4. l * p + s - c * p = t /\ l * p + s = c * p + t
    BY <1>5, <1>6, <2>3
  <2>5. Abs(l * Pow10[d] + s - r.c * Pow10[d + 0]) < Pow10[d + 0]
    <3>1. Abs(t) < p /\ d + 0 = d
      BY <1>1, <1>5 DEF Abs
    <3> QED BY <1>3, <2>1, <2>2, <2>4, <3>1
  <2>6. ASSUME c = 0 PROVE t = 0
    <3>1. q = -l
      BY <1>1, <2>2, <2>6
    <3>2. CASE d = 0
      BY <1>3, <1>5, <3>2, Pow10Def
    <3>3. CASE d # 0
      <4>1. 1 \in 0..(D + 1) /\ 1 <= d
        BY <1>1, <3>3
      <4>2. 10 <= p
        BY <1>1, <1>3, <4>1, Pow10Grows, Pow10Def
      <4>3. PICK m \in Nat, n \in Nat : m = Abs(s) /\ n = m \div p
        BY <1>1, <1>2, <1>3, QuotForm
      <4>4. q = (IF s < 0 THEN -n ELSE n) /\ Abs(q) = n
        BY <1>1, <1>2, <1>3, <1>4, <4>3, QuotForm
      <4>5. p * n <= m
        BY <1>2, <1>3, <4>3, DivBounds
      <4>6. 10 * n > CoefMax
        BY <1>1, <3>1, <4>4 DEF Abs
      <4>7. n * 10 <= n * p
        BY <4>2, TimesGrows
      <4>8. m <= CoefMax + 1
        BY <1>1, <4>3 DEF Abs
      <4>9. p * n = n * p /\ n * p \in Nat
        BY <1>1
      <4>10. m = n * p
        BY <1>1, <4>5, <4>6, <4>7, <4>8, <4>9
      <4>11. (-n) * p = -(n * p)
        BY <1>1
      <4>12. CASE s < 0
        <5>1. s = -m /\ q = -n
          BY <1>1, <4>3, <4>4, <4>12 DEF Abs
        <5>2. q * p = -(n * p)
          BY <4>11, <5>1
        <5> QED BY <1>1, <1>5, <4>9, <4>10, <5>1, <5>2
      <4>13. CASE s >= 0
        <5>1. s = m /\ q = n
          BY <1>1, <4>3, <4>4, <4>13 DEF Abs
        <5>2. q * p = n * p
          BY <5>1
        <5> QED BY <1>1, <1>5, <4>9, <4>10, <5>1, <5>2
      <4> QED BY <1>1, <4>12, <4>13
    <3> QED BY <3>2, <3>3
  <2>7. ASSUME l * p + s = 0 PROVE c = 0
    <3>1. PICK u \in Int : u = -t /\ u < p /\ -u < p /\ c * p = u
      BY <1>1, <1>5, <2>3, <2>4, <2>7
    <3>2. u = 0 + c * p /\ u - 0 < p /\ 0 - u < p /\ p >= 1
      BY <1>2, <1>3, <3>1
    <3>3. u = 0
      BY <3>2, CongruentAndNear
    <3>4. c * p = 0 * p
      BY <3>1, <3>3
    <3> QED BY <3>2, <3>4, FactorCompares
  <2>8. c = 0 => l * p + s = 0
    <3>1. ASSUME c = 0 PROVE l * p + s = 0
      BY <2>3, <2>4, <2>6, <3>1
    <3> QED BY <3>1
  <2>9. d + 0 \in 0..(D + 1)
    BY <1>1
  <2> QED BY <1>3, <1>7, <2>1, <2>2, <2>5, <2>7, <2>8, <2>9
<1>8. CASE l + q \notin Coef
  <2>1. r = Num(WrapCoef(Quot(l, 10) + Quot(q, 10)), e + 1)
    BY <1>1, <1>3, <1>4, <1>8 DEF AddAligned
  <2>2. 10 \in Nat /\ 10 >= 1
    OBVIOUS
  <2>3. PICK q1 \in Int : q1 = Quot(l, 10)
    BY <1>1, <2>2, QuotLeaves, Zenon
  <2>4. PICK q2 \in Int : q2 = Quot(q, 10)
    BY <1>4, <2>2, QuotLeaves, Zenon
  <2>5. PICK r1 \in Int : l = q1 * 10 + r1 /\ -10 < r1 /\ r1 < 10
    BY <1>1, <2>2, <2>3, QuotLeaves, Zenon
  <2>6. PICK r2 \in Int : q = q2 * 10 + r2 /\ -10 < r2 /\ r2 < 10
    BY <1>4, <2>2, <2>4, QuotLeaves, Zenon
  <2>7. r1 = 0
    BY <2>5
  <2>8. q <= CoefMax /\ q >= -CoefMax - 1
    <3>1. (s >= 0 => q \in 0..s) /\ (s < 0 => q \in s..0)
      BY <1>1, <1>2, <1>3, <1>4, QuotShrinks
    <3> QED BY <1>1, <3>1
  <2>9. PICK c \in Int : c = q1 + q2
    OBVIOUS
  <2>10. c \in Coef
    BY <1>1, <2>5, <2>6, <2>8, <2>9 DEF Coef, CoefMin
  <2>11. WrapCoef(c) = c
    BY <1>1, <2>10, WrapKeepsType DEF WrapCoef, Coef, CoefMin
  <2>12. r.c = c /\ r.e = e + 1 /\ r.status = "ok"
    BY <2>1, <2>3, <2>4, <2>9, <2>11 DEF Num
  <2>13. l + q = c * 10 + r2
    BY <2>5, <2>6, <2>7, <2>9
  <2>14. Abs(c) > PackMax
    <3>1. l + q > CoefMax \/ l + q < -CoefMax - 1
      BY <1>1, <1>8 DEF Coef, CoefMin
    <3> QED BY <1>1, <2>6, <2>13, <3>1 DEF Abs
  <2>15. PICK v \in Int, w \in Int : v = r2 * p /\ w = c * (p * 10)
    OBVIOUS
  <2>16. v <= 9 * p /\ v >= -(9 * p)
    <3>1. p * r2 <= p * 9 /\ p * (-9) <= p * r2
      <4>1. r2 <= 9 /\ -9 <= r2 /\ 9 \in Int /\ -9 \in Int
        BY <2>6
      <4> QED BY <4>1, TimesGrows, Zenon
    <3>2. r2 * p = p * r2
      OBVIOUS
    <3> QED BY <2>15, <3>1, <3>2
  <2>17. lp + qp = w + v
    <3>1. (l + q) * p = l * p + q * p
      BY <1>1
    <3>2. (c * 10 + r2) * p = c * (p * 10) + r2 * p
      OBVIOUS
    <3> QED BY <1>6, <2>13, <2>15, <3>1, <3>2
  <2>18. l * p + s - c * (p * 10) = v + t
    BY <1>5, <1>6, <2>15, <2>17
  <2>19. Abs(l * Pow10[d] + s - r.c * Pow10[d + 1]) < Pow10[d + 1]
    <3>1. Abs(v + t) < p * 10
      BY <1>5, <2>15, <2>16 DEF Abs
    <3> QED BY <1>2, <1>3, <2>12, <2>18, <3>1
  <2>20. l * p + s # 0
    <3>1. w + v + t # 0
      <4>1. c >= 1 => (p * 10) * 1 <= (p * 10) * c
        BY TimesGrows
      <4>2. c <= -1 => (p * 10) * c <= (p * 10) * (-1)
        BY TimesGrows
      <4>3. c >= 1 \/ c <= -1
        BY <1>1, <2>14 DEF Abs
      <4>4. w = (p * 10) * c
        BY <2>15
      <4> QED BY <1>2, <1>3, <1>5, <2>15, <2>16, <4>1, <4>2, <4>3, <4>4
    <3> QED BY <1>5, <1>6, <2>17, <3>1
  <2>21. r.c # 0
    BY <1>1, <2>12, <2>14 DEF Abs
  <2> QED BY <1>1, <1>3, <2>10, <2>12, <2>14, <2>19, <2>20, <2>21
<1> QED BY <1>7, <1>8

(***************************************************************************)
(* A number that is maximized is the number it was, and one of few digits  *)
(* then ends in a zero: packed numbers, and one.                           *)
(***************************************************************************)
Short(x) == Abs(x) <= PackMax + 1 \/ Abs(x) = Pow10[D]

LEMMA MaximizedShort ==
  ASSUME NEW x \in Coef, x # 0, Short(x), NEW e \in Roomy, NEW m, m = Maximize(x, e)
  PROVE  /\ m.c \in Coef /\ m.c # 0 /\ m.e \in Exp /\ m.e \in Int /\ m.e <= e /\ e - D <= m.e
         /\ m.full /\ 10 * Abs(m.c) > CoefMax
         /\ \E h \in Int : m.c = h * 10
         /\ \A z \in Int : z <= m.e => InUnits(m.c, m.e, z) = InUnits(x, e, z)
<1>1. e \in Exp /\ e - (D + 1) >= ExpMin /\ e \in Int /\ x \in Int /\ D \in Nat
  BY RoomySuffices, CoefIsInt, WidthsAreInts
<1>2. /\ m.c \in Coef /\ m.c # 0 /\ m.e \in Exp /\ SameNumber(x, e, m.c, m.e)
      /\ m.e \in Int /\ m.e <= e /\ e - D <= m.e
      /\ m.full /\ 10 * Abs(m.c) > CoefMax
  BY <1>1, MaximizedNumber, MaximizedDigits
<1>3. PICK k \in 0..D : m.c = x * Pow10[k]
  BY <1>1, MaximizedBy
<1>4. \E h \in Int : m.c = h * 10
  <2>1. CASE k = 0
    <3>1. m.c = x
      <4>1. x * 1 = x /\ Pow10[0] = 1
        BY <1>1, Pow10Def
      <4> QED BY <1>3, <2>1, <4>1
    <3>2. ~(Abs(x) <= PackMax + 1)
      BY <1>1, <1>2, <3>1, WidthsFitDecimals, WidthsAreInts DEF Abs
    <3>3. PICK u \in Nat : u = Pow10[D - 1] /\ Pow10[D] = u * 10
      <4>1. Pow10[D - 1] \in Nat
        BY PowersOfCoef
      <4> QED BY <4>1, PowersOfCoef
    <3>4. Abs(x) = u * 10
      BY <3>2, <3>3 DEF Short
    <3>5. x = u * 10 \/ x = (-u) * 10
      BY <1>1, <3>4 DEF Abs
    <3>6. PICK v \in Int : v = -u
      OBVIOUS
    <3>7. CASE x = u * 10
      <4>1. m.c = u * 10 /\ u \in Int
        BY <3>1, <3>7
      <4> QED BY <4>1, Zenon
    <3>8. CASE x = (-u) * 10
      <4>1. m.c = v * 10
        BY <3>1, <3>6, <3>8
      <4> QED BY <4>1, Zenon
    <3> QED BY <3>5, <3>7, <3>8
  <2>2. CASE k # 0
    <3>1. k - 1 \in 0..(D + 1) /\ (k - 1) + 1 \in 0..(D + 1) /\ (k - 1) + 1 = k
      BY <1>1, <2>2
    <3>2. PICK u \in Nat : u = Pow10[k - 1] /\ Pow10[k] = u * 10
      BY <3>1, NextPower
    <3>3. x * (u * 10) = (x * u) * 10 /\ x * u \in Int
      BY <1>1
    <3> QED BY <1>3, <3>2, <3>3
  <2> QED BY <2>1, <2>2
<1>5. ASSUME NEW z \in Int, z <= m.e PROVE InUnits(m.c, m.e, z) = InUnits(x, e, z)
  <2>1. z <= e
    BY <1>1, <1>2, <1>5
  <2>2. PICK y \in Int, c \in Coef, f \in Int : y = e /\ z <= y /\ c = m.c /\ f = m.e /\ z <= f
    BY <1>1, <1>2, <1>5, <2>1
  <2>3. SameNumber(x, y, c, f) <=> InUnits(x, y, z) = InUnits(c, f, z)
    BY <2>2, SameCompares
  <2> QED BY <1>2, <2>2, <2>3
<1> QED BY <1>2, <1>4, <1>5

(***************************************************************************)
(* r holds the sum X, in units of 10^z, but for less than a unit of its    *)
(* last digit; a digit gained is dropped only from full coefficients.      *)
(***************************************************************************)
HoldsSum(r, X, ex, ey, z) ==
  /\ r.status = "ok" /\ r.c \in Coef /\ r.e \in Int /\ z <= r.e
  /\ r.c = 0 <=> X = 0
  /\ Abs(X - InUnits(r.c, r.e, z)) < ten[r.e - z]
  /\ r.e <= ex \/ r.e <= ey \/ (r.e = ex + 1 /\ Abs(r.c) > PackMax)
                            \/ (r.e = ey + 1 /\ Abs(r.c) > PackMax)

(***************************************************************************)
(* What add answers of maximized operands.                                 *)
(***************************************************************************)
LEMMA SumOfOrdered ==
  ASSUME NEW L, NEW S, L.c \in Coef, S.c \in Coef, L.c # 0, L.e \in Exp, L.e < ExpMax, S.e \in Exp,
         L.e >= S.e, 10 * Abs(L.c) > CoefMax, \E h \in Int : L.c = h * 10,
         NEW r, r = (IF L.e - S.e > D THEN Num(L.c, L.e)
                                      ELSE AddAligned(L.c, Quot(S.c, Pow10[L.e - S.e]), L.e)),
         NEW z \in Int, z <= S.e,
         NEW X, X = InUnits(L.c, L.e, z) + InUnits(S.c, S.e, z)
  PROVE  /\ r.status = "ok" /\ r.c \in Coef /\ r.e \in Int /\ z <= r.e
         /\ r.c = 0 <=> X = 0
         /\ Abs(X - InUnits(r.c, r.e, z)) < ten[r.e - z]
         /\ r.e = L.e \/ (r.e = L.e + 1 /\ Abs(r.c) > PackMax)
<1>1. PICK l, s, e, f, h : l = L.c /\ s = S.c /\ e = L.e /\ f = S.e /\ h \in Int /\ l = h * 10
  OBVIOUS
<1>2. /\ l \in Coef /\ s \in Coef /\ l \in Int /\ s \in Int /\ e \in Int /\ f \in Int /\ e \in Exp
      /\ D \in Nat /\ s <= CoefMax /\ s >= -CoefMax - 1 /\ CoefMax \in Nat
  <2>1. l \in Coef /\ s \in Coef /\ e \in Exp /\ f \in Exp
    BY <1>1
  <2> QED BY <2>1, Widths, WidthsAreInts DEF Coef, CoefMin, Exp, ExpMin
<1>3. PICK d \in Nat : d = e - f
  BY <1>1, <1>2
<1>4. PICK w \in Nat : w = ten[f - z] /\ w >= 1
  <2>1. f - z \in Nat
    BY <1>1, <1>2
  <2> QED BY <2>1, TenType
<1>5. PICK t \in Nat : t = ten[d] /\ t >= 1
  BY TenType
<1>6. ten[e - z] = t * w
  <2>1. f - z \in Nat /\ d + (f - z) = e - z
    BY <1>1, <1>2, <1>3
  <2>2. ten[d + (f - z)] = ten[d] * ten[f - z]
    BY <2>1, TenAdds
  <2> QED BY <1>4, <1>5, <2>1, <2>2
<1>7. PICK lt \in Int : lt = l * t
  BY <1>2
<1>8. X = (lt + s) * w
  <2>1. l * (t * w) = (l * t) * w /\ (lt + s) * w = lt * w + s * w
    BY <1>2
  <2> QED BY <1>1, <1>4, <1>6, <1>7, <2>1 DEF InUnits
<1>9. X \in Int /\ (X = 0 <=> lt + s = 0)
  <2>1. lt + s \in Int /\ 0 * w = 0
    BY <1>2
  <2> QED BY <1>4, <1>8, <2>1, FactorCompares
<1>10. CASE d > D
  <2>1. r.status = "ok" /\ r.c = l /\ r.e = e
    BY <1>1, <1>3, <1>10 DEF Num
  <2>2. s < t /\ -t < s
    <3>1. Pow10[D + 1] = ten[D + 1] /\ CoefMax + 1 < Pow10[D + 1] /\ D + 1 \in Nat
      BY <1>2, PowersAreTens, PowersOfCoef
    <3>2. ten[D + 1] <= ten[d] /\ ten[D + 1] \in Nat
      BY <1>2, <1>10, <3>1, TenGrows, TenType
    <3> QED BY <1>2, <1>5, <3>1, <3>2
  <2>3. X - InUnits(l, e, z) = s * w
    BY <1>1, <1>2, <1>4, <1>6 DEF InUnits
  <2>4. Abs(s * w) < t * w
    <3>1. s * w < t * w
      BY <1>2, <1>4, <2>2, FactorCompares
    <3>2. (-t) * w < s * w
      BY <1>2, <1>4, <2>2, FactorCompares
    <3>3. (-t) * w = -(t * w)
      OBVIOUS
    <3> QED BY <1>2, <1>4, <3>1, <3>2, <3>3 DEF Abs
  <2>5. lt + s # 0
    <3>1. l >= 1 => t * 1 <= t * l
      BY <1>2, TimesGrows
    <3>2. l <= -1 => t * l <= t * (-1)
      BY <1>2, TimesGrows
    <3>3. (l >= 1 \/ l <= -1) /\ lt = t * l
      BY <1>1, <1>2, <1>7
    <3> QED BY <1>2, <2>2, <3>1, <3>2, <3>3
  <2> QED BY <1>1, <1>2, <1>6, <1>9, <2>1, <2>3, <2>4, <2>5
<1>11. CASE ~(d > D)
  <2>1. d \in 0..D /\ d \in 0..(D + 1)
    BY <1>2, <1>11
  <2>2. r = AddAligned(l, Quot(s, Pow10[d]), e)
    BY <1>1, <1>3, <1>11
  <2>3. Pow10[d] = t
    BY <1>5, <2>1, PowersAreTens
  <2>4. /\ r.status = "ok" /\ r.c \in Coef
        /\ r.c = 0 <=> l * Pow10[d] + s = 0
        /\ \E j \in {0, 1} :
              /\ r.e = e + j /\ d + j \in 0..(D + 1)
              /\ Abs(l * Pow10[d] + s - r.c * Pow10[d + j]) < Pow10[d + j]
              /\ j = 1 => Abs(r.c) > PackMax
    BY <1>1, <1>2, <2>1, <2>2, AlignedSum
  <2>5. PICK j \in {0, 1} : /\ r.e = e + j /\ d + j \in 0..(D + 1)
                            /\ Abs(lt + s - r.c * Pow10[d + j]) < Pow10[d + j]
                            /\ j = 1 => Abs(r.c) > PackMax
    BY <1>7, <2>3, <2>4
  <2>6. PICK v \in Nat : v = Pow10[d + j] /\ v >= 1 /\ v = ten[d + j] /\ ten[r.e - z] = v * w
    <3>1. Pow10[d + j] = ten[d + j] /\ ten[d + j] \in Nat /\ ten[d + j] >= 1
      BY <2>5, PowersAreTens, TenType
    <3>2. d + j \in Nat /\ f - z \in Nat /\ (d + j) + (f - z) = r.e - z
      BY <1>1, <1>2, <1>3, <2>5
    <3>3. ten[(d + j) + (f - z)] = ten[d + j] * ten[f - z]
      BY <3>2, TenAdds
    <3> QED BY <1>4, <3>1, <3>2, <3>3
  <2>7. PICK c \in Int, cv \in Int : c = r.c /\ cv = c * v
    BY <2>4, CoefIsInt
  <2>8. Abs(lt + s - cv) < v
    BY <2>5, <2>6, <2>7
  <2>9. X - InUnits(r.c, r.e, z) = (lt + s - cv) * w
    <3>1. c * (v * w) = (c * v) * w /\ (lt + s - cv) * w = (lt + s) * w - cv * w
      BY <1>2
    <3> QED BY <1>8, <2>6, <2>7, <3>1 DEF InUnits
  <2>10. Abs((lt + s - cv) * w) < v * w
    <3>1. PICK g \in Int : g = lt + s - cv
      BY <1>2
    <3>2. g < v /\ -v < g
      BY <2>8, <3>1 DEF Abs
    <3>3. g * w < v * w /\ (-v) * w < g * w /\ g * w \in Int /\ v * w \in Int
      BY <1>4, <3>2, FactorCompares
    <3>4. (-v) * w = -(v * w)
      OBVIOUS
    <3>5. Abs(g * w) < v * w
      BY <3>3, <3>4 DEF Abs
    <3> QED BY <3>1, <3>5
  <2>11. z <= r.e /\ r.e \in Int
    BY <1>1, <1>2, <2>5
  <2>12. r.c = 0 <=> X = 0
    BY <1>7, <1>9, <2>3, <2>4
  <2>13. Abs(X - InUnits(r.c, r.e, z)) < ten[r.e - z]
    BY <2>6, <2>9, <2>10
  <2>14. r.e = L.e \/ (r.e = L.e + 1 /\ Abs(r.c) > PackMax)
    BY <1>1, <1>2, <2>5
  <2> QED BY <2>4, <2>11, <2>12, <2>13, <2>14
<1> QED BY <1>10, <1>11

(***************************************************************************)
(* What add answers of short operands, zero included.                      *)
(***************************************************************************)
LEMMA SumOfShort ==
  ASSUME NEW x \in Coef, NEW y \in Coef, Short(x), Short(y), NEW ex \in Roomy, NEW ey \in Roomy,
         NEW r, r = Add(x, ex, y, ey), NEW z \in Int, z <= ex - D, z <= ey - D,
         NEW X, X = InUnits(x, ex, z) + InUnits(y, ey, z)
  PROVE  HoldsSum(r, X, ex, ey, z)
<1>1. /\ ex \in Exp /\ ey \in Exp /\ ex \in Int /\ ey \in Int /\ ex < ExpMax /\ ey < ExpMax
      /\ D \in Nat /\ x \in Int /\ y \in Int /\ 0 \in Coef
  BY RoomySuffices, CoefIsInt, WidthsAreInts, Widths DEF Coef, CoefMin
<1>2. z <= ex /\ z <= ey /\ ex - z \in Nat /\ ey - z \in Nat
  BY <1>1
<1>3. PICK u \in Nat, v \in Nat : u = ten[ex - z] /\ v = ten[ey - z] /\ u >= 1 /\ v >= 1
  BY <1>2, TenType
<1>4. X = x * u + y * v
  BY <1>3 DEF InUnits
<1>5. CASE x = 0
  <2>1. r = Num(y, ey)
    BY <1>5 DEF Add
  <2>2. x * u = 0 /\ y * v \in Int /\ 0 * v = 0
    BY <1>1, <1>5
  <2>3. X = y * v
    BY <1>4, <2>2
  <2>4. X = 0 <=> y = 0
    BY <1>1, <1>3, <2>2, <2>3, FactorCompares
  <2>5. X - InUnits(r.c, r.e, z) = 0
    BY <1>3, <2>1, <2>2, <2>3 DEF InUnits, Num
  <2> QED BY <1>1, <1>2, <1>3, <2>1, <2>4, <2>5 DEF HoldsSum, Num, Abs
<1>6. CASE x # 0 /\ y = 0
  <2>1. r = Num(x, ex)
    BY <1>6 DEF Add
  <2>2. y * v = 0 /\ x * u \in Int /\ 0 * u = 0
    BY <1>1, <1>6
  <2>3. X = x * u
    BY <1>4, <2>2
  <2>4. X = 0 <=> x = 0
    BY <1>1, <1>3, <2>2, <2>3, FactorCompares
  <2>5. X - InUnits(r.c, r.e, z) = 0
    BY <1>3, <2>1, <2>2, <2>3 DEF InUnits, Num
  <2> QED BY <1>1, <1>2, <1>3, <2>1, <2>4, <2>5 DEF HoldsSum, Num, Abs
<1>7. CASE x # 0 /\ y # 0
  <2>1. PICK A, B : A = Maximize(x, ex) /\ B = Maximize(y, ey)
    OBVIOUS
  <2>2. /\ A.c \in Coef /\ A.c # 0 /\ A.e \in Exp /\ A.e \in Int /\ A.e <= ex /\ ex - D <= A.e
        /\ A.full /\ 10 * Abs(A.c) > CoefMax
        /\ \E h \in Int : A.c = h * 10
        /\ \A w \in Int : w <= A.e => InUnits(A.c, A.e, w) = InUnits(x, ex, w)
    BY <1>7, <2>1, MaximizedShort
  <2>3. /\ B.c \in Coef /\ B.c # 0 /\ B.e \in Exp /\ B.e \in Int /\ B.e <= ey /\ ey - D <= B.e
        /\ B.full /\ 10 * Abs(B.c) > CoefMax
        /\ \E h \in Int : B.c = h * 10
        /\ \A w \in Int : w <= B.e => InUnits(B.c, B.e, w) = InUnits(y, ey, w)
    BY <1>7, <2>1, MaximizedShort
  <2>4. z <= A.e /\ z <= B.e /\ A.e < ExpMax /\ B.e < ExpMax
    <3>1. ExpMax \in Int
      BY WidthsAreInts
    <3> QED BY <1>1, <2>2, <2>3, <3>1
  <2>5. InUnits(A.c, A.e, z) = InUnits(x, ex, z) /\ InUnits(B.c, B.e, z) = InUnits(y, ey, z)
    BY <2>2, <2>3, <2>4
  <2>6. r = AddMaximized(A, B)
    BY <1>7, <2>1, <2>2, <2>3 DEF Add
  <2>7. InUnits(x, ex, z) + InUnits(y, ey, z) = InUnits(y, ey, z) + InUnits(x, ex, z)
    BY <1>1, <1>3 DEF InUnits
  <2>8. CASE B.e > A.e
    <3>1. r = IF B.e - A.e > D THEN Num(B.c, B.e) ELSE AddAligned(B.c, Quot(A.c, Pow10[B.e - A.e]), B.e)
      BY <2>6, <2>8 DEF AddMaximized
    <3>2. X = InUnits(B.c, B.e, z) + InUnits(A.c, A.e, z) /\ B.e >= A.e
      BY <2>2, <2>3, <2>5, <2>7, <2>8
    <3>3. /\ r.status = "ok" /\ r.c \in Coef /\ r.e \in Int /\ z <= r.e
          /\ r.c = 0 <=> X = 0
          /\ Abs(X - InUnits(r.c, r.e, z)) < ten[r.e - z]
          /\ r.e = B.e \/ (r.e = B.e + 1 /\ Abs(r.c) > PackMax)
      BY <2>2, <2>3, <2>4, <3>1, <3>2, SumOfOrdered
    <3>4. r.e <= ex \/ r.e <= ey \/ (r.e = ex + 1 /\ Abs(r.c) > PackMax)
                                 \/ (r.e = ey + 1 /\ Abs(r.c) > PackMax)
      BY <1>1, <2>2, <2>3, <3>3
    <3> QED BY <3>3, <3>4 DEF HoldsSum
  <2>9. CASE ~(B.e > A.e)
    <3>1. r = IF A.e - B.e > D THEN Num(A.c, A.e) ELSE AddAligned(A.c, Quot(B.c, Pow10[A.e - B.e]), A.e)
      BY <2>6, <2>9 DEF AddMaximized
    <3>2. X = InUnits(A.c, A.e, z) + InUnits(B.c, B.e, z) /\ A.e >= B.e
      BY <2>2, <2>3, <2>5, <2>9
    <3>3. /\ r.status = "ok" /\ r.c \in Coef /\ r.e \in Int /\ z <= r.e
          /\ r.c = 0 <=> X = 0
          /\ Abs(X - InUnits(r.c, r.e, z)) < ten[r.e - z]
          /\ r.e = A.e \/ (r.e = A.e + 1 /\ Abs(r.c) > PackMax)
      BY <2>2, <2>3, <2>4, <3>1, <3>2, SumOfOrdered
    <3>4. r.e <= ex \/ r.e <= ey \/ (r.e = ex + 1 /\ Abs(r.c) > PackMax)
                                 \/ (r.e = ey + 1 /\ Abs(r.c) > PackMax)
      BY <1>1, <2>2, <2>3, <3>3
    <3> QED BY <3>3, <3>4 DEF HoldsSum
  <2> QED BY <2>8, <2>9
<1> QED BY <1>5, <1>6, <1>7

(***************************************************************************)
(* Packing, in units of 10^z: what is cut off is less than a unit of the   *)
(* packed number, and what is packed is about as large as an int224.       *)
(***************************************************************************)
LEMMA PackedInUnits ==
  ASSUME NEW c \in Coef, c # 0, NEW e \in Exp, e + D + 1 <= ExpMax,
         NEW p, p = PackArithmeticResult(c, e), NEW z \in Int, z <= e,
         NEW w, w = ten[e - z]
  PROVE  /\ w \in Nat /\ w >= 1
         /\ \E k \in 0..(D + 1), P \in Nat :
              /\ p.status = Fate(e + k) /\ P = ten[k] /\ P >= 1 /\ ten[e + k - z] = P * w
              /\ p.status = "ok" =>
                   /\ p.c \in Packed /\ p.c # 0 /\ p.e = e + k
                   /\ Abs(c * w - p.c * (P * w)) <= P * w - w
              /\ Abs(c) + 1 <= (PackMax + 2) * P
              /\ k > 0 => (PackMax + 1) * ten[k - 1] <= Abs(c)
<1>1. c \in Int /\ e \in Int /\ e - z \in Nat /\ PackMax \in Nat /\ D \in Nat
  BY CoefIsInt, Widths, WidthsAreInts DEF Exp, ExpMin
<1>2. w \in Nat /\ w >= 1
  BY <1>1, TenType
<1>3. PICK k : k = DigitsToDrop(c)
  OBVIOUS
<1>4. PICK q : q = Quot(c, Pow10[k])
  OBVIOUS
<1>5. /\ k \in 0..(D + 1) /\ q \in Packed /\ q # 0 /\ (q < 0 <=> c < 0)
      /\ Abs(q) = Abs(c) \div Pow10[k]
      /\ k > 0 => k - 1 \in 0..(D + 1) /\ Abs(c) \div Pow10[k - 1] > PackMax
  BY <1>3, <1>4, DropsKeepDigits
<1>6. /\ p.status = Fate(e + k)
      /\ p.status = "ok" => p.c = q /\ p.e = e + k
  BY <1>3, <1>4, PackTruncates
<1>7. PICK P \in Nat : P = ten[k] /\ P >= 1 /\ Pow10[k] = P
  BY <1>5, PowersAreTens, TenType
<1>8. ten[e + k - z] = P * w
  <2>1. k \in Nat /\ k + (e - z) = e + k - z
    BY <1>1, <1>5
  <2>2. ten[k + (e - z)] = ten[k] * ten[e - z]
    BY <1>1, <2>1, TenAdds
  <2> QED BY <1>7, <2>1, <2>2
<1>9. PICK m \in Nat, n \in Nat : m = Abs(c) /\ n = m \div P /\ Abs(q) = n /\ n <= PackMax + 1
  <2>1. Abs(c) \in Nat
    BY <1>1, CoefMagnitude
  <2>2. q \in Int /\ Abs(q) <= PackMax + 1
    BY <1>1, <1>5 DEF Packed, PackMin, Abs
  <2>3. PICK m \in Nat : m = Abs(c)
    BY <2>1
  <2>4. PICK n \in Nat : n = m \div P
    BY <1>7, DivBounds
  <2> QED BY <1>5, <1>7, <2>2, <2>3, <2>4
<1>10. P * n <= m /\ m < P * (n + 1)
  BY <1>7, <1>9, DivBounds
<1>11. m + 1 <= (PackMax + 2) * P
  <2>1. P * (n + 1) <= P * (PackMax + 2)
    BY <1>1, <1>9, TimesGrows
  <2>2. P * (PackMax + 2) = (PackMax + 2) * P /\ P * (PackMax + 2) \in Nat /\ P * (n + 1) \in Nat
    BY <1>1
  <2> QED BY <1>10, <2>1, <2>2
<1>12. ASSUME k > 0 PROVE (PackMax + 1) * ten[k - 1] <= m
  <2>1. PICK R \in Nat : R = ten[k - 1] /\ R >= 1 /\ Pow10[k - 1] = R
    BY <1>5, <1>12, PowersAreTens, TenType
  <2>2. m \div R > PackMax
    BY <1>5, <1>9, <1>12, <2>1
  <2>3. m \div R \in Nat
    BY <2>1, DivBounds
  <2>4. R * (PackMax + 1) <= m <=> PackMax + 1 <= m \div R
    BY <1>1, <2>1, DivAtLeast
  <2>5. R * (PackMax + 1) = (PackMax + 1) * R
    BY <1>1
  <2> QED BY <1>1, <2>1, <2>2, <2>3, <2>4, <2>5
<1>13. q \in Int
  BY <1>5, PackedIsRoomy
<1>14. Abs(c * w - q * (P * w)) <= P * w - w
  <2>1. PICK g \in Int : g = P * n /\ m - g <= P - 1 /\ 0 <= m - g
    <3>1. P * (n + 1) = P * n + P
      OBVIOUS
    <3> QED BY <1>10, <3>1
  <2>2. PICK d \in Int : d = m - g
    OBVIOUS
  <2>3. w * d <= w * (P - 1) /\ w * 0 <= w * d
    BY <1>2, <2>1, <2>2, TimesGrows
  <2>4. w * (P - 1) = P * w - w /\ d * w = w * d /\ w * 0 = 0
    BY <1>2
  <2>5. c * w - q * (P * w) = d * w \/ c * w - q * (P * w) = -(d * w)
    <3>1. CASE c < 0
      <4>1. c = -m /\ q = -n
        BY <1>1, <1>5, <1>9, <1>13, <3>1 DEF Abs
      <4>2. (-m) * w = -(m * w) /\ (-n) * (P * w) = -((P * n) * w) /\ d * w = m * w - g * w
        BY <1>2, <2>2
      <4>3. c * w = -(m * w) /\ q * (P * w) = -(g * w)
        BY <2>1, <4>1, <4>2
      <4>4. m * w \in Int /\ g * w \in Int
        BY <1>2
      <4> QED BY <4>2, <4>3, <4>4
    <3>2. CASE ~(c < 0)
      <4>1. c = m /\ q = n
        BY <1>1, <1>5, <1>9, <1>13, <3>2 DEF Abs
      <4>2. n * (P * w) = (P * n) * w /\ d * w = m * w - g * w
        BY <1>2, <2>2
      <4>3. c * w = m * w /\ q * (P * w) = g * w
        BY <2>1, <4>1, <4>2
      <4> QED BY <4>2, <4>3
    <3> QED BY <3>1, <3>2
  <2>6. PICK x \in Int, y \in Int : x = c * w - q * (P * w) /\ y = d * w /\ y >= 0 /\ y <= P * w - w
    BY <1>1, <1>2, <1>13, <2>3, <2>4
  <2>7. x = y \/ x = -y
    BY <2>5, <2>6
  <2>8. Abs(x) = y
    BY <2>6, <2>7 DEF Abs
  <2> QED BY <2>6, <2>8
<1>15. p.status = "ok" => p.c \in Packed /\ p.c # 0 /\ p.e = e + k /\ Abs(c * w - p.c * (P * w)) <= P * w - w
  BY <1>5, <1>6, <1>14
<1>16. Abs(c) + 1 <= (PackMax + 2) * P /\ (k > 0 => (PackMax + 1) * ten[k - 1] <= Abs(c))
  BY <1>9, <1>11, <1>12
<1> QED BY <1>2, <1>5, <1>6, <1>7, <1>8, <1>15, <1>16

(***************************************************************************)
(* A sum that is packed is still less than a unit of its last digit away,  *)
(* and what does not pack is out of the range of packed numbers.           *)
(***************************************************************************)
LEMMA SumPacks ==
  ASSUME NEW r, NEW X \in Int, NEW ex \in Roomy, NEW ey \in Roomy, NEW z \in Int, z <= PackExpMin - 1,
         HoldsSum(r, X, ex, ey, z), r.e + D + 1 <= ExpMax, r.e \in Exp,
         NEW p, p = PackArithmeticResult(r.c, r.e)
  PROVE  /\ Good(p)
         /\ p.status = "ok" =>
              /\ p.c \in Packed /\ p.e \in PackExp
              /\ p.c = 0 <=> X = 0
              /\ Abs(X - InUnits(p.c, p.e, z)) < ten[p.e - z]
         /\ p.status = "ExponentOverflow" => InUnits(PackMax, PackExpMax, z) < Abs(X)
         /\ p.status = "ExponentUnderflow" => X # 0 /\ Abs(X) < InUnits(PackMax + 2, PackExpMin - 1, z)
<1>1. PICK c, e : c = r.c /\ e = r.e
  OBVIOUS
<1>2. /\ c \in Coef /\ c \in Int /\ e \in Int /\ e \in Exp /\ z <= e /\ e + D + 1 <= ExpMax
      /\ c = 0 <=> X = 0
      /\ Abs(X - InUnits(c, e, z)) < ten[e - z]
      /\ e <= ex \/ e <= ey \/ (e = ex + 1 /\ Abs(c) > PackMax) \/ (e = ey + 1 /\ Abs(c) > PackMax)
  BY <1>1, CoefIsInt DEF HoldsSum
<1>3. /\ PackMax \in Nat /\ PackMax >= 10 /\ PackExpMax \in Nat /\ PackExpMin = -PackExpMax - 1 /\ D \in Nat
      /\ ex \in Int /\ ey \in Int /\ ex <= PackExpMax /\ ey <= PackExpMax
      /\ PackExpMin - 1 - z \in Nat /\ PackExpMax - z \in Nat
  BY Widths, WidthsAreInts DEF PackExpMin, Roomy
<1>4. CASE c = 0
  <2>1. p.status = "ok" /\ p.c = 0 /\ p.e = 0
    BY <1>1, <1>4, ZeroPacks
  <2>2. 0 - z \in Nat /\ 0 \in PackExp /\ 0 \in Packed
    BY <1>3 DEF PackExp, Packed, PackMin
  <2>3. ten[0 - z] \in Nat /\ ten[0 - z] >= 1 /\ 0 * ten[0 - z] = 0
    BY <2>2, TenType
  <2>4. X = 0 /\ Abs(X - InUnits(p.c, p.e, z)) = 0
    BY <1>2, <1>4, <2>1, <2>3 DEF InUnits, Abs
  <2> QED BY <2>1, <2>2, <2>3, <2>4 DEF Good
<1>5. CASE c # 0
  <2>1. PICK w : w = ten[e - z]
    OBVIOUS
  <2>2. /\ w \in Nat /\ w >= 1
        /\ \E k \in 0..(D + 1), P \in Nat :
              /\ p.status = Fate(e + k) /\ P = ten[k] /\ P >= 1 /\ ten[e + k - z] = P * w
              /\ p.status = "ok" =>
                   /\ p.c \in Packed /\ p.c # 0 /\ p.e = e + k
                   /\ Abs(c * w - p.c * (P * w)) <= P * w - w
              /\ Abs(c) + 1 <= (PackMax + 2) * P
              /\ k > 0 => (PackMax + 1) * ten[k - 1] <= Abs(c)
    BY <1>1, <1>2, <1>5, <2>1, PackedInUnits
  <2>3. PICK k \in 0..(D + 1), P \in Nat :
              /\ p.status = Fate(e + k) /\ P = ten[k] /\ P >= 1 /\ ten[e + k - z] = P * w
              /\ p.status = "ok" =>
                   /\ p.c \in Packed /\ p.c # 0 /\ p.e = e + k
                   /\ Abs(c * w - p.c * (P * w)) <= P * w - w
              /\ Abs(c) + 1 <= (PackMax + 2) * P
              /\ k > 0 => (PackMax + 1) * ten[k - 1] <= Abs(c)
    BY <2>2
  <2>4. PICK t \in Int : t = X - c * w /\ t < w /\ -w < t /\ c * w \in Int
    <3>1. Abs(X - c * w) < w /\ X - c * w \in Int /\ c * w \in Int
      BY <1>2, <2>1, <2>2 DEF InUnits
    <3> QED BY <2>2, <3>1 DEF Abs
  <2>5. PICK m \in Nat : m = Abs(c) /\ m >= 1
    BY <1>2, <1>5 DEF Abs
  <2>6. PICK mw \in Nat, W \in Nat : mw = m * w /\ W = P * w
    BY <2>2
  <2>a. PICK g \in Int : g = e + k /\ ten[g - z] = W
    BY <1>2, <2>3, <2>6
  <2>7. c * w = mw \/ c * w = -mw
    <3>1. c = m \/ c = -m
      BY <1>2, <2>5 DEF Abs
    <3>2. (-m) * w = -(m * w)
      BY <2>2
    <3> QED BY <2>6, <3>1, <3>2
  <2>8. Abs(X) < mw + w /\ mw - w < Abs(X)
    BY <2>2, <2>4, <2>6, <2>7 DEF Abs
  <2>9. ASSUME p.status = "ok"
        PROVE  /\ p.c \in Packed /\ p.e \in PackExp /\ p.c # 0
               /\ Abs(X - InUnits(p.c, p.e, z)) < ten[p.e - z]
    <3>1. e + k \in PackExp /\ p.e = e + k /\ p.c \in Packed /\ p.c # 0
      BY <2>3, <2>9 DEF Fate
    <3>2. PICK x \in Int : x = p.c * W /\ Abs(c * w - x) <= W - w
      <4>1. p.c \in Int
        BY <3>1, PackedIsRoomy
      <4> QED BY <2>3, <2>6, <2>9, <4>1
    <3>3. InUnits(p.c, p.e, z) = x /\ ten[p.e - z] = W
      <4>1. p.e = g
        BY <2>a, <3>1
      <4>2. ten[p.e - z] = W
        BY <2>a, <4>1
      <4> QED BY <3>2, <4>2 DEF InUnits
    <3>4. Abs(X - x) < W
      <4>1. PICK y \in Int : y = c * w
        BY <2>4
      <4>2. Abs(y - x) <= W - w
        BY <3>2, <4>1
      <4>3. X - x = t + (y - x)
        BY <2>4, <4>1
      <4> QED BY <2>2, <2>4, <4>2, <4>3 DEF Abs
    <3> QED BY <3>1, <3>3, <3>4
  <2>10. ASSUME p.status = "ExponentOverflow" PROVE InUnits(PackMax, PackExpMax, z) < Abs(X)
    <3>1. e + k > PackExpMax
      BY <1>2, <1>3, <2>3, <2>10 DEF Fate, PackExp
    <3>2. PICK u \in Nat : u = ten[PackExpMax - z]
      BY <1>3, TenType
    <3>3. PackMax * u <= mw - w
      <4>1. CASE k = 0
        <5>1. m > PackMax
          BY <1>2, <1>3, <2>5, <3>1, <4>1
        <5>2. w * PackMax <= w * (m - 1)
          BY <1>3, <2>2, <2>5, <5>1, TimesGrows
        <5>3. w * (m - 1) = mw - w
          BY <2>2, <2>6
        <5>4. e - z \in Nat /\ PackExpMax - z <= e - z
          BY <1>2, <1>3, <3>1, <4>1
        <5>5. u <= w
          BY <1>3, <2>1, <3>2, <5>4, TenGrows
        <5>6. PackMax * u <= PackMax * w
          BY <1>3, <2>2, <5>5, TimesGrows
        <5>7. PackMax * w = w * PackMax /\ PackMax * u \in Int /\ PackMax * w \in Int
          BY <1>3, <2>2
        <5> QED BY <2>2, <5>2, <5>3, <5>6, <5>7
      <4>2. CASE k # 0
        <5>1. k - 1 \in Nat /\ e - z \in Nat /\ (k - 1) + (e - z) = e + k - 1 - z
              /\ PackExpMax - z <= e + k - 1 - z /\ e + k - 1 - z \in Nat
          BY <1>2, <1>3, <3>1, <4>2
        <5>2. PICK R \in Nat : R = ten[k - 1] /\ R >= 1
          BY <5>1, TenType
        <5>3. (PackMax + 1) * R <= m
          BY <1>3, <2>3, <2>5, <4>2, <5>2
        <5>4. PackMax * R <= m - 1
          <6>1. (PackMax + 1) * R = PackMax * R + R /\ PackMax * R \in Int
            BY <1>3
          <6> QED BY <1>3, <5>2, <5>3, <6>1
        <5>5. w * (PackMax * R) <= w * (m - 1)
          BY <1>3, <2>2, <2>5, <5>4, TimesGrows
        <5>6. w * (m - 1) = mw - w /\ w * (PackMax * R) = PackMax * (R * w)
          BY <1>3, <2>2, <2>6
        <5>7. ten[e + k - 1 - z] = R * w
          <6>1. ten[(k - 1) + (e - z)] = ten[k - 1] * ten[e - z]
            BY <5>1, TenAdds
          <6> QED BY <2>1, <5>1, <5>2, <6>1
        <5>8. u <= R * w
          BY <1>3, <3>2, <5>1, <5>7, TenGrows
        <5>9. PackMax * u <= PackMax * (R * w)
          BY <1>3, <2>2, <5>8, TimesGrows
        <5>10. PackMax * u \in Int /\ PackMax * (R * w) \in Int
          BY <1>3, <2>2
        <5> QED BY <2>2, <5>5, <5>6, <5>9, <5>10
      <4> QED BY <4>1, <4>2
    <3>4. PackMax * u \in Int /\ Abs(X) \in Int
      BY <1>3 DEF Abs
    <3> QED BY <2>2, <2>8, <3>2, <3>3, <3>4 DEF InUnits
  <2>11. ASSUME p.status = "ExponentUnderflow"
         PROVE  X # 0 /\ Abs(X) < InUnits(PackMax + 2, PackExpMin - 1, z)
    <3>1. e + k < PackExpMin
      BY <2>3, <2>11 DEF Fate
    <3>2. PICK u \in Nat : u = ten[PackExpMin - 1 - z]
      BY <1>3, TenType
    <3>3. W <= u
      <4>1. g - z \in Nat /\ g - z <= PackExpMin - 1 - z
        BY <1>2, <1>3, <2>a, <3>1
      <4>2. ten[g - z] <= ten[PackExpMin - 1 - z]
        BY <1>3, <4>1, TenGrows
      <4> QED BY <2>a, <3>2, <4>2
    <3>4. w * (m + 1) <= w * ((PackMax + 2) * P)
      BY <1>3, <2>2, <2>3, <2>5, TimesGrows
    <3>5. w * (m + 1) = mw + w /\ w * ((PackMax + 2) * P) = (PackMax + 2) * W
      BY <1>3, <2>2, <2>6
    <3>6. (PackMax + 2) * W <= (PackMax + 2) * u
      BY <1>3, <3>3, TimesGrows
    <3>7. (PackMax + 2) * W \in Int /\ (PackMax + 2) * u \in Int /\ Abs(X) \in Int
      BY <1>3 DEF Abs
    <3> QED BY <1>2, <1>5, <2>2, <2>8, <3>2, <3>4, <3>5, <3>6, <3>7 DEF InUnits
  <2>12. Good(p)
    BY <2>3 DEF Fate, Good
  <2> QED BY <1>2, <1>5, <2>9, <2>10, <2>11, <2>12
<1> QED BY <1>4, <1>5

(***************************************************************************)
(* Units below all the digits a sum of packed numbers is made of.          *)
(***************************************************************************)
Low == PackExpMin - 2 * D - 2

(***************************************************************************)
(* add of two short operands of packed size holds their exact sum.         *)
(***************************************************************************)
LEMMA SumHolds ==
  ASSUME NEW x \in Coef, NEW y \in Coef, Short(x), Short(y), NEW ex \in Roomy, NEW ey \in Roomy,
         NEW r, r = Add(x, ex, y, ey), NEW X, X = InUnits(x, ex, Low) + InUnits(y, ey, Low)
  PROVE  /\ X \in Int /\ Low \in Int /\ Low <= PackExpMin - 1
         /\ HoldsSum(r, X, ex, ey, Low)
         /\ r.status = "ok" /\ r.e \in Exp /\ r.e + D + 1 <= ExpMax
<1>1. PICK z \in Int : z = Low
  BY WidthsAreInts DEF Low, PackExpMin
<1>2. /\ PackExpMax \in Nat /\ D \in Nat /\ ExpMax \in Nat /\ ex \in Int /\ ey \in Int /\ x \in Int /\ y \in Int
      /\ z = -PackExpMax - 1 - 2 * D - 2 /\ PackExpMin = -PackExpMax - 1
      /\ ex >= -(PackExpMax + D + 1) /\ ey >= -(PackExpMax + D + 1) /\ ex <= PackExpMax /\ ey <= PackExpMax
      /\ PackExpMax + 1 + D + 1 <= ExpMax /\ ExpMin = -ExpMax - 1
      /\ 2 * PackExpMax + 3 * (D + 1) <= ExpMax
  BY <1>1, WidthsAreInts, CoefIsInt, RoomySuffices, ExponentsFit DEF Low, PackExpMin, Roomy, ExpMin
<1>3. z <= ex - D /\ z <= ey - D /\ z <= PackExpMin - 1 /\ z <= ex /\ z <= ey
  BY <1>2
<1>4. X = InUnits(x, ex, z) + InUnits(y, ey, z) /\ X \in Int
  <2>1. InUnits(x, ex, z) \in Int /\ InUnits(y, ey, z) \in Int
    <3>1. PICK f \in Int, g \in Int, m \in Int, n \in Int : f = ex /\ g = ey /\ m = x /\ n = y
      BY <1>2
    <3> QED BY <1>3, <3>1, SmallerUnits
  <2> QED BY <1>1, <2>1
<1>5. HoldsSum(r, X, ex, ey, z)
  BY <1>3, <1>4, SumOfShort
<1>6. r.status = "ok" /\ r.e \in Exp /\ r.e + D + 1 <= ExpMax
  <2>1. r.e \in Int /\ z <= r.e /\ r.status = "ok"
        /\ (r.e <= ex \/ r.e <= ey \/ r.e = ex + 1 \/ r.e = ey + 1)
    BY <1>5 DEF HoldsSum
  <2> QED BY <1>2, <2>1 DEF Exp
<1> QED BY <1>1, <1>3, <1>4, <1>5, <1>6

(***************************************************************************)
(* The sum of two short operands, packed.                                  *)
(***************************************************************************)
LEMMA PackedSum ==
  ASSUME NEW x \in Coef, NEW y \in Coef, Short(x), Short(y), NEW ex \in Roomy, NEW ey \in Roomy,
         NEW r, r = Add(x, ex, y, ey), NEW p, p = PackArithmeticResult(r.c, r.e),
         NEW X, X = InUnits(x, ex, Low) + InUnits(y, ey, Low)
  PROVE  /\ X \in Int /\ r.status = "ok" /\ Good(p)
         /\ p.status = "ok" =>
              /\ p.c \in Packed /\ p.e \in PackExp
              /\ p.c = 0 <=> X = 0
              /\ Abs(X - InUnits(p.c, p.e, Low)) < ten[p.e - Low]
         /\ p.status = "ExponentOverflow" => InUnits(PackMax, PackExpMax, Low) < Abs(X)
         /\ p.status = "ExponentUnderflow" => X # 0 /\ Abs(X) < InUnits(PackMax + 2, PackExpMin - 1, Low)
<1>1. PICK z \in Int : z = Low /\ z <= PackExpMin - 1
  BY SumHolds
<1>2. /\ X \in Int /\ HoldsSum(r, X, ex, ey, z)
      /\ r.status = "ok" /\ r.e \in Exp /\ r.e + D + 1 <= ExpMax
  BY <1>1, SumHolds
<1> QED BY <1>1, <1>2, SumPacks

(***************************************************************************)
(* The exponents callers hand to add lie above Low.                        *)
(***************************************************************************)
LEMMA LowIsBelow ==
  ASSUME NEW e \in Roomy
  PROVE  /\ Low \in Int /\ e \in Int /\ Low <= e - D /\ Low <= e /\ Low <= PackExpMin - 1
         /\ D \in Nat /\ PackExpMin \in Int /\ PackExpMin < 0
<1>1. /\ PackExpMax \in Nat /\ D \in Nat /\ e \in Int /\ e >= -(PackExpMax + D + 1)
      /\ PackExpMin = -PackExpMax - 1
  BY WidthsAreInts, RoomySuffices DEF PackExpMin, Roomy
<1>2. Low = -PackExpMax - 1 - 2 * D - 2
  BY <1>1 DEF Low
<1> QED BY <1>1, <1>2

(***************************************************************************)
(* Packed coefficients and their negations are short, and so is 10^76.     *)
(***************************************************************************)
LEMMA PackedIsShort ==
  /\ \A x \in Packed : Short(x) /\ Short(-x)
  /\ Short(Pow10[D]) /\ Short(-Pow10[D])
<1>1. PICK M \in Nat : M = PackMax
  BY WidthsAreInts
<1>2. ASSUME NEW x \in Packed PROVE Short(x) /\ Short(-x)
  BY <1>1 DEF Packed, PackMin, Short, Abs
<1>3. Pow10[D] \in Nat
  BY PowersOfCoef
<1> QED BY <1>2, <1>3 DEF Short, Abs

(***************************************************************************)
(* Units of the negated number.                                            *)
(***************************************************************************)
LEMMA UnitsNegate ==
  ASSUME NEW c \in Int, NEW e \in Int, NEW z \in Int, z <= e
  PROVE  InUnits(c, e, z) \in Int /\ -c \in Int /\ InUnits(-c, e, z) = -InUnits(c, e, z)
<1>1. e - z \in Nat
  OBVIOUS
<1>2. PICK w \in Nat : w = ten[e - z]
  BY <1>1, TenType
<1>3. (-c) * w = -(c * w) /\ c * w \in Int
  OBVIOUS
<1> QED BY <1>2, <1>3 DEF InUnits

(***************************************************************************)
(* A number is the same as itself, and zero at every exponent.             *)
(***************************************************************************)
LEMMA SameAsItself ==
  ASSUME NEW c \in Packed, NEW e \in PackExp
  PROVE  SameNumber(c, e, c, e)
<1>1. c \in Coef /\ e \in Int /\ e <= e
  BY PackedIsRoomy
<1> QED BY <1>1, SameCompares

(***************************************************************************)
(* Only a zero coefficient makes a number zero.                            *)
(***************************************************************************)
LEMMA ZeroIsZero ==
  ASSUME NEW c \in Packed, NEW e \in PackExp
  PROVE  SameNumber(c, e, 0, 0) <=> c = 0
<1>1. c \in Int /\ e \in Int /\ Reach \in Nat
  BY PackedIsRoomy, WidthsAreInts DEF Reach
<1>2. CASE c = 0
  BY <1>2 DEF SameNumber
<1>3. CASE c # 0
  <2>1. ASSUME NEW k \in 0..Reach PROVE c * Pow10[k] # 0 /\ 0 * Pow10[k] = 0
    BY <1>1, <1>3, <2>1, ScalingKeepsSign DEF Reach
  <2> QED BY <1>1, <1>3, <2>1 DEF SameNumber
<1> QED BY <1>2, <1>3

-----------------------------------------------------------------------------
(***************************************************************************)
(* Numbers of few digits: they are packed, and added, exactly.             *)
(***************************************************************************)
(***************************************************************************)
(* Dividing a multiple.                                                    *)
(***************************************************************************)
LEMMA QuotOfMultiple ==
  ASSUME NEW q \in Int, NEW y \in Nat, y >= 1
  PROVE  Quot(q * y, y) = q
<1>1. PICK x \in Int, u \in Nat : x = q * y /\ u = Abs(q)
  BY CoefMagnitude
<1>2. Abs(x) = u * y
  BY <1>1, TimesMagnitude
<1>3. (u * y) \div y = u
  <2>1. y * u = u * y /\ y * (u + 1) = u * y + y /\ u * y \in Nat
    BY <1>1
  <2> QED BY <1>1, <2>1, DivUnique
<1>4. Quot(x, y) = IF x < 0 THEN -u ELSE u
  BY <1>1, <1>2, <1>3, QuotForm
<1>5. x < 0 <=> q < 0
  <2>1. q < 0 => q * y <= -y
    <3>1. ASSUME q < 0 PROVE q * y <= -y
      <4>1. y * q <= y * (-1)
        BY <3>1, TimesGrows
      <4> QED BY <4>1
    <3> QED BY <3>1
  <2>2. q >= 0 => q * y >= 0
    <3>1. ASSUME q >= 0 PROVE q * y >= 0
      <4>1. y * 0 <= y * q
        BY <3>1, TimesGrows
      <4> QED BY <4>1
    <3> QED BY <3>1
  <2> QED BY <1>1, <2>1, <2>2
<1> QED BY <1>1, <1>4, <1>5 DEF Abs

(***************************************************************************)
(* A number of at least one, w * 10^f for a packed w and f <= 0, is packed *)
(* exactly, whatever zeros its coefficient ends in.                        *)
(***************************************************************************)
LEMMA ShortPacksExactly ==
  ASSUME NEW w \in Packed, NEW f \in Int, f <= 0, ten[-f] <= Abs(w),
         NEW m \in Nat, NEW c \in Coef, c = w * ten[m], f - m \in Exp,
         NEW p, p = PackArithmeticResult(c, f - m)
  PROVE  /\ p.status = "ok"
         /\ \E j \in Nat : /\ p.c = w * ten[j] /\ p.e = f - j
                           /\ p.c \in Packed /\ p.e \in PackExp /\ p.c # 0
<1>1. /\ D \in Nat /\ PackD \in Nat /\ PackExpMax \in Nat /\ PackMax \in Nat /\ ExpMax \in Nat
      /\ w \in Int /\ Abs(w) \in Nat /\ -f \in Nat /\ ten[-f] >= 1 /\ ten[-f] \in Nat
      /\ Abs(w) <= PackMax + 1 /\ PackMax < Pow10[PackD + 1] - 1
      /\ PackD + 1 \in 0..(D + 1) /\ PackD <= PackExpMax /\ D + 1 <= ExpMax
  <2>1. D \in Nat /\ PackD \in Nat /\ PackExpMax \in Nat /\ PackMax \in Nat /\ ExpMax \in Nat
    BY WidthsAreInts
  <2>2. w \in Int /\ Abs(w) \in Nat /\ Abs(w) <= PackMax + 1
    BY <2>1 DEF Packed, PackMin, Abs
  <2>3. PackD <= PackExpMax /\ 2 * PackExpMax + 3 * (D + 1) <= ExpMax
    BY ExponentsFit
  <2>4. 1 <= Jump /\ PackD + Jump <= D /\ PackMax < Pow10[PackD + 1] - 1 /\ Jump \in Nat
    BY WidthsFitDecimals, WidthsAreInts
  <2>5. PackD + 1 \in 0..(D + 1) /\ D + 1 <= ExpMax
    BY <2>1, <2>3, <2>4
  <2>6. -f \in Nat
    OBVIOUS
  <2> QED BY <2>1, <2>2, <2>3, <2>4, <2>5, <2>6, TenType
<1>2. c # 0
  <2>1. PICK t \in Int : t = ten[m] /\ t >= 1
    BY TenType
  <2>2. Abs(w) >= 1 /\ w \in Int
    BY <1>1
  <2>3. w # 0
    BY <2>2 DEF Abs
  <2>4. w * t # 0
    <3>1. PICK v \in Int : v = w /\ v # 0 /\ t # 0
      BY <2>1, <2>2, <2>3
    <3> QED BY <2>1, <3>1, ProductMagnitude
  <2> QED BY <2>1, <2>4
<1>3. PICK k \in 0..(D + 1) : k = DigitsToDrop(c) /\ Drops(c, k)
  BY DropsExist
<1>4. k <= m
  <2> SUFFICES ASSUME m < k PROVE FALSE
    BY <1>3
  <2>1. m \in 0..(k - 1) /\ m \in 0..(D + 1)
    BY <1>1, <1>3
  <2>2. Pow10[m] = ten[m] /\ ten[m] \in Nat /\ ten[m] >= 1
    BY <2>1, PowersAreTens, TenType
  <2>3. Quot(c, Pow10[m]) = w
    BY <1>1, <2>2, QuotOfMultiple
  <2> QED BY <1>3, <2>1, <2>3 DEF Drops, Fits
<1>5. PICK j \in Nat : j = m - k /\ j + k = m
  BY <1>1, <1>3, <1>4
<1>6. Quot(c, Pow10[k]) = w * ten[j]
  <2>1. ten[m] = ten[j] * ten[k] /\ ten[j] \in Nat /\ ten[k] \in Nat /\ ten[k] >= 1
    <3>1. k \in Nat
      BY <1>3
    <3> QED BY <1>5, <3>1, TenAdds, TenType
  <2>2. c = (w * ten[j]) * ten[k]
    BY <1>1, <2>1
  <2>3. w * ten[j] \in Int
    BY <1>1, <2>1
  <2> QED BY <2>1, <2>2, <2>3, <1>3, PowersAreTens, QuotOfMultiple
<1>7. w * ten[j] \in Packed
  BY <1>3, <1>6 DEF Drops, Fits
<1>8. -f + j <= PackD
  <2> SUFFICES ASSUME PackD + 1 <= -f + j PROVE FALSE
    BY <1>1
  <2>1. ten[PackD + 1] <= ten[-f + j] /\ ten[-f + j] = ten[-f] * ten[j] /\ ten[j] \in Nat /\ ten[j] >= 1
    <3>1. PackD + 1 \in Nat /\ -f + j \in Nat
      BY <1>1
    <3> QED BY <1>1, <3>1, TenGrows, TenAdds, TenType
  <2>2. ten[-f] * ten[j] <= Abs(w) * ten[j]
    <3>1. ten[j] * ten[-f] <= ten[j] * Abs(w)
      BY <1>1, <2>1, TimesGrows
    <3> QED BY <1>1, <2>1, <3>1
  <2>3. Abs(w * ten[j]) = Abs(w) * ten[j]
    BY <1>1, <2>1, TimesMagnitude
  <2>4. Abs(w * ten[j]) <= PackMax + 1
    <3>1. PICK x \in Packed : x = w * ten[j]
      BY <1>7
    <3> QED BY <1>1, <3>1 DEF Packed, PackMin, Abs
  <2>5. ten[PackD + 1] = Pow10[PackD + 1] /\ Pow10[PackD + 1] \in Nat
    BY <1>1, PowersAreTens, Pow10Grows
  <2> QED BY <1>1, <2>1, <2>2, <2>3, <2>4, <2>5
<1>9. f - j \in PackExp /\ f - j \in Int
  BY <1>1, <1>8 DEF PackExp, PackExpMin
<1>10. p.status = Fate((f - m) + k) /\ (p.status = "ok" => p.c = Quot(c, Pow10[k]) /\ p.e = (f - m) + k)
  <2>1. (f - m) + D + 1 <= ExpMax
    BY <1>1
  <2> QED BY <1>2, <1>3, <2>1, PackTruncates
<1>11. (f - m) + k = f - j
  BY <1>3, <1>5
<1>12. p.status = "ok" /\ p.c = w * ten[j] /\ p.e = f - j
  BY <1>6, <1>9, <1>10, <1>11 DEF Fate
<1>13. w * ten[j] # 0
  <2>1. PICK t \in Int : t = ten[j] /\ t >= 1
    BY TenType
  <2>2. Abs(w) >= 1 /\ w \in Int
    BY <1>1
  <2>3. w # 0
    BY <2>2 DEF Abs
  <2>4. w * t # 0
    <3>1. PICK v \in Int : v = w /\ v # 0 /\ t # 0
      BY <2>1, <2>2, <2>3
    <3> QED BY <2>1, <3>1, ProductMagnitude
  <2> QED BY <2>1, <2>4
<1> QED BY <1>7, <1>9, <1>12, <1>13

(***************************************************************************)
(* A sum that is such a number is returned exactly.                        *)
(***************************************************************************)
LEMMA SumIsExact ==
  ASSUME NEW x \in Coef, NEW y \in Coef, Short(x), Short(y), NEW ex \in Roomy, NEW ey \in Roomy,
         NEW w \in Packed, NEW f \in Int, f <= 0, ten[-f] <= Abs(w), ex <= f, ey <= f, Low <= f,
         InUnits(x, ex, Low) + InUnits(y, ey, Low) = InUnits(w, f, Low),
         NEW r, r = Add(x, ex, y, ey), NEW p, p = PackArithmeticResult(r.c, r.e)
  PROVE  /\ r.status = "ok" /\ p.status = "ok"
         /\ \E j \in Nat : /\ p.c = w * ten[j] /\ p.e = f - j
                           /\ p.c \in Packed /\ p.e \in PackExp /\ p.c # 0
<1>1. PICK z, X : z = Low /\ X = InUnits(x, ex, Low) + InUnits(y, ey, Low)
  OBVIOUS
<1>2. X \in Int /\ z \in Int /\ HoldsSum(r, X, ex, ey, z) /\ r.status = "ok" /\ r.e \in Exp
  BY <1>1, SumHolds
<1>3. PICK c \in Int, e \in Int : c = r.c /\ e = r.e /\ z <= e /\ z <= f /\ c \in Coef
  BY <1>1, <1>2, CoefIsInt DEF HoldsSum
<1>4. /\ Abs(X - InUnits(c, e, z)) < ten[e - z]
      /\ e <= f \/ (e = f + 1 /\ Abs(c) > PackMax)
  <2>1. PICK g \in Int, h \in Int : g = ex /\ h = ey
    BY RoomySuffices
  <2> QED BY <1>2, <1>3, <2>1 DEF HoldsSum
<1>5. /\ PackMax \in Nat /\ PackMax >= 10 /\ w \in Int /\ Abs(w) \in Nat /\ Abs(w) <= PackMax + 1
      /\ f - z \in Nat /\ e - z \in Nat
  <2>1. PackMax \in Nat /\ PackMax >= 10
    BY Widths
  <2>2. w \in Int /\ Abs(w) \in Nat /\ Abs(w) <= PackMax + 1
    BY <2>1 DEF Packed, PackMin, Abs
  <2>3. f - z \in Nat /\ e - z \in Nat
    BY <1>2, <1>3
  <2> QED BY <2>1, <2>2, <2>3
<1>6. e <= f
  <2> SUFFICES ASSUME e = f + 1, Abs(c) > PackMax PROVE FALSE
    BY <1>4
  <2>1. PICK u \in Nat : u = ten[f - z] /\ u >= 1 /\ ten[e - z] = 10 * u
    <3>1. e - z = (f - z) + 1
      BY <1>2, <1>3
    <3> QED BY <1>5, <3>1, TenType, TenUnfolds
  <2>2. PICK A \in Nat, W \in Nat : A = Abs(c) /\ W = Abs(w) /\ A >= PackMax + 1 /\ W <= PackMax + 1
    BY <1>3, <1>5, CoefMagnitude
  <2>3. Abs(InUnits(c, e, z)) = A * (10 * u) /\ InUnits(c, e, z) \in Int
    <3>1. PICK v \in Nat : v = 10 * u /\ v >= 1
      BY <2>1
    <3>2. Abs(c * v) = Abs(c) * v /\ c * v \in Int
      BY <1>3, <3>1, TimesMagnitude
    <3> QED BY <2>1, <2>2, <3>1, <3>2 DEF InUnits
  <2>4. Abs(X) = W * u
    <3>1. X = w * u
      BY <1>1, <2>1 DEF InUnits
    <3> QED BY <1>5, <2>1, <2>2, <3>1, TimesMagnitude
  <2>5. A * (10 * u) >= (PackMax + 1) * (10 * u) /\ W * u <= (PackMax + 1) * u
    <3>1. /\ (10 * u) * (PackMax + 1) <= (10 * u) * A
          /\ u * W <= u * (PackMax + 1)
      BY <1>5, <2>1, <2>2, TimesGrows
    <3> QED BY <1>5, <2>1, <2>2, <3>1
  <2>6. PICK M \in Nat, V \in Int : M = (PackMax + 1) * u /\ V = InUnits(c, e, z) /\ M >= 11 * u
    <3>1. u * 11 <= u * (PackMax + 1)
      BY <1>5, <2>1, TimesGrows
    <3> QED BY <1>5, <2>1, <2>3, <3>1
  <2>7. (PackMax + 1) * (10 * u) = 10 * M
    BY <1>5, <2>1, <2>6
  <2>8. Abs(V) >= 10 * M /\ Abs(X) <= M /\ Abs(X - V) < 10 * u
    BY <1>4, <2>1, <2>3, <2>4, <2>5, <2>6, <2>7
  <2> QED BY <1>2, <2>1, <2>6, <2>8 DEF Abs
<1>7. PICK m \in Nat : m = f - e
  BY <1>3, <1>6
<1>8. c = w * ten[m]
  <2>1. PICK u \in Nat, t \in Nat : u = ten[e - z] /\ t = ten[m] /\ u >= 1 /\ ten[f - z] = t * u
    <3>1. f - z = m + (e - z)
      BY <1>2, <1>3, <1>7
    <3>2. m \in Nat /\ e - z \in Nat /\ ten[m + (e - z)] = ten[m] * ten[e - z]
      BY <1>5, <1>7, TenAdds
    <3>3. ten[e - z] \in Nat /\ ten[e - z] >= 1 /\ ten[m] \in Nat
      BY <3>2, TenType
    <3> QED BY <3>1, <3>2, <3>3
  <2>2. X = (w * t) * u /\ InUnits(c, e, z) = c * u
    <3>1. X = w * (t * u)
      BY <1>1, <2>1 DEF InUnits
    <3> QED BY <1>5, <2>1, <3>1 DEF InUnits
  <2>3. PICK d \in Int : d = w * t - c
    BY <1>3, <1>5, <2>1
  <2>4. d * u = X - InUnits(c, e, z)
    BY <1>3, <1>5, <2>1, <2>2, <2>3
  <2>5. Abs(d) * u < 1 * u /\ Abs(d) \in Nat
    BY <1>4, <2>1, <2>3, <2>4, TimesMagnitude, CoefMagnitude
  <2>6. Abs(d) < 1
    BY <2>1, <2>5, FactorCompares
  <2> QED BY <1>5, <2>1, <2>3, <2>6 DEF Abs
<1>9. e = f - m /\ f - m \in Exp
  BY <1>2, <1>3, <1>7
<1> QED BY <1>2, <1>3, <1>7, <1>8, <1>9, ShortPacksExactly

(***************************************************************************)
(* Numbers out of range.                                                   *)
(***************************************************************************)

(***************************************************************************)
(* m * 10^u is less than y * 10^w, and so are the numbers they stand for.  *)
(***************************************************************************)
LEMMA FewerUnits ==
  ASSUME NEW m \in Nat, NEW y \in Nat, NEW s \in Int, NEW p \in Int, NEW u \in Nat, NEW w \in Nat,
         m * ten[u] < y * ten[w], s - u + w <= p
  PROVE  LessNumber(m, s, y, p)
<1>1. PICK z \in Int : z = s - u /\ z <= s /\ z <= p /\ s - z = u /\ p - z \in Nat /\ w <= p - z
  OBVIOUS
<1>2. PICK U \in Nat, W \in Nat, V \in Nat : U = ten[u] /\ W = ten[w] /\ V = ten[p - z] /\ W <= V
  BY <1>1, TenType, TenGrows
<1>3. y * W <= y * V
  BY <1>2, TimesGrows
<1>4. InUnits(m, s, z) = m * U /\ InUnits(y, p, z) = y * V
  BY <1>1, <1>2 DEF InUnits
<1>5. m * U < y * V
  BY <1>2, <1>3
<1> QED BY <1>1, <1>4, <1>5, LessCompares

(***************************************************************************)
(* And the other way round.                                                *)
(***************************************************************************)
LEMMA MoreUnits ==
  ASSUME NEW m \in Nat, NEW y \in Nat, NEW s \in Int, NEW p \in Int, NEW u \in Nat, NEW w \in Nat,
         y * ten[w] < m * ten[u], s - u + w >= p
  PROVE  LessNumber(y, p, m, s)
<1>1. PICK z \in Int : z = p - w /\ z <= s /\ z <= p /\ p - z = w /\ s - z \in Nat /\ u <= s - z
  OBVIOUS
<1>2. PICK U \in Nat, W \in Nat, V \in Nat : U = ten[u] /\ W = ten[w] /\ V = ten[s - z] /\ U <= V
  BY <1>1, TenType, TenGrows
<1>3. m * U <= m * V
  BY <1>2, TimesGrows
<1>4. InUnits(m, s, z) = m * V /\ InUnits(y, p, z) = y * W
  BY <1>1, <1>2 DEF InUnits
<1>5. y * W < m * V
  BY <1>2, <1>3
<1> QED BY <1>1, <1>4, <1>5, LessCompares

(***************************************************************************)
(* q * 10^f is x / y * 10^s, cut off after q's last digit.                 *)
(***************************************************************************)
CutOff(q, f, x, y, s) ==
  \E i \in Nat, j \in Nat : q = (x * ten[i]) \div (y * ten[j]) /\ f = s - i + j

(***************************************************************************)
(* A quotient cut off is below a bound, and so is the exact one.           *)
(***************************************************************************)
LEMMA QuotientBelow ==
  ASSUME NEW x \in Nat, NEW y \in Nat, y >= 1, NEW s \in Int, NEW q, NEW f, CutOff(q, f, x, y, s),
         NEW p \in Int, NEW k \in Nat, NEW c \in Nat, q + 1 <= c * ten[k], f + k <= p
  PROVE  LessNumber(x, s, c * y, p)
<1>0. PICK i \in Nat, j \in Nat : q = (x * ten[i]) \div (y * ten[j]) /\ f = s - i + j
  BY DEF CutOff
<1>1. PICK X \in Nat, J \in Nat, K \in Nat : X = x * ten[i] /\ J = ten[j] /\ K = ten[k] /\ J >= 1
  BY TenType
<1>2. PICK Y \in Nat : Y = y * J /\ Y >= 1
  <2>1. y * 1 <= y * J
    BY <1>1, TimesGrows
  <2> QED BY <1>1, <2>1
<1>3. q \in Nat /\ X < Y * (q + 1)
  BY <1>0, <1>1, <1>2, DivBounds
<1>4. Y * (q + 1) <= Y * (c * K)
  BY <1>1, <1>2, <1>3, TimesGrows
<1>5. Y * (c * K) = (c * y) * (J * K)
  BY <1>1, <1>2
<1>6. j + k \in Nat /\ J * K = ten[j + k]
  BY <1>1, TenAdds
<1>7. X < (c * y) * ten[j + k]
  <2>1. J * K \in Nat
    BY <1>1
  <2> QED BY <1>1, <1>2, <1>3, <1>4, <1>5, <1>6, <2>1
<1>8. s - i + (j + k) <= p
  BY <1>0
<1> QED BY <1>1, <1>6, <1>7, <1>8, FewerUnits

(***************************************************************************)
(* And above one.                                                          *)
(***************************************************************************)
LEMMA QuotientAbove ==
  ASSUME NEW x \in Nat, NEW y \in Nat, y >= 1, NEW s \in Int, NEW q, NEW f, CutOff(q, f, x, y, s),
         NEW p \in Int, NEW c \in Nat, NEW v \in Nat, NEW h \in Nat, c * ten[v] < q * ten[h], f - h + v >= p
  PROVE  LessNumber(c * y, p, x, s)
<1>0. PICK i \in Nat, j \in Nat : q = (x * ten[i]) \div (y * ten[j]) /\ f = s - i + j
  BY DEF CutOff
<1>1. PICK I \in Nat, J \in Nat, V \in Nat, H \in Nat :
        I = ten[i] /\ J = ten[j] /\ V = ten[v] /\ H = ten[h] /\ J >= 1 /\ H >= 1
  BY TenType
<1>2. PICK X \in Nat, Y \in Nat : X = x * I /\ Y = y * J /\ Y >= 1
  <2>1. y * 1 <= y * J
    BY <1>1, TimesGrows
  <2> QED BY <1>1, <2>1
<1>3. q \in Nat /\ Y * q <= X
  BY <1>0, <1>1, <1>2, DivBounds
<1>4. H * (Y * q) <= H * X
  BY <1>1, <1>2, <1>3, TimesGrows
<1>5. Y * (c * V) < Y * (q * H)
  <2>1. c * V \in Nat /\ q * H \in Nat /\ c * V < q * H
    BY <1>1, <1>3
  <2>2. PICK g \in Nat, l \in Nat : g = c * V /\ l = q * H
    BY <2>1
  <2>3. g * Y < l * Y
    BY <1>2, <2>1, <2>2, FactorCompares
  <2>4. g * Y = Y * g /\ l * Y = Y * l
    OBVIOUS
  <2> QED BY <2>2, <2>3, <2>4
<1>6. Y * (q * H) = H * (Y * q) /\ H * X = x * (I * H) /\ Y * (c * V) = (c * y) * (V * J)
  <2>1. q \in Int /\ H \in Int /\ Y \in Int
    BY <1>1, <1>2, <1>3
  <2>2. Y * (q * H) = H * (Y * q)
    BY <2>1
  <2>3. H * (x * I) = x * (I * H)
    BY <1>1
  <2>4. (y * J) * (c * V) = (c * y) * (V * J)
    BY <1>1
  <2> QED BY <1>2, <2>2, <2>3, <2>4
<1>7. v + j \in Nat /\ i + h \in Nat /\ V * J = ten[v + j] /\ I * H = ten[i + h]
  <2>1. ten[v + j] = ten[v] * ten[j] /\ ten[i + h] = ten[i] * ten[h]
    BY TenAdds
  <2> QED BY <1>1, <2>1
<1>8. (c * y) * ten[v + j] < x * ten[i + h]
  <2>1. H * (Y * q) \in Int /\ H * X \in Int /\ Y * (c * V) \in Int /\ Y * (q * H) \in Int
    <3>1. PICK l \in Nat, g \in Nat, t \in Nat : l = Y * q /\ g = c * V /\ t = q * H
      BY <1>1, <1>2, <1>3
    <3>2. H * l \in Int /\ H * X \in Int /\ Y * g \in Int /\ Y * t \in Int
      OBVIOUS
    <3> QED BY <3>1, <3>2
  <2>2. PICK L \in Int, R \in Int, G \in Int : L = H * (Y * q) /\ R = H * X /\ G = Y * (c * V)
    BY <2>1
  <2>3. L <= R /\ G < L
    BY <1>4, <1>5, <1>6, <2>2
  <2>4. G = (c * y) * ten[v + j] /\ R = x * ten[i + h]
    BY <1>6, <1>7, <2>2
  <2> QED BY <2>3, <2>4
<1>9. c * y \in Nat /\ s - (i + h) + (v + j) >= p
  BY <1>0
<1> QED BY <1>7, <1>8, <1>9, MoreUnits

(***************************************************************************)
(* A cut quotient of maximized numbers as one of the numbers themselves.   *)
(***************************************************************************)
LEMMA CutIsScaled ==
  ASSUME NEW x \in Nat, NEW y \in Nat, NEW i \in 0..D, NEW j \in 0..D, NEW g \in Int, NEW f, NEW q,
         NEW a, NEW b, a = x * Pow10[i], b = y * Pow10[j], CutQuotient(q, f, a, b, g),
         NEW s, s = g + i - j
  PROVE  CutOff(q, f, x, y, s)
<1>1. D \in Nat /\ i \in 0..(D + 1) /\ j \in 0..(D + 1) /\ i \in Nat /\ j \in Nat /\ Reach = D + 1
  BY WidthsAreInts DEF Reach
<1>2. a \in Nat /\ b \in Nat /\ a = x * ten[i] /\ b = y * ten[j]
  BY <1>1, PowersAreTens, TenType
<1>3. PICK k \in 0..(D + 1) : \/ f = g + k /\ q = a \div (b * Pow10[k])
                              \/ f = g - k /\ q = (a * Pow10[k]) \div b
  BY <1>1, <1>2, Zenon DEF CutQuotient
<1>4. k \in Nat /\ Pow10[k] = ten[k] /\ ten[k] \in Nat
  BY <1>1, PowersAreTens, TenType
<1>5. /\ i + k \in Nat /\ j + k \in Nat
      /\ a * ten[k] = x * ten[i + k] /\ b * ten[k] = y * ten[j + k]
  <2>1. ten[i + k] = ten[i] * ten[k] /\ ten[j + k] = ten[j] * ten[k]
    BY <1>1, <1>4, TenAdds
  <2>2. PICK u \in Nat, v \in Nat, w \in Nat : u = ten[i] /\ v = ten[j] /\ w = ten[k]
    BY <1>1, <1>4, TenType
  <2>3. (x * u) * w = x * (u * w) /\ (y * v) * w = y * (v * w)
    OBVIOUS
  <2> QED BY <1>1, <1>2, <1>4, <2>1, <2>2, <2>3
<1>6. CASE f = g + k /\ q = a \div (b * Pow10[k])
  <2>1. q = (x * ten[i]) \div (y * ten[j + k])
    BY <1>2, <1>4, <1>5, <1>6, Zenon
  <2>2. f = s - i + (j + k)
    BY <1>1, <1>4, <1>6
  <2> QED BY <1>1, <1>5, <2>1, <2>2 DEF CutOff
<1>7. CASE f = g - k /\ q = (a * Pow10[k]) \div b
  <2>1. q = (x * ten[i + k]) \div (y * ten[j])
    BY <1>2, <1>4, <1>5, <1>7, Zenon
  <2>2. f = s - (i + k) + j
    BY <1>1, <1>4, <1>7
  <2> QED BY <1>1, <1>5, <2>1, <2>2 DEF CutOff
<1> QED BY <1>3, <1>6, <1>7

(***************************************************************************)
(* A quotient out of range.                                                *)
(***************************************************************************)
LEMMA QuotientOutOfRange ==
  ASSUME NEW A, NEW B, A.c \in Coef, B.c \in Coef, A.c # 0, B.c # 0, A.e \in Int, B.e \in Int,
         10 * Abs(A.c) > CoefMax, \E h \in Int : A.c = h * 10,
         A.e - B.e <= ExpMax - 2 * (D + 1), ExpMin + D + 2 < A.e - B.e,
         NEW x \in Nat, NEW y \in Nat, y >= 1, NEW i \in 0..D, NEW j \in 0..D,
         Abs(A.c) = x * Pow10[i], Abs(B.c) = y * Pow10[j],
         NEW n, QuotientIsCut(n, A, B), NEW s, s = A.e + i - (B.e + j),
         NEW r, r = PackArithmeticResult(n.c, n.e)
  PROVE  /\ r.status = "ExponentOverflow" => LessNumber(PackMax * y, PackExpMax, x, s)
         /\ r.status = "ExponentUnderflow" => LessNumber(x, s, (PackMax + 2) * y, PackExpMin - 1)
<1> DEFINE a == Abs(A.c)
           b == Abs(B.c)
<1>1. /\ D \in Nat /\ Reach = D + 1 /\ ExpMax \in Nat /\ ExpMin = -ExpMax - 1 /\ PackMax \in Nat
      /\ PackExpMax \in Nat /\ PackExpMin = -PackExpMax - 1 /\ CoefMax \in Nat /\ i \in Nat /\ j \in Nat
      /\ A.c \in Int /\ a \in Nat /\ b \in Nat /\ b >= 1 /\ s \in Int /\ 10 * (PackMax + 1) <= CoefMax
  <2>1. A.c \in Int /\ B.c \in Int
    BY CoefIsInt
  <2> QED BY <2>1, Widths, WidthsAreInts, WidthsFitDecimals DEF ExpMin, PackExpMin, Reach, Abs
<1>2. n.c # 0
  <2>1. ASSUME SmallerNumber(a, A.e - B.e, b, ExpMin + 1) PROVE FALSE
    BY <1>1, <2>1 DEF SmallerNumber
  <2> QED BY <2>1 DEF QuotientIsCut
<1>3. /\ n.c \in Coef /\ n.e \in Exp /\ CutQuotient(Abs(n.c), n.e, a, b, A.e - B.e)
      /\ Abs(n.c) >= a \div 10 \/ n.e <= ExpMin + 1
  <2>1. 0 \in Exp
    BY <1>1 DEF Exp
  <2> QED BY <1>2, <2>1 DEF QuotientIsCut
<1>4. PICK q \in Nat, e \in Int : q = Abs(n.c) /\ e = n.e /\ q >= 1
  <2>1. n.c \in Int /\ n.e \in Int
    BY <1>3, CoefIsInt DEF Exp, ExpMin
  <2> QED BY <1>2, <2>1 DEF Abs
<1>5. CutOff(q, e, x, y, s)
  <2>1. PICK g \in Int, u \in {a}, v \in {b} : g = A.e - B.e /\ u = a /\ v = b
    OBVIOUS
  <2>2. CutQuotient(q, e, u, v, g) /\ u = x * Pow10[i] /\ v = y * Pow10[j] /\ s = g + i - j
    BY <1>1, <1>3, <1>4, <2>1
  <2> QED BY <2>2, CutIsScaled
<1>6. e + D + 1 <= ExpMax
  <2>1. \E k \in 0..Reach : e = (A.e - B.e) + k \/ e = (A.e - B.e) - k
    BY <1>3, <1>4 DEF CutQuotient
  <2> QED BY <1>1, <2>1
<1>7. PICK k \in 0..(D + 1) :
        /\ r.status = Fate(e + k)
        /\ q + 1 <= (PackMax + 2) * ten[k]
        /\ k > 0 => (PackMax + 1) * ten[k - 1] <= q
  <2>1. PICK w : w = ten[e - e]
    OBVIOUS
  <2>2. \E k \in 0..(D + 1), P \in Nat :
          /\ r.status = Fate(n.e + k) /\ P = ten[k]
          /\ Abs(n.c) + 1 <= (PackMax + 2) * P
          /\ k > 0 => (PackMax + 1) * ten[k - 1] <= Abs(n.c)
    <3>1. /\ n.c \in Coef /\ n.c # 0 /\ n.e \in Exp /\ n.e + D + 1 <= ExpMax
          /\ e \in Int /\ e <= n.e /\ w = ten[n.e - e]
      BY <1>2, <1>3, <1>4, <1>6, <2>1
    <3> QED BY <3>1, PackedInUnits
  <2> QED BY <1>4, <2>2
<1>8. CASE r.status = "ExponentUnderflow"
  <2>1. e + k <= PackExpMin - 1
    BY <1>1, <1>7, <1>8 DEF Fate, PackExp
  <2>2. PackMax + 2 \in Nat /\ k \in Nat /\ PackExpMin - 1 \in Int
    BY <1>1
  <2> QED BY <1>1, <1>5, <1>7, <1>8, <2>1, <2>2, QuotientBelow
<1>9. CASE r.status = "ExponentOverflow"
  <2>1. e + k > PackExpMax
    BY <1>1, <1>7, <1>9 DEF Fate, PackExp
  <2>2. \E v \in Nat, h \in Nat : PackMax * ten[v] < q * ten[h] /\ e - h + v >= PackExpMax
    <3>1. CASE k > 0
      <4>1. PICK v \in Nat : v = k - 1
        BY <1>1, <3>1
      <4>2. PICK V \in Nat : V = ten[v] /\ V >= 1
        BY TenType
      <4>3. (PackMax + 1) * V = PackMax * V + V /\ q * 1 = q /\ PackMax * V \in Nat
        BY <1>1
      <4>4. PackMax * V < q * ten[0]
        BY <1>7, <3>1, <4>1, <4>2, <4>3, TenUnfolds
      <4>5. e - 0 + v >= PackExpMax
        BY <1>1, <2>1, <4>1
      <4> QED BY <4>2, <4>4, <4>5
    <3>2. CASE k = 0
      <4>1. e > PackExpMax /\ ~(e <= ExpMin + 1)
        BY <1>1, <2>1, <3>2
      <4>2. 10 * (a \div 10) = a
        <5>1. PICK h \in Int : A.c = h * 10
          OBVIOUS
        <5>2. PICK m \in Nat : m = Abs(h) /\ a = m * 10
          BY <5>1 DEF Abs
        <5> QED BY <5>2
      <4>3. q >= a \div 10 /\ a \div 10 \in Nat
        BY <1>1, <1>3, <1>4, <4>1
      <4>4. PackMax < q * 10
        BY <1>1, <4>2, <4>3
      <4>5. ten[0] = 1 /\ ten[1] = 10
        <5>1. ten[0 + 1] = 10 * ten[0] /\ ten[0] = 1
          BY TenUnfolds
        <5> QED BY <5>1
      <4>6. PackMax * ten[0] < q * ten[1] /\ e - 1 + 0 >= PackExpMax
        BY <1>1, <4>1, <4>4, <4>5
      <4> QED BY <4>6
    <3> QED BY <3>1, <3>2
  <2>3. PICK v \in Nat, h \in Nat : PackMax * ten[v] < q * ten[h] /\ e - h + v >= PackExpMax
    BY <2>2
  <2>4. PackExpMax \in Int
    BY <1>1
  <2>5. LessNumber(PackMax * y, PackExpMax, x, s)
    <3> HIDE DEF a, b
    <3> QED BY <1>1, <1>5, <2>3, <2>4, QuotientAbove
  <2> QED BY <1>9, <2>5
<1> QED BY <1>8, <1>9

(***************************************************************************)
(* How far the exponent of a number rises when it is packed.               *)
(***************************************************************************)
LEMMA FateOfPacked ==
  ASSUME NEW c \in Coef, c # 0, NEW e \in Exp, e + D + 1 <= ExpMax,
         NEW p, p = PackArithmeticResult(c, e)
  PROVE  \E k \in 0..(D + 1) :
           /\ p.status = Fate(e + k)
           /\ Abs(c) + 1 <= (PackMax + 2) * ten[k]
           /\ k > 0 => (PackMax + 1) * ten[k - 1] <= Abs(c)
<1>1. PICK z, w : z = e /\ w = ten[e - z]
  OBVIOUS
<1>2. z \in Int /\ z <= e
  BY <1>1, Widths DEF Exp, ExpMin
<1>3. \E k \in 0..(D + 1), P \in Nat :
        /\ p.status = Fate(e + k) /\ P = ten[k]
        /\ Abs(c) + 1 <= (PackMax + 2) * P
        /\ k > 0 => (PackMax + 1) * ten[k - 1] <= Abs(c)
  BY <1>1, <1>2, PackedInUnits
<1> QED BY <1>3

(***************************************************************************)
(* Packing fails with the two exponent errors, and no others.              *)
(***************************************************************************)
LEMMA PackingIsGood ==
  ASSUME NEW r, Good(r) PROVE Good(Packed224(r))
<1>1. CASE r.status # "ok"
  <2>1. Packed224(r) = Fail(r.status)
    BY <1>1 DEF Packed224
  <2> QED BY <2>1 DEF Good, Fail
<1>2. CASE r.status = "ok"
  <2>1. PICK p : p = PackArithmeticResult(r.c, r.e)
    OBVIOUS
  <2>2. PICK l : l = PackLossy(r.c, r.e)
    OBVIOUS
  <2>3. l.status \in {"ok", "ExponentOverflow"}
    BY <2>2 DEF PackLossy, FloatZero, Float, Underflow, Revert
  <2>4. p.status \in {"ok", "ExponentOverflow", "ExponentUnderflow"}
    <3>1. p = Finalise("packArithmeticResult", l, TRUE)
      BY <2>1, <2>2 DEF PackArithmeticResult
    <3>2. CASE l.status # "ok" \/ l.lossless
      <4>1. p = [l EXCEPT !.lossless = l.lossless /\ TRUE]
        BY <3>1, <3>2 DEF Finalise
      <4>2. p.status = l.status
        <5>1. "status" # "lossless"
          OBVIOUS
        <5>2. DOMAIN l = {"status", "c", "e", "lossless"}
          BY <2>2 DEF PackLossy, FloatZero, Float, Underflow, Revert
        <5> QED BY <4>1, <5>1, <5>2
      <4> QED BY <2>3, <4>2
    <3>3. CASE ~(l.status # "ok" \/ l.lossless)
      BY <2>3, <3>1, <3>3 DEF Finalise, Revert
    <3> QED BY <3>2, <3>3
  <2>5. Packed224(r) = IF p.status = "ok" THEN Packs(p) ELSE Fail(p.status)
    BY <1>2, <2>1 DEF Packed224
  <2> QED BY <2>4, <2>5 DEF Good, Packs, Fail
<1> QED BY <1>1, <1>2

(***************************************************************************)
(* inv divides one by the float; an error of div is that of the call.      *)
(***************************************************************************)
LEMMA DividesByNonZero ==
  ASSUME NEW x \in Coef, NEW y \in Coef, NEW ex \in Roomy, NEW ey \in Roomy,
         NEW r, r = Packed224(Div(x, ex, y, ey))
  PROVE  IF y = 0 THEN r.status = "DivisionByZero" ELSE Good(r)
<1>1. PICK q : q = Div(x, ex, y, ey)
  OBVIOUS
<1>2. q.status = IF y = 0 THEN "DivisionByZero" ELSE "ok"
  BY <1>1, DivIsGood
<1>3. CASE y = 0
  <2>1. r = Fail("DivisionByZero")
    BY <1>1, <1>2, <1>3 DEF Packed224
  <2> QED BY <1>3, <2>1 DEF Fail
<1>4. CASE y # 0
  <2>1. Good(q)
    BY <1>2, <1>4 DEF Good
  <2> QED BY <1>1, <1>4, <2>1, PackingIsGood
<1> QED BY <1>3, <1>4

(***************************************************************************)
(* The calls of one float.                                                 *)
(***************************************************************************)
LEMMA UnaryIsGood ==
  ASSUME NEW f \in Unary, f # "isZero", NEW x, x.c \in Packed, x.e \in PackExp,
         NEW r, r = UnaryResult(f, x)
  PROVE  IF f = "inv" /\ x.c = 0 THEN r.status = "DivisionByZero" ELSE Good(r)
<1>1. x.c \in Coef /\ x.c \in Int /\ x.c # CoefMin /\ x.e \in Roomy /\ x.e \in Int
  BY PackedIsRoomy
<1>2. \A c, e : Good(Num(c, e)) /\ Good(Packed224(Num(c, e)))
  <2>1. ASSUME NEW c, NEW e PROVE Good(Num(c, e))
    BY DEF Num, Good
  <2> QED BY <2>1, PackingIsGood
<1>3. Minus(x.c, x.e) = Num(-x.c, x.e)
  BY <1>1 DEF Minus
<1>4. PICK i : i = IntFrac(x.c, x.e)
  OBVIOUS
<1>5. i.integer \in Coef
  <2>1. /\ i.integer \in Int
        /\ x.c >= 0 => i.integer \in 0..(x.c)
        /\ x.c < 0 => i.integer \in (x.c)..0
    BY <1>1, <1>4, PartsAreCoef
  <2> QED BY <1>1, <2>1, Widths DEF Coef, CoefMin
<1>6. /\ Good(Packed224(Add(i.integer, x.e, Pow10[D], -D)))
      /\ Good(Packed224(Sub(i.integer, x.e, Pow10[D], -D)))
  <2>1. Pow10[D] # CoefMin
    BY PowersOfCoef, Widths DEF CoefMin
  <2>2. Good(Add(i.integer, x.e, Pow10[D], -D))
    BY <1>1, <1>5, PackedIsRoomy, AddIsGood
  <2>3. Good(Sub(i.integer, x.e, Pow10[D], -D))
    BY <1>1, <1>5, <2>1, PackedIsRoomy, SubIsGood
  <2> QED BY <2>2, <2>3, PackingIsGood
<1>7. CASE f \in {"minus", "abs"}
  <2>1. r = Packed224(Minus(x.c, x.e)) \/ r = Packed224(Num(x.c, x.e))
    BY <1>7 DEF UnaryResult, AbsOf
  <2> QED BY <1>2, <1>3, <1>7, <2>1
<1>8. CASE f = "inv"
  <2>1. r = Packed224(Div(Pow10[D], -D, x.c, x.e))
    BY <1>8 DEF UnaryResult, Inv
  <2>2. PICK y \in Coef, ey \in Roomy, p \in Coef, d \in Roomy : y = x.c /\ ey = x.e /\ p = Pow10[D] /\ d = -D
    BY <1>1, PackedIsRoomy
  <2>3. r = Packed224(Div(p, d, y, ey))
    BY <2>1, <2>2
  <2>4. IF y = 0 THEN r.status = "DivisionByZero" ELSE Good(r)
    BY <2>3, DividesByNonZero
  <2> QED BY <1>8, <2>2, <2>4
<1>9. CASE f \in {"integer", "frac"}
  <2>1. r = Packed224(Num(i.integer, x.e)) \/ r = Packed224(Num(i.frac, x.e))
    BY <1>4, <1>9 DEF UnaryResult
  <2> QED BY <1>2, <1>9, <2>1
<1>10. CASE f \in {"floor", "ceil"}
  <2>1. Good(Packs(x))
    BY DEF Packs, Good
  <2>2. r \in {Packs(x), Packed224(Num(i.integer, x.e)), Packed224(Add(i.integer, x.e, Pow10[D], -D)),
               Packed224(Sub(i.integer, x.e, Pow10[D], -D))}
    <3>1. CASE f = "floor"
      <4>1. r = Floor(x)
        BY <3>1 DEF UnaryResult
      <4> QED BY <1>4, <4>1 DEF Floor
    <3>2. CASE f = "ceil"
      <4>1. r = Ceil(x)
        BY <3>2 DEF UnaryResult
      <4> QED BY <1>4, <4>1 DEF Ceil
    <3> QED BY <1>10, <3>1, <3>2
  <2> QED BY <1>2, <1>6, <1>10, <2>1, <2>2
<1> QED BY <1>7, <1>8, <1>9, <1>10 DEF Unary

(***************************************************************************)
(* The four operations.                                                    *)
(***************************************************************************)
LEMMA OperationIsGood ==
  ASSUME NEW f \in {"add", "sub", "mul", "div"}, NEW x, x.c \in Packed, x.e \in PackExp,
         NEW y, y.c \in Packed, y.e \in PackExp, NEW r, r = BinaryResult(f, x, y)
  PROVE  IF f = "div" /\ y.c = 0 THEN r.status = "DivisionByZero" ELSE Good(r)
<1>1. /\ x.c \in Coef /\ x.e \in Roomy /\ y.c \in Coef /\ y.e \in Roomy /\ y.c # CoefMin
  BY PackedIsRoomy
<1>2. CASE f = "add"
  <2>1. r = Packed224(Add(x.c, x.e, y.c, y.e))
    BY <1>2 DEF BinaryResult
  <2> QED BY <1>1, <1>2, <2>1, AddIsGood, PackingIsGood
<1>3. CASE f = "sub"
  <2>1. r = Packed224(Sub(x.c, x.e, y.c, y.e))
    BY <1>3 DEF BinaryResult
  <2> QED BY <1>1, <1>3, <2>1, SubIsGood, PackingIsGood
<1>4. CASE f = "mul"
  <2>1. r = Packed224(Mul(x.c, x.e, y.c, y.e))
    BY <1>4 DEF BinaryResult
  <2>2. Good(Mul(x.c, x.e, y.c, y.e))
    BY <1>1, MulIsGood DEF Good
  <2> QED BY <1>4, <2>1, <2>2, PackingIsGood
<1>5. CASE f = "div"
  <2>1. r = Packed224(Div(x.c, x.e, y.c, y.e))
    BY <1>5 DEF BinaryResult
  <2> QED BY <1>1, <1>5, <2>1, DividesByNonZero
<1> QED BY <1>2, <1>3, <1>4, <1>5

-----------------------------------------------------------------------------
(***************************************************************************)
(* Products, quotients and negations.                                      *)
(***************************************************************************)

(***************************************************************************)
(* What a call returns is a packed number.                                 *)
(***************************************************************************)
LEMMA PackedFrom ==
  ASSUME NEW n, NEW r, r = Packed224(n), r.status = "ok"
  PROVE  /\ n.status = "ok"
         /\ \E p : p = PackArithmeticResult(n.c, n.e) /\ p.status = "ok" /\ r.c = p.c /\ r.e = p.e
<1>1. n.status = "ok"
  <2>1. CASE n.status # "ok"
    BY <2>1 DEF Packed224, Fail
  <2> QED BY <2>1
<1>2. PICK p : p = PackArithmeticResult(n.c, n.e)
  OBVIOUS
<1>3. r = IF p.status = "ok" THEN Packs(p) ELSE Fail(p.status)
  BY <1>1, <1>2 DEF Packed224
<1>4. p.status = "ok"
  <2>1. CASE p.status # "ok"
    BY <1>3, <2>1 DEF Fail
  <2> QED BY <2>1
<1>5. r.c = p.c /\ r.e = p.e
  BY <1>3, <1>4 DEF Packs
<1> QED BY <1>1, <1>2, <1>4, <1>5

(***************************************************************************)
(* A number that is zero packs as zero.                                    *)
(***************************************************************************)
LEMMA PackedZero ==
  ASSUME NEW n, n.c = 0, NEW r, r = Packed224(n), r.status = "ok"
  PROVE  r.c = 0 /\ r.e = 0
BY PackedFrom, ZeroPacks

-----------------------------------------------------------------------------
(***************************************************************************)
(* Comparison.                                                             *)
(***************************************************************************)
(***************************************************************************)
(* The exact order and a truth value returned for it are Boolean.          *)
(***************************************************************************)
LEMMA LessIsTruth ==
  ASSUME NEW c1 \in Int, NEW c2 \in Int, NEW e1 \in Int, NEW e2 \in Int
  PROVE  LessNumber(c1, e1, c2, e2) \in BOOLEAN
<1>1. ASSUME NEW m \in Int, NEW p, NEW n \in Int, NEW q PROVE Below(m, p, n, q) \in BOOLEAN
  <2>1. CASE p >= q
    BY <2>1 DEF Below
  <2>2. CASE ~(p >= q)
    BY <2>2 DEF Below
  <2> QED BY <2>1, <2>2
<1>2. PICK s1, s2 : s1 = Sign(c1) /\ s2 = Sign(c2)
  OBVIOUS
<1>3. /\ s1 \in {-1, 0, 1} /\ s2 \in {-1, 0, 1} /\ (s1 < s2) \in BOOLEAN
      /\ s1 = s2 => \/ c1 > 0 /\ ~(c1 < 0) /\ ~(c1 = 0)
                    \/ c1 < 0 /\ ~(c1 > 0) /\ ~(c1 = 0)
                    \/ c1 = 0 /\ c2 = 0 /\ ~(c1 < 0) /\ ~(c1 > 0)
  BY <1>2 DEF Sign
<1>4. LessNumber(c1, e1, c2, e2) =
        CASE s1 # s2           -> s1 < s2
          [] s1 = s2 /\ c1 > 0 -> Below(c1, e1, c2, e2)
          [] s1 = s2 /\ c1 < 0 -> Below(-c2, e2, -c1, e1)
          [] c1 = 0 /\ c2 = 0  -> FALSE
  BY <1>2, Zenon DEF LessNumber
<1>5. CASE s1 # s2
  <2>1. ~(c1 = 0 /\ c2 = 0) /\ ~(s1 = s2 /\ c1 > 0) /\ ~(s1 = s2 /\ c1 < 0)
    BY <1>2, <1>5 DEF Sign
  <2>2. LessNumber(c1, e1, c2, e2) = (s1 < s2)
    BY <1>4, <1>5, <2>1, Zenon
  <2> QED BY <1>3, <2>2, Zenon
<1>6. CASE s1 = s2
  <2>1. CASE c1 > 0
    <3>1. LessNumber(c1, e1, c2, e2) = Below(c1, e1, c2, e2)
      <4>1. ~(s1 # s2) /\ ~(s1 = s2 /\ c1 < 0) /\ ~(c1 = 0 /\ c2 = 0)
        BY <1>6, <2>1
      <4> QED BY <1>4, <1>6, <2>1, <4>1, Zenon
    <3> QED BY <1>1, <3>1
  <2>2. CASE c1 < 0
    <3>1. LessNumber(c1, e1, c2, e2) = Below(-c2, e2, -c1, e1)
      <4>1. ~(s1 # s2) /\ ~(s1 = s2 /\ c1 > 0) /\ ~(c1 = 0 /\ c2 = 0)
        BY <1>6, <2>2
      <4> QED BY <1>4, <1>6, <2>2, <4>1, Zenon
    <3>2. -c1 \in Int /\ -c2 \in Int
      OBVIOUS
    <3> QED BY <1>1, <3>1, <3>2
  <2>3. CASE c1 = 0
    <3>1. LessNumber(c1, e1, c2, e2) = FALSE
      <4>1. ~(s1 # s2) /\ ~(s1 = s2 /\ c1 > 0) /\ ~(s1 = s2 /\ c1 < 0) /\ c1 = 0 /\ c2 = 0
        BY <1>3, <1>6, <2>3
      <4> QED BY <1>4, <4>1, Zenon
    <3> QED BY <3>1
  <2> QED BY <2>1, <2>2, <2>3
<1> QED BY <1>5, <1>6

(***************************************************************************)
(* Two floats of the contract are compared as the numbers they hold.       *)
(***************************************************************************)
LEMMA PairCompares ==
  ASSUME NEW x, x.c \in Packed, x.e \in PackExp, NEW y, y.c \in Packed, y.e \in PackExp,
         NEW r, r = Rescaled(x, y)
  PROVE  /\ r[1] \in Int /\ r[2] \in Int
         /\ LessNumber(x.c, x.e, y.c, y.e) \in BOOLEAN
         /\ LessNumber(x.c, x.e, y.c, y.e) <=> r[1] < r[2]
         /\ SameNumber(x.c, x.e, y.c, y.e) \in BOOLEAN
         /\ SameNumber(x.c, x.e, y.c, y.e) <=> r[1] = r[2]
<1>1. PICK c1, e1, c2, e2 : c1 = x.c /\ e1 = x.e /\ c2 = y.c /\ e2 = y.e
  OBVIOUS
<1>2. /\ c1 \in Coef /\ c2 \in Coef /\ e1 \in Exp /\ e2 \in Exp
      /\ c1 \in Int /\ c2 \in Int /\ e1 \in Int /\ e2 \in Int
  BY <1>1, PackedIsRoomy, RoomySuffices
<1>3. r = CompareRescale(c1, e1, c2, e2)
  BY <1>1 DEF Rescaled
<1>4. PICK z \in Int : z <= e1 /\ z <= e2
  BY <1>2
<1>5. /\ r[1] < r[2] <=> SmallerNumber(c1, e1, c2, e2)
      /\ r[1] = r[2] <=> SameNumber(c1, e1, c2, e2)
  BY <1>2, <1>3, RescalingComparesExactly
<1>6. SmallerNumber(c1, e1, c2, e2) <=> LessNumber(c1, e1, c2, e2)
  BY <1>2, <1>4, SameCompares
<1>7. r[1] \in Int /\ r[2] \in Int
  BY <1>2, <1>3, RescalingIsInteger
<1>8. LessNumber(c1, e1, c2, e2) \in BOOLEAN
  BY <1>2, LessIsTruth
<1>9. SameNumber(c1, e1, c2, e2) \in BOOLEAN
  BY DEF SameNumber
<1> QED BY <1>1, <1>5, <1>6, <1>7, <1>8, <1>9

(***************************************************************************)
(* A difference is zero for equal numbers only.                            *)
(***************************************************************************)
LEMMA DifferenceIsZero ==
  ASSUME NEW x, x.c \in Packed, x.e \in PackExp, NEW y, y.c \in Packed, y.e \in PackExp,
         NEW r, r = BinaryResult("sub", x, y), r.status = "ok"
  PROVE  r.c = 0 <=> SameNumber(x.c, x.e, y.c, y.e)
<1>1. PICK c1, e1, c2, e2 : c1 = x.c /\ e1 = x.e /\ c2 = y.c /\ e2 = y.e
  OBVIOUS
<1>2. /\ c1 \in Coef /\ c2 \in Coef /\ e1 \in Roomy /\ e2 \in Roomy /\ c2 # CoefMin
      /\ c1 \in Int /\ c2 \in Int /\ e1 \in Int /\ e2 \in Int /\ -c2 \in Coef /\ Low \in Int
      /\ Low <= e1 /\ Low <= e2
  BY <1>1, PackedIsRoomy, LowIsBelow
<1>3. Short(c1) /\ Short(-c2)
  BY <1>1, <1>2, PackedIsShort
<1>4. PICK n, p : n = Add(c1, e1, -c2, e2) /\ p = PackArithmeticResult(n.c, n.e)
  OBVIOUS
<1>5. r = Packed224(n)
  <2>1. Sub(c1, e1, c2, e2) = Add(c1, e1, -c2, e2)
    BY <1>2, SubIsGood
  <2>2. r = Packed224(Sub(c1, e1, c2, e2))
    BY <1>1 DEF BinaryResult
  <2> QED BY <1>4, <2>1, <2>2
<1>6. p.status = "ok" /\ r.c = p.c
  BY <1>4, <1>5, PackedFrom
<1>7. PICK u, v : u = InUnits(c1, e1, Low) /\ v = InUnits(c2, e2, Low)
  OBVIOUS
<1>8. u \in Int /\ v \in Int /\ InUnits(-c2, e2, Low) = -v
  BY <1>2, <1>7, UnitsNegate
<1>9. p.c = 0 <=> u + (-v) = 0
  BY <1>2, <1>3, <1>4, <1>6, <1>7, <1>8, PackedSum
<1>10. u = v <=> SameNumber(c1, e1, c2, e2)
  <2>1. PICK z \in Int, f \in Int, g \in Int : z = Low /\ f = e1 /\ g = e2
    BY <1>2
  <2> QED BY <1>2, <1>7, <2>1, SameCompares
<1> QED BY <1>1, <1>6, <1>8, <1>9, <1>10

(***************************************************************************)
(* Sums.                                                                   *)
(***************************************************************************)
(***************************************************************************)
(* What add and sub return of the exact sum N, in units of 10^S.           *)
(***************************************************************************)
LEMMA SumAnswer ==
  ASSUME NEW f \in {"add", "sub"}, NEW x, x.c \in Packed, x.e \in PackExp,
         NEW y, y.c \in Packed, y.e \in PackExp, NEW r, r = BinaryResult(f, x, y),
         NEW S, S = IF x.e < y.e THEN x.e ELSE y.e,
         NEW N, N = x.c * ten[x.e - S] + (IF f = "sub" THEN -y.c ELSE y.c) * ten[y.e - S]
  PROVE  /\ N \in Int /\ S \in PackExp /\ N * ten[S - Low] \in Int
         /\ r.status = "ok" =>
              /\ r.c \in Packed /\ r.e \in PackExp
              /\ r.c = 0 <=> N = 0
              /\ Abs(N * ten[S - Low] - InUnits(r.c, r.e, Low)) < ten[r.e - Low]
         /\ r.status = "ExponentOverflow" =>
              InUnits(PackMax, PackExpMax, Low) < Abs(N * ten[S - Low])
         /\ r.status = "ExponentUnderflow" =>
              N # 0 /\ Abs(N * ten[S - Low]) < InUnits(PackMax + 2, PackExpMin - 1, Low)
<1>1. PICK c1, e1, c2, e2, v : /\ c1 = x.c /\ e1 = x.e /\ c2 = y.c /\ e2 = y.e
                               /\ v = IF f = "sub" THEN -y.c ELSE y.c
  OBVIOUS
<1>2. /\ c1 \in Coef /\ c2 \in Coef /\ e1 \in Roomy /\ e2 \in Roomy /\ c2 # CoefMin
      /\ c1 \in Int /\ c2 \in Int /\ e1 \in Int /\ e2 \in Int /\ v \in Coef /\ v \in Int
      /\ Short(c1) /\ Short(v)
  <2>1. /\ c1 \in Coef /\ c2 \in Coef /\ e1 \in Roomy /\ e2 \in Roomy /\ c2 # CoefMin
        /\ c1 \in Int /\ c2 \in Int /\ e1 \in Int /\ e2 \in Int /\ -c2 \in Coef
        /\ Short(c1) /\ Short(c2) /\ Short(-c2)
    BY <1>1, PackedIsRoomy, PackedIsShort
  <2> QED BY <1>1, <2>1
<1>3. PICK n, p : n = Add(c1, e1, v, e2) /\ p = PackArithmeticResult(n.c, n.e)
  OBVIOUS
<1>4. r = Packed224(n)
  <2>1. CASE f = "sub"
    <3>1. Sub(c1, e1, c2, e2) = Add(c1, e1, -c2, e2) /\ v = -c2
      BY <1>1, <1>2, <2>1, SubIsGood
    <3>2. r = Packed224(Sub(c1, e1, c2, e2))
      BY <1>1, <2>1 DEF BinaryResult
    <3> QED BY <1>3, <3>1, <3>2
  <2>2. CASE f = "add"
    BY <1>1, <1>3, <2>2 DEF BinaryResult
  <2> QED BY <2>1, <2>2
<1>5. PICK z \in Int : z = Low /\ z <= e1 /\ z <= e2
  BY <1>2, LowIsBelow
<1>6. S \in Int /\ S \in PackExp /\ z <= S /\ S <= e1 /\ S <= e2
  BY <1>1, <1>2, <1>5
<1>7. PICK X : X = InUnits(c1, e1, Low) + InUnits(v, e2, Low)
  OBVIOUS
<1>8. N \in Int /\ X = N * ten[S - z] /\ X \in Int /\ ten[S - z] \in Nat /\ ten[S - z] >= 1
  <2>1. PICK A \in Int, B \in Int, w \in Nat :
          /\ A = InUnits(c1, e1, S) /\ B = InUnits(v, e2, S) /\ w = ten[S - z] /\ w >= 1
          /\ InUnits(c1, e1, z) = A * w /\ InUnits(v, e2, z) = B * w
    <3>1. PICK g \in Int, h \in Int, t \in Int : g = e1 /\ h = e2 /\ t = S
      BY <1>2, <1>6
    <3>2. /\ InUnits(c1, g, t) \in Int /\ ten[t - z] \in Nat /\ ten[t - z] >= 1
          /\ InUnits(c1, g, z) = InUnits(c1, g, t) * ten[t - z]
      BY <1>2, <1>5, <1>6, <3>1, SmallerUnits
    <3>3. InUnits(v, h, t) \in Int /\ InUnits(v, h, z) = InUnits(v, h, t) * ten[t - z]
      BY <1>2, <1>5, <1>6, <3>1, SmallerUnits
    <3> QED BY <3>1, <3>2, <3>3
  <2>2. N = A + B
    BY <1>1, <2>1 DEF InUnits
  <2>3. X = A * w + B * w
    BY <1>5, <1>7, <2>1
  <2>4. A * w + B * w = (A + B) * w
    OBVIOUS
  <2> QED BY <2>1, <2>2, <2>3, <2>4
<1>9. N = 0 <=> X = 0
  <2>1. PICK w \in Nat, M \in Int : w = ten[S - z] /\ w >= 1 /\ M = N
    BY <1>8
  <2>2. w # 0 /\ w \in Int
    BY <2>1
  <2>3. M * w = 0 <=> M = 0 \/ w = 0
    BY <2>2, ProductMagnitude
  <2> QED BY <1>8, <2>1, <2>2, <2>3
<1>10. /\ n.status = "ok" /\ Good(p)
       /\ p.status = "ok" =>
            /\ p.c \in Packed /\ p.e \in PackExp
            /\ p.c = 0 <=> X = 0
            /\ Abs(X - InUnits(p.c, p.e, Low)) < ten[p.e - Low]
       /\ p.status = "ExponentOverflow" => InUnits(PackMax, PackExpMax, Low) < Abs(X)
       /\ p.status = "ExponentUnderflow" => X # 0 /\ Abs(X) < InUnits(PackMax + 2, PackExpMin - 1, Low)
  BY <1>2, <1>3, <1>7, PackedSum
<1>11. r.status = p.status /\ (r.status = "ok" => r.c = p.c /\ r.e = p.e)
  BY <1>3, <1>4, <1>10 DEF Packed224, Packs, Fail
<1>12. X = N * ten[S - Low]
  BY <1>5, <1>8
<1> QED BY <1>6, <1>8, <1>9, <1>10, <1>11, <1>12

(***************************************************************************)
(* Rounding.                                                               *)
(***************************************************************************)
(***************************************************************************)
(* A packed coefficient and exponent are packed as they are.               *)
(***************************************************************************)
LEMMA PackedPacks ==
  ASSUME NEW x \in Packed, NEW e \in PackExp, NEW r, r = Packed224(Num(x, e))
  PROVE  r.status = "ok" /\ r.c = x /\ r.e = (IF x = 0 THEN 0 ELSE e)
<1>1. PICK p : p = PackArithmeticResult(x, e)
  OBVIOUS
<1>2. p.status = "ok" /\ p.c = x /\ p.e = (IF x = 0 THEN 0 ELSE e)
  <2>1. CASE x = 0
    BY <1>1, <2>1, ZeroPacks
  <2>2. CASE x # 0
    <3>1. /\ x \in Coef /\ x \in Int /\ e \in Exp /\ e \in Int /\ e + D + 1 <= ExpMax
      <4>1. PackExpMax \in Nat /\ D \in Nat /\ ExpMax \in Nat /\ 2 * PackExpMax + 3 * (D + 1) <= ExpMax
        BY WidthsAreInts, ExponentsFit
      <4>2. e \in Int /\ e <= PackExpMax
        BY <4>1 DEF PackExp, PackExpMin
      <4> QED BY <4>1, <4>2, PackedIsRoomy, RoomySuffices
    <3>2. PICK k : k = DigitsToDrop(x)
      OBVIOUS
    <3>3. k = 0
      BY <2>2, <3>1, <3>2, DropsKeepDigits
    <3>4. p.status = Fate(e + k)
      BY <1>1, <2>2, <3>1, <3>2, PackTruncates
    <3>5. p.status = "ok"
      BY <3>1, <3>3, <3>4 DEF Fate
    <3> QED BY <1>1, <2>2, <3>1, <3>5, PackedNumber
  <2> QED BY <2>1, <2>2
<1>3. (Num(x, e)).status = "ok" /\ (Num(x, e)).c = x /\ (Num(x, e)).e = e
  BY DEF Num
<1> QED BY <1>1, <1>2, <1>3 DEF Packed224, Packs

(***************************************************************************)
(* The parts of a number with digits behind its point: q whole units and   *)
(* less than a unit, on the number's side of zero.                         *)
(***************************************************************************)
LEMMA PartsOf ==
  ASSUME NEW x \in Packed, NEW e \in PackExp, e < 0, NEW p, p = IntFrac(x, e),
         NEW T, T = ten[-e]
  PROVE  /\ T \in Nat /\ T >= 10 /\ -e \in Nat
         /\ \E q \in Int : /\ p.integer = q * T /\ x = q * T + p.frac
                           /\ p.frac \in Packed /\ p.integer \in Packed /\ Abs(p.frac) < T
                           /\ x >= 0 => q >= 0 /\ p.frac >= 0
                           /\ x < 0 => q <= 0 /\ p.frac <= 0
                           /\ 10 * Abs(q) <= PackMax + 1 /\ Abs(p.integer) <= PackMax + 1
                           /\ q # 0 => T <= Abs(x)
<1>1. /\ x \in Int /\ x \in Coef /\ e \in Int /\ D \in Nat /\ PackMax \in Nat /\ PackMax >= 10
      /\ x <= PackMax /\ -x <= PackMax + 1 /\ -e \in Nat
  <2>1. PackMax \in Nat /\ PackMax >= 10 /\ D \in Nat
    BY Widths, WidthsAreInts
  <2>2. x \in Int /\ x <= PackMax /\ -x <= PackMax + 1
    BY <2>1 DEF Packed, PackMin
  <2> QED BY <2>1, <2>2, PackedIsRoomy
<1>2. T \in Nat /\ T >= 10
  <2>1. 1 \in Nat /\ -e \in Nat /\ 1 <= -e /\ ten[1] = 10
    <3>1. 0 \in Nat /\ ten[0 + 1] = 10 * ten[0] /\ ten[0] = 1
      BY TenUnfolds
    <3> QED BY <1>1, <3>1
  <2> QED BY <2>1, TenGrows, TenType
<1>3. /\ p.integer \in Int /\ p.frac \in Int /\ p.integer + p.frac = x
      /\ x >= 0 => p.integer \in 0..x /\ p.frac \in 0..x
      /\ x < 0 => p.integer \in x..0 /\ p.frac \in x..0
  BY <1>1, PartsAreCoef
<1>4. /\ p.integer \in Packed /\ p.frac \in Packed
      /\ Abs(p.integer) <= PackMax + 1 /\ Abs(p.frac) <= PackMax + 1 /\ Abs(p.integer) <= Abs(x)
  BY <1>1, <1>3 DEF Packed, PackMin, Abs
<1>5. PICK q \in Int : p.integer = q * T /\ Abs(p.frac) < T
  <2>1. CASE e < -D
    <3>1. p = [integer |-> 0, frac |-> x]
      <4>1. ~(e >= 0) /\ ~(e \in -D..-1)
        BY <1>1, <2>1
      <4> QED BY <2>1, <4>1 DEF IntFrac
    <3>2. p.integer = 0 * T /\ 0 \in Int
      BY <1>2, <3>1
    <3>3. ten[D + 1] <= T /\ ten[D + 1] = Pow10[D + 1]
      <4>1. D + 1 \in Nat /\ -e \in Nat /\ D + 1 <= -e /\ D + 1 \in 0..(D + 1)
        BY <1>1, <2>1
      <4> QED BY <4>1, TenGrows, PowersAreTens
    <3>4. Abs(x) <= PackMax + 1 /\ PackMax + 1 <= CoefMax /\ CoefMax + 1 < Pow10[D + 1]
          /\ CoefMax \in Nat /\ Pow10[D + 1] \in Nat
      <4>1. CoefMax + 1 < Pow10[D + 1] /\ CoefMax \in Nat /\ Pow10[D + 1] \in Nat
        BY PowersOfCoef, Pow10Grows
      <4>2. PackMax < CoefMax
        BY Widths
      <4> QED BY <1>1, <4>1, <4>2 DEF Abs
    <3>5. p.frac = x /\ Abs(x) \in Int
      BY <1>1, <3>1 DEF Abs
    <3> QED BY <1>1, <1>2, <3>2, <3>3, <3>4, <3>5
  <2>2. CASE e \in -D..-1
    <3>1. Pow10[-e] = T
      <4>1. -e \in 0..(D + 1)
        BY <1>1, <2>2
      <4> QED BY <4>1, PowersAreTens
    <3>2. p = [integer |-> x - Rem(x, T), frac |-> Rem(x, T)]
      <4>1. ~(e >= 0) /\ ~(e < -D)
        BY <1>1, <2>2
      <4> QED BY <2>2, <3>1, <4>1 DEF IntFrac
    <3>3. Rem(x, T) = x - T * Quot(x, T) /\ Quot(x, T) \in Int /\ Abs(Rem(x, T)) < T
      <4>1. T \in Nat /\ T >= 1
        BY <1>2
      <4>2. Quot(x, T) \in Int
        BY <1>1, <4>1, QuotShrinks
      <4>3. Abs(Rem(x, T)) < T
        BY <1>1, <4>1, RemShrinks
      <4> QED BY <4>2, <4>3 DEF Rem
    <3>4. PICK q \in Int : q = Quot(x, T)
      BY <3>3
    <3>5. x - (x - T * q) = q * T
      BY <1>1, <1>2
    <3> QED BY <3>2, <3>3, <3>4, <3>5
  <2> QED BY <1>1, <2>1, <2>2
<1>6. PICK Q \in Nat : Q = Abs(q) /\ Abs(p.integer) = Q * T
  BY <1>2, <1>5, TimesMagnitude, CoefMagnitude
<1>7. Q * 10 <= Q * T
  BY <1>2, <1>6, TimesGrows
<1>8. q # 0 => T <= Abs(x)
  <2> SUFFICES ASSUME q # 0 PROVE T <= Abs(x)
    OBVIOUS
  <2>1. Q >= 1
    BY <1>6 DEF Abs
  <2>2. T * 1 <= T * Q
    BY <1>2, <1>6, <2>1, TimesGrows
  <2>3. Abs(x) \in Int
    BY <1>1 DEF Abs
  <2> QED BY <1>2, <1>4, <1>6, <2>2, <2>3
<1>9. /\ p.integer >= 0 => q >= 0
      /\ p.integer <= 0 => q <= 0
  <2>1. q >= 1 => q * T >= 1
    <3>1. q >= 1 => T * 1 <= T * q
      BY <1>2, <1>5, TimesGrows
    <3> QED BY <1>2, <1>5, <3>1
  <2>2. q <= -1 => q * T <= -1
    <3>1. q <= -1 => T * q <= T * (-1)
      BY <1>2, <1>5, TimesGrows
    <3> QED BY <1>2, <1>5, <3>1
  <2> QED BY <1>3, <1>5, <2>1, <2>2
<1>10. 10 * Abs(q) <= PackMax + 1
  <2>1. Q * T <= PackMax + 1
    BY <1>4, <1>6
  <2>2. Q * T \in Int
    BY <1>2, <1>6
  <2> QED BY <1>1, <1>6, <1>7, <2>1, <2>2
<1>11. x = q * T + p.frac
  BY <1>3, <1>5
<1> QED BY <1>1, <1>2, <1>3, <1>4, <1>5, <1>8, <1>9, <1>10, <1>11

(***************************************************************************)
(* One added to or subtracted from whole units, away from zero: the sum is *)
(* never refused, and exact.                                               *)
(***************************************************************************)
LEMMA OneBeside ==
  ASSUME NEW q \in Int, 10 * Abs(q) <= PackMax + 1, NEW s \in {1, -1}, s = 1 => q >= 0, s = -1 => q <= 0,
         NEW e \in PackExp, e < 0, NEW i, i = q * ten[-e], Abs(i) <= PackMax + 1, i \in Packed,
         NEW r, r = Packed224(Add(i, e, s * Pow10[D], -D))
  PROVE  /\ r.status = "ok"
         /\ \E j \in Nat : r.c = (q + s) * ten[j] /\ r.e = 0 - j /\ r.c \in Packed /\ r.e \in PackExp
<1>1. PICK w \in Int : w = q + s
  OBVIOUS
<1>2. w \in Packed /\ Abs(w) >= 1 /\ PackMax \in Nat
  <2>1. PackMax \in Nat /\ PackMax >= 10
    BY Widths
  <2> QED BY <1>1, <2>1 DEF Packed, PackMin, Abs
<1>3. /\ i \in Coef /\ i \in Int /\ Short(i) /\ e \in Roomy /\ e \in Int /\ -D \in Roomy /\ D \in Nat
      /\ s * Pow10[D] \in Coef /\ Short(s * Pow10[D]) /\ Low \in Int /\ Low <= e /\ Low <= -D /\ -e \in Nat
  <2>1. i \in Coef /\ i \in Int /\ Short(i) /\ e \in Roomy /\ -D \in Roomy /\ e \in Int
    BY PackedIsRoomy, PackedIsShort
  <2>2. 1 * Pow10[D] = Pow10[D] /\ (-1) * Pow10[D] = -Pow10[D]
    BY PowersOfCoef
  <2>3. s * Pow10[D] \in Coef /\ Short(s * Pow10[D])
    BY <2>2, PackedIsRoomy, PackedIsShort
  <2> QED BY <2>1, <2>3, LowIsBelow
<1>4. InUnits(i, e, Low) + InUnits(s * Pow10[D], -D, Low) = InUnits(w, 0, Low)
  <2>1. PICK z \in Int : z = Low /\ z <= e /\ z <= -D /\ 0 - z \in Nat /\ e - z \in Nat /\ -D - z \in Nat
    BY <1>3
  <2>2. ten[0 - z] = ten[-e] * ten[e - z] /\ ten[0 - z] = ten[D] * ten[-D - z] /\ ten[D] = Pow10[D]
    <3>1. (-e) + (e - z) = 0 - z /\ D + (-D - z) = 0 - z /\ D \in 0..(D + 1)
      BY <1>3, <2>1
    <3>2. ten[(-e) + (e - z)] = ten[-e] * ten[e - z] /\ ten[D + (-D - z)] = ten[D] * ten[-D - z]
      BY <1>3, <2>1, TenAdds
    <3> QED BY <3>1, <3>2, PowersAreTens
  <2>3. PICK u \in Nat, v \in Nat, g \in Nat, h \in Nat, t \in Nat :
          u = ten[-e] /\ v = ten[e - z] /\ g = ten[D] /\ h = ten[-D - z] /\ t = ten[0 - z]
    BY <1>3, <2>1, TenType
  <2>4. t = u * v /\ t = g * h
    BY <2>2, <2>3
  <2>5. InUnits(i, e, z) = (q * u) * v /\ InUnits(s * Pow10[D], -D, z) = (s * g) * h
    BY <2>2, <2>3 DEF InUnits
  <2>6. (q * u) * v = q * t /\ (s * g) * h = s * t /\ InUnits(w, 0, z) = w * t
    <3>1. (q * u) * v = q * (u * v)
      OBVIOUS
    <3>2. s \in Int /\ (s * g) * h = s * (g * h)
      OBVIOUS
    <3>3. InUnits(w, 0, z) = w * t
      BY <2>3 DEF InUnits
    <3> QED BY <2>4, <3>1, <3>2, <3>3
  <2>7. q * t + s * t = w * t
    BY <1>1
  <2> QED BY <2>1, <2>5, <2>6, <2>7
<1>5. PICK n, p : n = Add(i, e, s * Pow10[D], -D) /\ p = PackArithmeticResult(n.c, n.e)
  OBVIOUS
<1>6. /\ n.status = "ok" /\ p.status = "ok"
      /\ \E j \in Nat : p.c = w * ten[j] /\ p.e = 0 - j /\ p.c \in Packed /\ p.e \in PackExp /\ p.c # 0
  <2>1. PICK f \in Int, d \in {-D}, y \in {s * Pow10[D]} : f = 0 /\ d = -D /\ y = s * Pow10[D]
    OBVIOUS
  <2>2. f <= 0 /\ ten[-f] <= Abs(w) /\ e <= f /\ d <= f /\ Low <= f
    <3>1. -f = 0
      <4>1. f <= 0 /\ f >= 0
        BY <2>1
      <4> QED BY <4>1
    <3>2. ten[-f] = 1
      BY <3>1, TenUnfolds
    <3> QED BY <1>2, <1>3, <2>1, <3>2
  <2>3. /\ y \in Coef /\ Short(y) /\ d \in Roomy /\ n = Add(i, e, y, d)
        /\ InUnits(i, e, Low) + InUnits(y, d, Low) = InUnits(w, f, Low)
    BY <1>3, <1>4, <1>5, <2>1
  <2>4. /\ n.status = "ok" /\ p.status = "ok"
        /\ \E j \in Nat : p.c = w * ten[j] /\ p.e = f - j /\ p.c \in Packed /\ p.e \in PackExp /\ p.c # 0
    <3>1. PICK x1 \in Coef, e1 \in Roomy, w1 \in Packed : x1 = i /\ e1 = e /\ w1 = w
      BY <1>2, <1>3
    <3>2. /\ Short(x1) /\ Short(y) /\ y \in Coef /\ d \in Roomy
          /\ ten[-f] <= Abs(w1) /\ e1 <= f /\ d <= f /\ Low <= f /\ f <= 0
          /\ InUnits(x1, e1, Low) + InUnits(y, d, Low) = InUnits(w1, f, Low)
          /\ n = Add(x1, e1, y, d) /\ p = PackArithmeticResult(n.c, n.e)
      BY <1>3, <1>5, <2>1, <2>2, <2>3, <3>1
    <3>3. /\ n.status = "ok" /\ p.status = "ok"
          /\ \E j \in Nat : p.c = w1 * ten[j] /\ p.e = f - j /\ p.c \in Packed /\ p.e \in PackExp /\ p.c # 0
      BY <2>1, <3>2, SumIsExact
    <3> QED BY <3>1, <3>3
  <2> QED BY <2>1, <2>4
<1>7. r = Packs(p)
  BY <1>5, <1>6 DEF Packed224
<1> QED BY <1>1, <1>6, <1>7 DEF Packs

(***************************************************************************)
(* r is the whole number Q, and d is how far it is above x, in units of x. *)
(***************************************************************************)
Whole(r, Q, x, d) ==
  /\ Q \in Int /\ d = Q * ten[-x.e] - x.c
  /\ r.status = "ok" /\ r.c \in Packed /\ r.e \in PackExp
  /\ \E j \in Nat : r.c = Q * ten[j] /\ r.e = 0 - j

(***************************************************************************)
(* What floor, ceil and integer return of a number with digits behind its  *)
(* point.                                                                  *)
(***************************************************************************)
LEMMA RoundedAnswer ==
  ASSUME NEW f \in {"integer", "floor", "ceil"}, NEW x, x.c \in Packed, x.e \in PackExp, x.e < 0,
         NEW r, r = UnaryResult(f, x), NEW T, T = ten[-x.e]
  PROVE  \E Q \in Int, d \in Int :
           /\ Whole(r, Q, x, d)
           /\ f = "floor" => d \in (1 - T)..0
           /\ f = "ceil" => d \in 0..(T - 1)
           /\ f = "integer" => Abs(d) < T /\ (x.c >= 0 => d <= 0) /\ (x.c < 0 => d >= 0)
<1>1. PICK c, e, p : c = x.c /\ e = x.e /\ p = IntFrac(c, e)
  OBVIOUS
<1>2. c \in Packed /\ e \in PackExp /\ e < 0 /\ T = ten[-e] /\ c \in Int /\ e \in Int
  BY <1>1, PackedIsRoomy
<1>3. /\ T \in Nat /\ T >= 10 /\ -e \in Nat
      /\ \E q \in Int : /\ p.integer = q * T /\ c = q * T + p.frac
                        /\ p.frac \in Packed /\ p.integer \in Packed /\ Abs(p.frac) < T
                        /\ c >= 0 => q >= 0 /\ p.frac >= 0
                        /\ c < 0 => q <= 0 /\ p.frac <= 0
                        /\ 10 * Abs(q) <= PackMax + 1 /\ Abs(p.integer) <= PackMax + 1
                        /\ q # 0 => T <= Abs(c)
  BY <1>1, <1>2, PartsOf
<1>4. PICK q \in Int, g \in Int :
        /\ p.integer = q * T /\ g = p.frac /\ c = q * T + g
        /\ p.integer \in Packed /\ Abs(g) < T
        /\ c >= 0 => q >= 0 /\ g >= 0
        /\ c < 0 => q <= 0 /\ g <= 0
        /\ 10 * Abs(q) <= PackMax + 1 /\ Abs(p.integer) <= PackMax + 1
  BY <1>3, PackedIsRoomy
<1>5. PICK M \in Int : M = q * T
  BY <1>3
<1>6. ASSUME NEW u, u = Packed224(Num(p.integer, e)) PROVE Whole(u, q, x, M - c)
  <2>1. u.status = "ok" /\ u.c = p.integer /\ u.e = (IF p.integer = 0 THEN 0 ELSE e)
    <3>1. PICK i \in Packed, h \in PackExp : i = p.integer /\ h = e
      BY <1>2, <1>4
    <3> QED BY <1>6, <3>1, PackedPacks
  <2>2. 0 \in PackExp /\ 0 \in Int
    BY WidthsAreInts DEF PackExp, PackExpMin
  <2>3. CASE p.integer # 0
    <3>1. -e \in Nat /\ u.c = q * ten[-e] /\ u.e = 0 - (-e)
      BY <1>2, <1>3, <1>4, <2>1, <2>3
    <3> QED BY <1>1, <1>2, <1>4, <1>5, <2>1, <2>3, <3>1 DEF Whole
  <2>4. CASE p.integer = 0
    <3>1. q = 0
      <4>1. T # 0 /\ T \in Int
        BY <1>3
      <4>2. q * T = 0
        BY <1>4, <2>4
      <4> QED BY <4>1, <4>2, ProductMagnitude
    <3>2. 0 \in Nat /\ u.c = q * ten[0] /\ u.e = 0 - 0
      BY <2>1, <2>4, <3>1, TenUnfolds
    <3> QED BY <1>1, <1>2, <1>4, <1>5, <2>1, <2>2, <2>4, <3>2 DEF Whole
  <2> QED BY <2>3, <2>4
<1>7. CASE f = "integer"
  <2>1. r = Packed224(Num(p.integer, e))
    BY <1>1, <1>7 DEF UnaryResult
  <2>2. Whole(r, q, x, M - c)
    BY <1>6, <2>1
  <2> QED BY <1>1, <1>2, <1>3, <1>4, <1>5, <1>7, <2>2 DEF Abs
<1>8. CASE f = "floor"
  <2>1. r = Floor(x) /\ ~(e >= 0)
    BY <1>2, <1>8 DEF UnaryResult
  <2>2. CASE c < 0 /\ g # 0
    <3>1. r = Packed224(Sub(p.integer, e, Pow10[D], -D))
      BY <1>1, <1>2, <1>4, <2>1, <2>2 DEF Floor
    <3>2. Sub(p.integer, e, Pow10[D], -D) = Add(p.integer, e, -Pow10[D], -D)
      <4>1. p.integer \in Coef /\ e \in Roomy /\ Pow10[D] \in Coef /\ -D \in Roomy
        BY <1>2, <1>4, PackedIsRoomy
      <4>2. Pow10[D] # CoefMin
        BY PowersOfCoef, Widths DEF CoefMin
      <4> QED BY <4>1, <4>2, SubIsGood
    <3>3. PICK s \in {1, -1} : s = -1 /\ s * Pow10[D] = -Pow10[D] /\ q + s = q - 1
      BY PowersOfCoef
    <3>4. r = Packed224(Add(p.integer, e, s * Pow10[D], -D)) /\ (s = 1 => q >= 0) /\ (s = -1 => q <= 0)
      BY <1>4, <2>2, <3>1, <3>2, <3>3
    <3>5. /\ r.status = "ok"
          /\ \E j \in Nat : r.c = (q + s) * ten[j] /\ r.e = 0 - j /\ r.c \in Packed /\ r.e \in PackExp
      BY <1>2, <1>4, <3>4, OneBeside
    <3>6. (q - 1) * T - c = M - T - c /\ q - 1 \in Int /\ M - T - c \in Int
      BY <1>2, <1>3, <1>5
    <3>7. Whole(r, q - 1, x, M - T - c)
      BY <1>1, <1>2, <3>3, <3>5, <3>6 DEF Whole
    <3>8. M - T - c \in (1 - T)..0
      BY <1>2, <1>3, <1>4, <1>5, <2>2 DEF Abs
    <3> QED BY <1>8, <3>6, <3>7, <3>8
  <2>3. CASE ~(c < 0 /\ g # 0)
    <3>1. r = Packed224(Num(p.integer, e))
      BY <1>1, <1>2, <1>4, <2>1, <2>3 DEF Floor
    <3>2. Whole(r, q, x, M - c)
      BY <1>6, <3>1
    <3> QED BY <1>2, <1>3, <1>4, <1>5, <1>8, <2>3, <3>2 DEF Abs
  <2> QED BY <2>2, <2>3
<1>9. CASE f = "ceil"
  <2>1. r = Ceil(x) /\ ~(e >= 0)
    BY <1>2, <1>9 DEF UnaryResult
  <2>2. CASE g > 0
    <3>1. r = Packed224(Add(p.integer, e, Pow10[D], -D))
      BY <1>1, <1>2, <1>4, <2>1, <2>2 DEF Ceil
    <3>2. c >= 0
      BY <1>2, <1>4, <2>2
    <3>3. PICK s \in {1, -1} : s = 1 /\ s * Pow10[D] = Pow10[D] /\ q + s = q + 1
      BY PowersOfCoef
    <3>4. r = Packed224(Add(p.integer, e, s * Pow10[D], -D)) /\ (s = 1 => q >= 0) /\ (s = -1 => q <= 0)
      BY <1>4, <3>1, <3>2, <3>3
    <3>5. /\ r.status = "ok"
          /\ \E j \in Nat : r.c = (q + s) * ten[j] /\ r.e = 0 - j /\ r.c \in Packed /\ r.e \in PackExp
      BY <1>2, <1>4, <3>4, OneBeside
    <3>6. (q + 1) * T - c = M + T - c /\ q + 1 \in Int /\ M + T - c \in Int
      BY <1>2, <1>3, <1>5
    <3>7. Whole(r, q + 1, x, M + T - c)
      BY <1>1, <1>2, <3>3, <3>5, <3>6 DEF Whole
    <3>8. M + T - c \in 0..(T - 1)
      BY <1>2, <1>3, <1>4, <1>5, <2>2 DEF Abs
    <3> QED BY <1>9, <3>6, <3>7, <3>8
  <2>3. CASE g = 0
    <3>1. r = Packs(x)
      BY <1>1, <1>4, <2>1, <2>3 DEF Ceil
    <3>2. r.status = "ok" /\ r.c = c /\ r.e = e
      BY <1>1, <3>1 DEF Packs
    <3>3. c = q * ten[-e] /\ -e \in Nat /\ e = 0 - (-e)
      BY <1>2, <1>3, <1>4, <1>5, <2>3
    <3>4. Whole(r, q, x, M - c)
      BY <1>1, <1>2, <1>4, <1>5, <3>2, <3>3 DEF Whole
    <3>5. M = c /\ M \in Int
      BY <1>2, <1>3, <1>4, <1>5, <2>3
    <3>6. M - c \in 0..(T - 1) /\ M - c \in Int
      BY <1>2, <1>3, <3>5
    <3> QED BY <1>9, <3>4, <3>6
  <2>4. CASE g < 0
    <3>1. r = Packed224(Num(p.integer, e))
      <4>1. ~(e >= 0 \/ g = 0) /\ ~(g > 0)
        BY <2>1, <2>4
      <4> QED BY <1>1, <1>4, <2>1, <4>1 DEF Ceil
    <3>2. Whole(r, q, x, M - c)
      BY <1>6, <3>1
    <3> QED BY <1>2, <1>3, <1>4, <1>5, <1>9, <2>4, <3>2 DEF Abs
  <2> QED BY <2>2, <2>3, <2>4
<1> QED BY <1>7, <1>8, <1>9

(***************************************************************************)
(* Nothing is left of a multiple.                                          *)
(***************************************************************************)
LEMMA ModOfMultiple ==
  ASSUME NEW q \in Int, NEW y \in Nat, y >= 1
  PROVE  (q * y) % y = 0
<1>1. PICK x \in Int : x = q * y
  OBVIOUS
<1>2. PICK m \in Int, k \in Int : /\ m = x % y /\ k = x \div y /\ m \in 0..(y - 1)
                                  /\ x = y * k + m
  BY <1>1
<1>3. m = 0 + (q - k) * y
  <2>1. (q - k) * y = q * y - k * y /\ k * y = y * k
    BY <1>2
  <2> QED BY <1>1, <1>2, <2>1
<1>4. m - 0 < y /\ 0 - m < y /\ q - k \in Int
  BY <1>2
<1>5. m = 0
  BY <1>2, <1>3, <1>4, CongruentAndNear
<1> QED BY <1>1, <1>2, <1>5

(***************************************************************************)
(* Whole numbers are integers.                                             *)
(***************************************************************************)
LEMMA WholeIsInteger ==
  ASSUME NEW r, NEW Q, NEW x, NEW d, Whole(r, Q, x, d)
  PROVE  IsInteger(r)
<1>1. PICK j \in Nat : r.c = Q * ten[j] /\ r.e = 0 - j /\ Q \in Int
  BY DEF Whole
<1>2. CASE j = 0
  BY <1>1, <1>2 DEF IsInteger, FractionOf
<1>3. CASE j # 0
  <2>1. ~(r.e >= 0) /\ -r.e = j
    BY <1>1, <1>3
  <2>2. (Q * ten[j]) % ten[j] = 0
    BY <1>1, TenType, ModOfMultiple
  <2> QED BY <1>1, <2>1, <2>2 DEF IsInteger, FractionOf
<1> QED BY <1>2, <1>3

(***************************************************************************)
(* The distance of a whole number in common units.                         *)
(***************************************************************************)
LEMMA WholeInUnits ==
  ASSUME NEW r, NEW Q \in Int, NEW x, NEW d \in Int, Whole(r, Q, x, d), x.c \in Int, x.e \in Int, x.e < 0,
         NEW z \in Int, z <= x.e, z <= r.e, z <= 0, NEW T, T = ten[-x.e]
  PROVE  \E u \in Nat : /\ u >= 1 /\ T \in Nat /\ T >= 1 /\ ten[-z] = T * u
                        /\ InUnits(r.c, r.e, z) - InUnits(x.c, x.e, z) = d * u
<1>1. PICK j \in Nat : r.c = Q * ten[j] /\ r.e = 0 - j /\ d = Q * T - x.c
  BY DEF Whole
<1>2. PICK e \in Int, c \in Int : e = x.e /\ c = x.c
  OBVIOUS
<1>3. PICK k \in Nat, g \in Nat, h \in Nat, n \in Nat : k = -e /\ g = e - z /\ h = 0 - z /\ n = (0 - j) - z
  <2>1. e < 0 /\ z <= e /\ z <= 0 - j
    BY <1>1, <1>2
  <2>2. -e \in Nat /\ e - z \in Nat /\ 0 - z \in Nat /\ (0 - j) - z \in Nat
    BY <1>1, <1>2, <2>1
  <2> QED BY <2>2
<1>4. k + g = h /\ j + n = h /\ -z = h
  BY <1>1, <1>2, <1>3
<1>5. PICK K \in Nat, G \in Nat, H \in Nat, J \in Nat, N \in Nat :
        /\ K = ten[k] /\ G = ten[g] /\ H = ten[h] /\ J = ten[j] /\ N = ten[n]
        /\ G >= 1 /\ K >= 1 /\ H = K * G /\ H = J * N
  <2>1. /\ ten[k] \in Nat /\ ten[k] >= 1 /\ ten[g] \in Nat /\ ten[g] >= 1
        /\ ten[h] \in Nat /\ ten[j] \in Nat /\ ten[n] \in Nat
    BY TenType
  <2>2. ten[k + g] = ten[k] * ten[g] /\ ten[j + n] = ten[j] * ten[n]
    BY TenAdds
  <2> QED BY <1>4, <2>1, <2>2
<1>6. T = K /\ ten[-z] = H
  BY <1>2, <1>3, <1>4, <1>5
<1>7. InUnits(r.c, r.e, z) = (Q * J) * N /\ InUnits(x.c, x.e, z) = c * G
  BY <1>1, <1>2, <1>3, <1>5 DEF InUnits
<1>8. (Q * J) * N = Q * H /\ Q * H = (Q * K) * G
  <2>1. (Q * J) * N = Q * (J * N)
    BY <1>1, <1>5
  <2>2. (Q * K) * G = Q * (K * G)
    BY <1>1, <1>5
  <2> QED BY <1>5, <2>1, <2>2
<1>9. (Q * K) * G - c * G = (Q * K - c) * G
  BY <1>5
<1> QED BY <1>1, <1>2, <1>5, <1>6, <1>7, <1>8, <1>9

(***************************************************************************)
(* floor, ceil and integer of a float with no digits behind its point.     *)
(***************************************************************************)
LEMMA NothingToRound ==
  ASSUME NEW f \in {"integer", "floor", "ceil"}, NEW x, x.c \in Packed, x.e \in PackExp, x.e >= 0,
         NEW r, r = UnaryResult(f, x)
  PROVE  /\ r.status = "ok" /\ r.c = x.c /\ r.e \in {x.e, 0} /\ (r.c # 0 => r.e = x.e)
<1>1. x.c \in Int /\ x.e \in Int
  BY PackedIsRoomy
<1>2. CASE f = "integer"
  <2>1. IntFrac(x.c, x.e).integer = x.c
    <3>1. ~(x.e < -D) /\ ~(x.e \in -D..-1)
      BY <1>1, WidthsAreInts
    <3>2. IntFrac(x.c, x.e) = [integer |-> x.c, frac |-> 0]
      BY <3>1 DEF IntFrac
    <3> QED BY <3>2
  <2>2. r = Packed224(Num(x.c, x.e))
    BY <1>2, <2>1 DEF UnaryResult
  <2> QED BY <2>2, PackedPacks
<1>3. CASE f = "floor"
  <2>1. r = Floor(x) /\ ~(x.e < 0)
    BY <1>1, <1>3 DEF UnaryResult
  <2>2. r = Packs(x)
    BY <2>1 DEF Floor
  <2> QED BY <2>2 DEF Packs
<1>4. CASE f = "ceil"
  <2>1. r = Ceil(x) /\ ~(x.e < 0)
    BY <1>1, <1>4 DEF UnaryResult
  <2>2. r = Packs(x)
    BY <2>1 DEF Ceil
  <2> QED BY <2>2 DEF Packs
<1> QED BY <1>2, <1>3, <1>4

(***************************************************************************)
(* The two parts of a float.                                               *)
(***************************************************************************)
LEMMA PartsOfFloat ==
  ASSUME NEW c \in Packed, NEW e \in PackExp, NEW p, p = IntFrac(c, e)
  PROVE  /\ p.integer \in Packed /\ p.frac \in Packed /\ p.integer + p.frac = c
         /\ c >= 0 => p.integer >= 0 /\ p.frac >= 0
         /\ c < 0 => p.integer <= 0 /\ p.frac <= 0
         /\ e >= 0 => p.frac = 0
         /\ e < 0 => /\ -e \in Nat /\ Abs(p.frac) < ten[-e]
                     /\ p.integer # 0 => ten[-e] <= Abs(c)
<1>1. c \in Int /\ e \in Int /\ c \in Coef /\ 0 \in Packed
  BY PackedIsRoomy, WidthsAreInts DEF Packed, PackMin
<1>2. /\ p.integer \in Int /\ p.frac \in Int /\ p.integer + p.frac = c
      /\ c >= 0 => p.integer \in 0..c /\ p.frac \in 0..c
      /\ c < 0 => p.integer \in c..0 /\ p.frac \in c..0
  BY <1>1, PartsAreCoef
<1>3. /\ c >= 0 => p.integer >= 0 /\ p.frac >= 0
      /\ c < 0 => p.integer <= 0 /\ p.frac <= 0
  BY <1>1, <1>2
<1>4. CASE e >= 0
  <2>1. ~(e < -D) /\ ~(e \in -D..-1) /\ ~(e < 0)
    BY <1>1, <1>4, WidthsAreInts
  <2>2. p = [integer |-> c, frac |-> 0]
    BY <1>4, <2>1 DEF IntFrac
  <2> QED BY <1>1, <1>2, <1>3, <2>1, <2>2
<1>5. CASE e < 0
  <2>1. PICK T : T = ten[-e]
    OBVIOUS
  <2>2. /\ -e \in Nat
        /\ \E q \in Int : /\ p.integer = q * T /\ p.frac \in Packed /\ p.integer \in Packed /\ Abs(p.frac) < T
                          /\ q # 0 => T <= Abs(c)
    BY <1>5, <2>1, PartsOf
  <2>3. T \in Nat
    BY <2>1, <2>2, TenType
  <2>4. p.integer # 0 => T <= Abs(c)
    <3>1. PICK q \in Int : p.integer = q * T /\ (q # 0 => T <= Abs(c))
      BY <2>2
    <3>2. q = 0 => q * T = 0
      BY <2>3
    <3> QED BY <3>1, <3>2
  <2> QED BY <1>1, <1>2, <1>3, <1>5, <2>1, <2>2, <2>4
<1> QED BY <1>1, <1>4, <1>5

(***************************************************************************)
(* add puts the two parts of a float together.                             *)
(***************************************************************************)
LEMMA PartsJoin ==
  ASSUME NEW c \in Packed, NEW e \in PackExp, NEW i \in Packed, NEW g \in Packed, i + g = c,
         i # 0 /\ g # 0 => e < 0 /\ ten[-e] <= Abs(c),
         NEW s, s = Packed224(Add(i, IF i = 0 THEN 0 ELSE e, g, IF g = 0 THEN 0 ELSE e))
  PROVE  s.status = "ok" /\ SameNumber(s.c, s.e, c, e)
<1>1. c \in Int /\ e \in Int /\ i \in Int /\ g \in Int /\ c \in Coef /\ i \in Coef /\ g \in Coef /\ e \in Roomy
  BY PackedIsRoomy
<1>2. 0 \in PackExp
  BY WidthsAreInts DEF PackExp, PackExpMin
<1>3. CASE i = 0
  <2>1. PICK h \in PackExp : h = IF g = 0 THEN 0 ELSE e
    BY <1>2
  <2>2. s = Packed224(Num(g, h))
    BY <1>3, <2>1 DEF Add
  <2>3. s.status = "ok" /\ s.c = g /\ s.e = (IF g = 0 THEN 0 ELSE h) /\ c = g
    BY <1>1, <1>3, <2>1, <2>2, PackedPacks
  <2>4. CASE g = 0
    BY <2>3, <2>4 DEF SameNumber
  <2>5. CASE g # 0
    BY <2>1, <2>3, <2>5, SameAsItself
  <2> QED BY <2>4, <2>5
<1>4. CASE i # 0 /\ g = 0
  <2>1. s = Packed224(Num(i, e))
    BY <1>4 DEF Add
  <2>2. s.status = "ok" /\ s.c = i /\ s.e = e /\ c = i
    BY <1>1, <1>4, <2>1, PackedPacks
  <2> QED BY <2>2, SameAsItself
<1>5. CASE i # 0 /\ g # 0
  <2>1. PICK r, p : r = Add(i, e, g, e) /\ p = PackArithmeticResult(r.c, r.e)
    OBVIOUS
  <2>2. Low \in Int /\ Low <= e /\ Short(i) /\ Short(g)
    BY <1>1, LowIsBelow, PackedIsShort
  <2>3. InUnits(i, e, Low) + InUnits(g, e, Low) = InUnits(c, e, Low)
    <3>1. e - Low \in Nat
      BY <1>1, <2>2
    <3>2. PICK u \in Nat : u = ten[e - Low]
      BY <3>1, TenType
    <3>3. i * u + g * u = (i + g) * u
      BY <1>1
    <3> QED BY <3>2, <3>3 DEF InUnits
  <2>4. PICK f \in Int : f = e /\ f <= 0
    BY <1>1, <1>5
  <2>5. /\ r.status = "ok" /\ p.status = "ok"
        /\ \E j \in Nat : p.c = c * ten[j] /\ p.e = f - j /\ p.c \in Packed /\ p.e \in PackExp /\ p.c # 0
    <3>1. /\ ten[-f] <= Abs(c) /\ e <= f /\ Low <= f /\ InUnits(i, e, Low) + InUnits(g, e, Low) = InUnits(c, f, Low)
      BY <1>1, <1>5, <2>2, <2>3, <2>4
    <3> QED BY <1>1, <2>1, <2>2, <2>4, <3>1, SumIsExact
  <2>6. PICK j \in Nat : p.c = c * ten[j] /\ p.e = f - j /\ p.c \in Packed /\ p.e \in PackExp /\ p.c # 0
    BY <2>5
  <2>7. PICK y \in Coef, z \in Int : y = p.c /\ z = p.e
    BY <2>6, PackedIsRoomy
  <2>8. InUnits(y, z, z) = InUnits(c, f, z)
    <3>1. z - z = 0 /\ f - z = j
      BY <2>4, <2>6, <2>7
    <3>2. y * ten[0] = c * ten[j]
      BY <2>6, <2>7, TenUnfolds, CoefIsInt
    <3> QED BY <3>1, <3>2 DEF InUnits
  <2>9. SameNumber(y, z, c, f)
    <3>1. z <= z /\ z <= f
      BY <2>4, <2>6, <2>7
    <3> QED BY <1>1, <2>8, <3>1, SameCompares
  <2>10. s = Packs(p)
    <3>1. s = Packed224(r)
      BY <1>5, <2>1
    <3> QED BY <2>1, <2>5, <3>1 DEF Packed224
  <2> QED BY <2>4, <2>7, <2>9, <2>10 DEF Packs
<1> QED BY <1>3, <1>4, <1>5

(***************************************************************************)
(* Errors of range.                                                        *)
(***************************************************************************)
(***************************************************************************)
(* Of a number that was computed, a call fails as its packing does.        *)
(***************************************************************************)
LEMMA FailsAsPacked ==
  ASSUME NEW n, n.status = "ok", NEW r, r = Packed224(n)
  PROVE  r.status = PackArithmeticResult(n.c, n.e).status
<1>1. PICK p : p = PackArithmeticResult(n.c, n.e)
  OBVIOUS
<1>2. r = IF p.status = "ok" THEN Packs(p) ELSE Fail(p.status)
  BY <1>1 DEF Packed224
<1> QED BY <1>1, <1>2 DEF Packs, Fail

(***************************************************************************)
(* A quotient out of range; the dividend is u * 10^f.                      *)
(***************************************************************************)
LEMMA QuotientRange ==
  ASSUME NEW x \in Coef, x # 0, Short(x), NEW ex \in Roomy, NEW y \in Packed, y # 0, NEW ey \in PackExp,
         NEW u \in Nat, NEW f \in Int, NEW i \in 0..D,
         Maximize(x, ex).e = f - i, Abs(Maximize(x, ex).c) = u * Pow10[i],
         NEW r, r = Packed224(Div(x, ex, y, ey)), NEW v, v = Abs(y), NEW s, s = f - ey
  PROVE  /\ r.status = "ExponentOverflow" => LessNumber(PackMax * v, PackExpMax, u, s)
         /\ r.status = "ExponentUnderflow" => LessNumber(u, s, (PackMax + 2) * v, PackExpMin - 1)
<1>1. /\ y \in Coef /\ y \in Int /\ x \in Int /\ ex \in Exp /\ ey \in Exp /\ ex - ey <= ExpMax - (D + 1)
      /\ ex \in Int /\ ey \in Int /\ D \in Nat /\ ey \in Roomy
  BY PackedIsRoomy, RoomySuffices, CoefIsInt, WidthsAreInts
<1>2. PICK A, B, n : A = Maximize(x, ex) /\ B = Maximize(y, ey) /\ n = Div(x, ex, y, ey)
  OBVIOUS
<1>a. A.e = f - i /\ Abs(A.c) = u * Pow10[i]
  BY <1>2
<1>3. /\ A.c \in Coef /\ A.e \in Int /\ A.c # 0 /\ A.full /\ 10 * Abs(A.c) > CoefMax
      /\ A.e <= ex /\ ex - D <= A.e /\ \E h \in Int : A.c = h * 10
  BY <1>2, MaximizedShort
<1>4. /\ B.c \in Coef /\ B.e \in Int /\ B.c # 0
      /\ B.e <= ey /\ ey - D <= B.e
  <2>1. B.c \in Coef /\ B.c # 0
    BY <1>1, <1>2, MaximizedNumber
  <2>2. B.e \in Int /\ B.e <= ey /\ ey - D <= B.e
    BY <1>1, <1>2, MaximizedDigits
  <2> QED BY <2>1, <2>2
<1>5. n.status = "ok" /\ QuotientIsCut(n, A, B)
  <2>1. n.status = "ok"
    BY <1>1, <1>2, DivIsGood
  <2>2. n.status = "ok" => QuotientIsCut(n, A, B)
    BY <1>1, <1>2, <1>3, DivTruncates
  <2> QED BY <2>1, <2>2
<1>6. PICK p : p = PackArithmeticResult(n.c, n.e) /\ r.status = p.status
  BY <1>2, <1>5, FailsAsPacked
<1>8. PICK j \in 0..D : B.e = ey - j /\ Abs(B.c) = Abs(y) * Pow10[j]
  BY <1>1, <1>2, MaximizedBy
<1>9. v \in Nat /\ v >= 1
  BY <1>1 DEF Abs
<1>10. A.e - B.e <= ExpMax - 2 * (D + 1) /\ ExpMin + D + 2 < A.e - B.e
  <2>1. ex \in (-(PackExpMax + D + 1))..PackExpMax /\ ey \in (-PackExpMax - 1)..PackExpMax /\ PackExpMax \in Nat
    BY Widths DEF Roomy, PackExp, PackExpMin
  <2>2. A.e - B.e <= PackExpMax - (-PackExpMax - 1 - D)
    BY <1>1, <1>3, <1>4, <2>1
  <2>3. (-(PackExpMax + D + 1)) - D - PackExpMax <= A.e - B.e
    BY <1>1, <1>3, <1>4, <2>1
  <2>4. ExpMax \in Nat /\ ExpMin = -ExpMax - 1 /\ 2 * PackExpMax + 3 * (D + 1) <= ExpMax
    BY ExponentsFit, Widths DEF ExpMin
  <2> QED BY <1>1, <1>3, <1>4, <2>1, <2>2, <2>3, <2>4
<1>11. s = A.e + i - (B.e + j) /\ Abs(B.c) = v * Pow10[j]
  BY <1>1, <1>8, <1>a
<1>12. /\ p.status = "ExponentOverflow" => LessNumber(PackMax * v, PackExpMax, u, s)
       /\ p.status = "ExponentUnderflow" => LessNumber(u, s, (PackMax + 2) * v, PackExpMin - 1)
  BY <1>3, <1>4, <1>5, <1>6, <1>9, <1>10, <1>11, <1>a, QuotientOutOfRange
<1> QED BY <1>6, <1>12

(***************************************************************************)
(* The dividend of inv is as full as it can be.                            *)
(***************************************************************************)
LEMMA OneIsMaximized ==
  ASSUME NEW A, A = Maximize(Pow10[D], -D)
  PROVE  A.e = 0 - D /\ Abs(A.c) = 1 * Pow10[D] /\ D \in 0..D
<1>1. PICK t, et : t = Pow10[D] /\ et = -D
  OBVIOUS
<1>2. t \in Coef /\ t # 0 /\ et \in Roomy /\ D \in Nat /\ et \in Exp /\ et \in Int /\ et = 0 - D
  <2>1. t \in Coef /\ t # 0 /\ et \in Roomy /\ D \in Nat
    BY <1>1, PackedIsRoomy, WidthsAreInts
  <2> QED BY <1>1, <2>1, RoomySuffices
<1>3. PICK k \in 0..D : A.c = t * Pow10[k] /\ A.e = et - k
  BY <1>1, <1>2, MaximizedBy
<1>4. A.c \in Coef
  BY <1>1, <1>2, MaximizedNumber
<1>5. t \in Nat /\ t >= 1 /\ CoefMax \in Nat /\ CoefMax < t * 10 /\ Pow10[0] = 1
  <2>1. Pow10[D] \in Nat /\ Pow10[D] >= 1
    BY PowersOfCoef, Pow10Grows
  <2>2. CoefMax \in Nat /\ CoefMax + 1 < Pow10[D] * 10
    BY PowersOfCoef
  <2> QED BY <1>1, <2>1, <2>2, Pow10Def
<1>6. k = 0
  <2>1. SUFFICES ASSUME k # 0 PROVE FALSE
    OBVIOUS
  <2>2. 1 \in 0..(D + 1) /\ k \in 0..(D + 1) /\ 1 <= k
    BY <1>2, <2>1
  <2>3. Pow10[k] \in Nat /\ 10 <= Pow10[k]
    BY <2>2, Pow10Grows, Pow10Def
  <2>4. t * 10 <= t * Pow10[k]
    BY <1>5, <2>3, TimesGrows
  <2> QED BY <1>3, <1>4, <1>5, <2>3, <2>4, Widths DEF Coef
<1>7. A.c = t /\ A.e = et /\ Abs(t) = 1 * t
  BY <1>2, <1>3, <1>5, <1>6 DEF Abs
<1> QED BY <1>1, <1>2, <1>7

(***************************************************************************)
(* A negation out of range.                                                *)
(***************************************************************************)
LEMMA NegationRange ==
  ASSUME NEW x \in Packed, NEW e \in PackExp, NEW r, r = Packed224(Num(-x, e)),
         r.status \in {"ExponentOverflow", "ExponentUnderflow"}
  PROVE  r.status = "ExponentOverflow" /\ x = PackMin /\ e = PackExpMax
<1>1. /\ x \in Int /\ -x \in Coef /\ e \in Exp /\ e \in Int /\ e + D + 1 <= ExpMax /\ D \in Nat
      /\ PackMin = -PackMax - 1 /\ PackMax \in Nat /\ PackExpMax \in Nat /\ PackExpMin = -PackExpMax - 1
  <2>1. e \in Int /\ e <= PackExpMax /\ PackExpMax \in Nat /\ e \in Exp
    BY Widths DEF PackExp, PackExpMin, Exp, ExpMin
  <2> QED BY <2>1, PackedIsRoomy, ExponentsFit, Widths, WidthsAreInts DEF PackMin, PackExpMin
<1>2. x = PackMin
  <2>1. SUFFICES ASSUME x # PackMin PROVE FALSE
    OBVIOUS
  <2>2. PICK z \in Packed : z = -x
    BY <1>1, <2>1 DEF Packed
  <2>3. r.status = "ok"
    BY <2>2, PackedPacks
  <2> QED BY <2>3
<1>3. PICK z \in Coef : z = -x /\ z = PackMax + 1 /\ z # 0 /\ Abs(z) = PackMax + 1
  BY <1>1, <1>2 DEF Abs
<1>4. PICK p : p = PackArithmeticResult(z, e) /\ r.status = p.status
  BY <1>3, FailsAsPacked DEF Num
<1>5. PICK k \in 0..(D + 1) : p.status = Fate(e + k) /\ (k > 0 => (PackMax + 1) * ten[k - 1] <= PackMax + 1)
  <2>2. \E k \in 0..(D + 1) :
          /\ p.status = Fate(e + k)
          /\ Abs(z) + 1 <= (PackMax + 2) * ten[k]
          /\ k > 0 => (PackMax + 1) * ten[k - 1] <= Abs(z)
    BY <1>1, <1>3, <1>4, FateOfPacked
  <2> QED BY <1>3, <2>2
<1>6. k <= 1
  <2>1. SUFFICES ASSUME k > 1 PROVE FALSE
    BY <1>1
  <2>2. PICK m \in Nat, l \in Nat : m = k - 2 /\ l = k - 1 /\ l = m + 1
    BY <1>1, <2>1
  <2>3. PICK V \in Nat, W \in Nat : V = ten[l] /\ W = ten[m] /\ V = 10 * W /\ W >= 1
    BY <2>2, TenType, TenUnfolds
  <2>4. (PackMax + 1) * V >= (PackMax + 1) * 10
    <3>1. 10 <= V /\ PackMax + 1 \in Nat
      BY <1>1, <2>3
    <3> QED BY <3>1, TimesGrows
  <2>5. (PackMax + 1) * V <= PackMax + 1
    BY <1>1, <1>5, <2>1, <2>2, <2>3
  <2>6. PICK U \in Int : U = (PackMax + 1) * V
    BY <1>1
  <2> QED BY <1>1, <2>4, <2>5, <2>6
<1>7. e + k > PackExpMax /\ p.status = "ExponentOverflow"
  <2>1. e + k >= PackExpMin
    BY <1>1 DEF PackExp
  <2>2. Fate(e + k) # "ok"
    BY <1>4, <1>5
  <2> QED BY <1>1, <1>5, <2>1, <2>2 DEF Fate, PackExp
<1>8. e = PackExpMax
  BY <1>1, <1>6, <1>7 DEF PackExp
<1> QED BY <1>2, <1>4, <1>7, <1>8

(***************************************************************************)
(* A sum out of range.                                                     *)
(***************************************************************************)
LEMMA SumRange ==
  ASSUME NEW f \in {"add", "sub"}, NEW x, x.c \in Packed, x.e \in PackExp,
         NEW y, y.c \in Packed, y.e \in PackExp, NEW r, r = BinaryResult(f, x, y),
         NEW S, S = IF x.e < y.e THEN x.e ELSE y.e,
         NEW N, N = x.c * ten[x.e - S] + (IF f = "sub" THEN -y.c ELSE y.c) * ten[y.e - S]
  PROVE  /\ r.status = "ExponentOverflow" => PackMax * ten[PackExpMax - S] < Abs(N)
         /\ r.status = "ExponentUnderflow" =>
              LessNumber(Abs(N), S, PackMax + 2, PackExpMin - 1) /\ N # 0
<1>1. /\ N \in Int /\ S \in PackExp
      /\ r.status = "ExponentOverflow" =>
           InUnits(PackMax, PackExpMax, Low) < Abs(N * ten[S - Low])
      /\ r.status = "ExponentUnderflow" =>
           N # 0 /\ Abs(N * ten[S - Low]) < InUnits(PackMax + 2, PackExpMin - 1, Low)
  BY SumAnswer
<1>2. PICK M \in Int, s \in Int, z \in Int, m \in Nat, T \in Int, U \in Int :
        /\ M = N /\ s = S /\ z = Low /\ m = Abs(N) /\ z <= s /\ s <= T /\ z <= U
        /\ T = PackExpMax /\ U = PackExpMin - 1 /\ PackMax \in Nat
  <2>1. S \in Int /\ S <= PackExpMax /\ PackExpMax \in Nat /\ PackExpMin \in Int /\ PackExpMin <= S
    BY <1>1, Widths DEF PackExp, PackExpMin
  <2>2. Low \in Int /\ Low <= PackExpMin - 1 /\ PackMax \in Nat
    BY <2>1, WidthsAreInts DEF Low
  <2>3. Abs(N) \in Nat
    BY <1>1 DEF Abs
  <2> QED BY <1>1, <2>1, <2>2, <2>3
<1>3. PICK w \in Nat : w = ten[s - z] /\ w >= 1
  <2>1. s - z \in Nat
    BY <1>2
  <2> QED BY <2>1, TenType
<1>4. Abs(N * ten[S - Low]) = m * w /\ InUnits(m, s, z) = m * w
  <2>1. M * w \in Int /\ Abs(M * w) = Abs(M) * w
    BY <1>3, TimesMagnitude
  <2> QED BY <1>2, <1>3, <2>1 DEF InUnits
<1>5. r.status = "ExponentOverflow" => PackMax * ten[PackExpMax - S] < Abs(N)
  <2>1. PackMax \in Int
    BY <1>2
  <2>2. InUnits(PackMax, T, s) \in Int /\ InUnits(PackMax, T, z) = InUnits(PackMax, T, s) * ten[s - z]
    BY <1>2, <2>1, SmallerUnits
  <2>3. PICK h \in Int : h = InUnits(PackMax, T, s)
    BY <2>2
  <2>4. h * w < m * w <=> h < m
    BY <1>3, FactorCompares
  <2>5. InUnits(PackMax, PackExpMax, Low) = h * w
    BY <1>2, <1>3, <2>2, <2>3
  <2> QED BY <1>1, <1>2, <1>4, <2>3, <2>4, <2>5 DEF InUnits
<1>6. r.status = "ExponentUnderflow" => LessNumber(Abs(N), S, PackMax + 2, PackExpMin - 1)
  <2>1. PICK q \in Int : q = PackMax + 2
    BY <1>2
  <2>2. LessNumber(m, s, q, U) <=> InUnits(m, s, z) < InUnits(q, U, z)
    <3>1. m \in Int /\ q \in Int /\ s \in Int /\ U \in Int /\ z \in Int /\ z <= s /\ z <= U
      BY <1>2, <2>1
    <3> QED BY <3>1, LessCompares
  <2> QED BY <1>1, <1>2, <1>4, <2>1, <2>2
<1> QED BY <1>1, <1>5, <1>6

(***************************************************************************)
(* An inverse out of range.                                                *)
(***************************************************************************)
LEMMA InverseRange ==
  ASSUME NEW x, x.c \in Packed, x.e \in PackExp, NEW r, r = UnaryResult("inv", x)
  PROVE  /\ r.status = "ExponentOverflow" => LessNumber(PackMax * Abs(x.c), PackExpMax, 1, -x.e)
         /\ r.status = "ExponentUnderflow" =>
              LessNumber(1, -x.e, (PackMax + 2) * Abs(x.c), PackExpMin - 1)
<1>1. PICK y, ey, n : y = x.c /\ ey = x.e /\ n = Inv(y, ey)
  OBVIOUS
<1>2. r = Packed224(n) /\ y \in Packed /\ ey \in PackExp
  BY <1>1 DEF UnaryResult
<1>3. CASE y = 0
  <2>1. n.status = "DivisionByZero"
    BY <1>1, <1>3 DEF Inv, Div, Fail
  <2> QED BY <1>2, <2>1 DEF Packed224, Fail
<1>4. CASE y # 0
  <2>1. PICK t \in Coef, et \in Roomy : t = Pow10[D] /\ et = -D /\ t # 0 /\ Short(t)
    BY PackedIsRoomy, PackedIsShort
  <2>2. r = Packed224(Div(t, et, y, ey))
    BY <1>1, <1>2, <2>1 DEF Inv
  <2>3. Maximize(t, et).e = 0 - D /\ Abs(Maximize(t, et).c) = 1 * Pow10[D] /\ D \in 0..D
    BY <2>1, OneIsMaximized
  <2>4. PICK v, s, i : v = Abs(y) /\ s = 0 - ey /\ i = D
    OBVIOUS
  <2>5. /\ r.status = "ExponentOverflow" => LessNumber(PackMax * v, PackExpMax, 1, s)
        /\ r.status = "ExponentUnderflow" => LessNumber(1, s, (PackMax + 2) * v, PackExpMin - 1)
    <3>1. i \in 0..D /\ Maximize(t, et).e = 0 - i /\ Abs(Maximize(t, et).c) = 1 * Pow10[i]
      BY <2>3, <2>4
    <3>2. 0 \in Int /\ 1 \in Nat
      OBVIOUS
    <3> QED BY <1>2, <1>4, <2>1, <2>2, <2>4, <3>1, <3>2, QuotientRange
  <2>6. 0 - ey = -ey
    BY <1>2, Widths DEF PackExp, PackExpMin
  <2> QED BY <1>1, <2>4, <2>5, <2>6
<1> QED BY <1>3, <1>4

-----------------------------------------------------------------------------
(***************************************************************************)
(* Fixed point values.                                                     *)
(***************************************************************************)

(***************************************************************************)
(* The digits packLossy drops from a coefficient that is not negative.     *)
(***************************************************************************)
LEMMA DropsFromValue ==
  ASSUME NEW w \in 1..CoefMax
  PROVE  \E k \in 0..(D + 1) :
           /\ k = DigitsToDrop(w) /\ Quot(w, Pow10[k]) = w \div Pow10[k]
           /\ w \div Pow10[k] \in 1..PackMax
           /\ w \in Packed => k = 0
           /\ k > 0 => k - 1 \in 0..(D + 1) /\ w \div Pow10[k - 1] > PackMax
<1>1. w \in Coef /\ w # 0 /\ w \in Nat /\ Abs(w) = w
  BY Widths DEF Coef, CoefMin, Abs
<1>2. PICK k, q : k = DigitsToDrop(w) /\ q = Quot(w, Pow10[k])
  OBVIOUS
<1>3. /\ k \in 0..(D + 1) /\ q \in Packed /\ q # 0 /\ ~(q < 0)
      /\ Abs(q) = Abs(w) \div Pow10[k]
      /\ w \in Packed => k = 0
      /\ k > 0 => k - 1 \in 0..(D + 1) /\ Abs(w) \div Pow10[k - 1] > PackMax
  <2>1. ~(w < 0)
    BY <1>1
  <2> QED BY <1>1, <1>2, <2>1, DropsKeepDigits
<1>4. q \in 1..PackMax /\ Abs(q) = q
  BY <1>3, Widths DEF Packed, PackMin, Abs
<1> QED BY <1>1, <1>2, <1>3, <1>4

(***************************************************************************)
(* What the contract of packLossy says of a value v * 10^-dec of which the *)
(* last K digits are dropped.                                              *)
(***************************************************************************)
PacksFrom(l, v, dec, K) ==
  /\ K \in 0..(D + 1) /\ K - dec <= PackExpMax /\ v \div Pow10[K] \in 1..PackMax
  /\ l = IF K - dec \in PackExp THEN Float(v \div Pow10[K], K - dec, K = 0) ELSE Underflow

(***************************************************************************)
(* The contract of packLossy for an exponent that does not wrap.           *)
(***************************************************************************)
LEMMA PacksUnwrapped ==
  ASSUME NEW x, x # 0, NEW y \in Int, NEW k \in 0..(D + 1), k = DigitsToDrop(x), y + k \in Exp,
         y + k <= PackExpMax
  PROVE  PackLossy(x, y) =
           IF y + k \in PackExp THEN Float(Quot(x, Pow10[k]), y + k, k = 0) ELSE Underflow
<1>1. PICK n : n = y + k /\ WrapExp(y + k) = n
  BY WrapExpKeepsType
<1>2. CASE n \in PackExp
  BY <1>1, <1>2, LossyInRange
<1>3. CASE n \notin PackExp
  <2>1. n < PackExpMin
    BY <1>1, <1>3, Widths DEF PackExp, PackExpMin, Exp, ExpMin
  <2>2. PackLossy(x, y) = Underflow
    BY <1>1, <1>3, <2>1, Zenon DEF PackLossy
  <2> QED BY <1>1, <1>3, <2>2
<1> QED BY <1>2, <1>3

(***************************************************************************)
(* A fixed point value has at most D + 1 - PackD digits more than a float  *)
(* holds.                                                                  *)
(***************************************************************************)
LEMMA FewDigitsTooMany ==
  ASSUME NEW v \in 1..UintMax, NEW K \in 0..(D + 1), K > 0 => v \div Pow10[K - 1] > PackMax
  PROVE  K <= D + 1 - PackD /\ K <= PackExpMax
<1>1. /\ v \in Nat /\ UintMax \in Nat /\ D \in Nat /\ PackD \in Nat /\ PackMax \in Nat /\ PackExpMax \in Nat
      /\ D + 1 - PackD \in 0..(D + 1)
  BY Widths, WidthsAreInts, WidthsFitDecimals DEF UintMax
<1>2. PICK H \in 0..(D + 1) : H = D + 1 - PackD
  BY <1>1
<1>3. UintMax \div Pow10[H] <= PackMax /\ H <= PackExpMax
  BY <1>2, FixedPointFits
<1>4. K <= H
  <2>1. SUFFICES ASSUME H < K PROVE FALSE
    BY <1>1
  <2>2. PICK m \in 0..(D + 1) : m = K - 1 /\ H <= m
    BY <1>1, <2>1
  <2>3. /\ Pow10[H] \in Nat /\ Pow10[H] >= 1 /\ Pow10[m] \in Nat /\ Pow10[m] >= 1 /\ Pow10[H] <= Pow10[m]
    BY <2>2, Pow10Grows
  <2>4. v \div Pow10[m] <= v \div Pow10[H]
    <3>1. PICK p \in Nat, q \in Nat : p = Pow10[H] /\ q = Pow10[m] /\ p <= q /\ p >= 1 /\ q >= 1
      BY <2>3
    <3>6. PICK s \in Nat : s = v \div q
      BY <1>1, <3>1, DivBounds
    <3>2. q * s <= v
      BY <1>1, <3>1, <3>6, DivBounds
    <3>3. s * p <= s * q /\ s * p = p * s /\ s * q = q * s
      BY <3>1, TimesGrows
    <3>4. p * s <= v
      <4>1. p * s \in Nat /\ q * s \in Nat
        OBVIOUS
      <4> QED BY <1>1, <3>2, <3>3, <4>1
    <3>5. s <= v \div p
      BY <1>1, <3>1, <3>4, DivAtLeast
    <3> QED BY <3>1, <3>5, <3>6
  <2>5. v \div Pow10[H] <= UintMax \div Pow10[H]
    BY <1>1, <2>3, DivGrows
  <2>6. v \div Pow10[m] \in Nat /\ v \div Pow10[H] \in Nat /\ UintMax \div Pow10[H] \in Nat
    BY <1>1, <2>3, DivBounds
  <2>7. v \div Pow10[m] > PackMax
    BY <1>1, <2>1, <2>2
  <2> QED BY <1>1, <1>3, <2>4, <2>5, <2>6, <2>7
<1> QED BY <1>1, <1>2, <1>3, <1>4

(***************************************************************************)
(* A fixed point value packs as if all its digits were dropped at once,    *)
(* and never overflows.                                                    *)
(***************************************************************************)
LEMMA FixedPointPacks ==
  ASSUME NEW v \in 1..UintMax, NEW dec \in 0..(ExpMax - PackExpMax),
         NEW d, d = FromFixedDecimal(v, dec), NEW l, l = PackLossy(d.c, d.e)
  PROVE  \E K \in 0..(D + 1) : PacksFrom(l, v, dec, K) /\ (K = 0 => d.exact)
<1>1. /\ v \in Nat /\ CoefMax \in Nat /\ PackMax \in Nat /\ PackMax < CoefMax /\ D \in Nat /\ dec \in Nat
      /\ PackExpMax \in Nat /\ ExpMax \in Nat /\ dec <= ExpMax - PackExpMax
      /\ D + 1 <= ExpMax - PackExpMax /\ UintMax = 2 * CoefMax + 1 /\ UintMax \in Nat
      /\ 10 * (PackMax + 1) <= CoefMax
  BY Widths, WidthsAreInts, WidthsFitDecimals, ExponentsFit DEF UintMax
<1>2. CASE v <= CoefMax
  <2>1. d = [c |-> v, e |-> -dec, exact |-> TRUE] /\ v \in 1..CoefMax
    BY <1>1, <1>2 DEF FromFixedDecimal
  <2>2. PICK K \in 0..(D + 1) :
          /\ K = DigitsToDrop(v) /\ Quot(v, Pow10[K]) = v \div Pow10[K]
          /\ v \div Pow10[K] \in 1..PackMax
          /\ K > 0 => v \div Pow10[K - 1] > PackMax
    BY <2>1, DropsFromValue
  <2>3. K <= PackExpMax
    BY <2>2, FewDigitsTooMany
  <2>4. PICK y \in Int : y = -dec /\ y + K = K - dec
    BY <1>1
  <2>5. y + K \in Exp /\ y + K <= PackExpMax /\ v # 0 /\ l = PackLossy(v, y)
    BY <1>1, <2>1, <2>3, <2>4 DEF Exp, ExpMin
  <2>6. l = IF y + K \in PackExp THEN Float(Quot(v, Pow10[K]), y + K, K = 0) ELSE Underflow
    BY <2>2, <2>5, PacksUnwrapped
  <2> QED BY <2>1, <2>2, <2>4, <2>5, <2>6 DEF PacksFrom
<1>3. CASE v > CoefMax
  <2>1. PICK w : w = v \div 10
    OBVIOUS
  <2>2. w \in 1..CoefMax /\ w > PackMax /\ v \in (CoefMax + 1)..UintMax
    <3>1. 10 * w <= v /\ v < 10 * (w + 1) /\ w \in Nat
      BY <1>1, <2>1, DivBounds
    <3>2. CoefMax >= 1
      BY <1>1
    <3> QED BY <1>1, <1>3, <3>1, <3>2
  <2>3. d.c = w /\ d.e = 1 - dec
    BY <1>1, <1>3, <2>1 DEF FromFixedDecimal
  <2>4. PICK k \in 0..(D + 1) :
          /\ k = DigitsToDrop(w) /\ Quot(w, Pow10[k]) = w \div Pow10[k]
          /\ w \div Pow10[k] \in 1..PackMax
          /\ k > 0 => k - 1 \in 0..(D + 1) /\ w \div Pow10[k - 1] > PackMax
    BY <2>2, DropsFromValue
  <2>5. k > 0
    <3>1. Pow10[0] = 1 /\ w \div 1 = w
      BY <2>2, Pow10Def
    <3> QED BY <1>1, <2>2, <2>4, <3>1
  <2>6. PICK K \in 0..(D + 1) : K = k + 1 /\ w \div Pow10[k] = v \div Pow10[K]
    <3>1. Quot(w, Pow10[k]) # 0
      BY <1>1, <2>4
    <3>2. k + 1 \in 0..(D + 1) /\ Quot(w, Pow10[k]) = Quot(v, Pow10[k + 1])
      BY <2>1, <2>2, <3>1, LastDigitGoesFirst
    <3>3. Pow10[k + 1] \in Nat /\ Pow10[k + 1] >= 1
      BY <3>2, Pow10Grows
    <3>4. Quot(v, Pow10[k + 1]) = v \div Pow10[k + 1]
      BY <1>1, <3>3 DEF Quot, Abs
    <3> QED BY <2>4, <3>2, <3>4
  <2>7. v \div Pow10[k] > PackMax
    <3>1. PICK j \in 0..(D + 1) : j = k - 1 /\ w \div Pow10[j] > PackMax /\ k = j + 1
      BY <2>4, <2>5
    <3>2. Pow10[k] = Pow10[j] * 10 /\ Pow10[j] \in Nat /\ Pow10[j] >= 1
      BY <3>1, NextPower
    <3>5. PICK p \in Nat, t \in Nat : p = Pow10[j] /\ p >= 1 /\ t = 10 /\ t >= 1
      BY <3>2
    <3>6. (v \div t) \div p = v \div (t * p)
      <4>1. v \in Nat /\ t \in Nat /\ t >= 1 /\ p \in Nat /\ p >= 1
        BY <1>1, <3>5
      <4> QED BY <4>1, DivTwice
    <3>3. (v \div 10) \div Pow10[j] = v \div (10 * Pow10[j])
      BY <3>5, <3>6
    <3>4. 10 * Pow10[j] = Pow10[j] * 10
      BY <3>2
    <3> QED BY <2>1, <3>1, <3>2, <3>3, <3>4
  <2>8. K <= PackExpMax
    <3>1. K > 0 => v \div Pow10[K - 1] > PackMax
      BY <2>6, <2>7
    <3> QED BY <3>1, FewDigitsTooMany
  <2>9. PICK y \in Int : y = 1 - dec /\ y + k = K - dec
    BY <1>1, <2>6
  <2>10. y + k \in Exp /\ y + k <= PackExpMax /\ w # 0 /\ l = PackLossy(w, y)
    BY <1>1, <2>2, <2>3, <2>8, <2>9 DEF Exp, ExpMin
  <2>11. l = IF y + k \in PackExp THEN Float(Quot(w, Pow10[k]), y + k, k = 0) ELSE Underflow
    BY <2>4, <2>10, PacksUnwrapped
  <2>12. PICK flag : flag = (k = 0) /\ flag = (K = 0)
    BY <2>5, <2>6
  <2>13. l = IF K - dec \in PackExp THEN Float(v \div Pow10[K], K - dec, K = 0) ELSE Underflow
    BY <2>4, <2>6, <2>9, <2>11, <2>12
  <2> QED BY <2>4, <2>6, <2>9, <2>10, <2>13 DEF PacksFrom
<1> QED BY <1>1, <1>2, <1>3

(***************************************************************************)
(* What packLossy's caller returns of a number without loss, and of one    *)
(* with.                                                                   *)
(***************************************************************************)
LEMMA FinaliseOfFloat ==
  ASSUME NEW f \in {"packLossy", "packLossless"}, NEW x, NEW y, NEW kept \in BOOLEAN, NEW exact \in BOOLEAN,
         NEW p, p = Finalise(f, Float(x, y, kept), exact)
  PROVE  /\ p.status \in {"ok", "CoefficientOverflow"}
         /\ p.status = "ok" => p.c = x /\ p.e = y /\ (p.lossless => kept)
<1>1. PICK l : l = Float(x, y, kept)
  OBVIOUS
<1>2. l.status = "ok" /\ l.c = x /\ l.e = y /\ l.lossless = kept
  BY <1>1 DEF Float
<1>3. CASE kept
  <2>1. p = [l EXCEPT !.lossless = l.lossless /\ exact]
    BY <1>1, <1>2, <1>3 DEF Finalise
  <2>2. DOMAIN l = {"status", "c", "e", "lossless"} /\ "status" # "lossless" /\ "c" # "lossless"
        /\ "e" # "lossless"
    BY <1>1 DEF Float
  <2>3. p.status = l.status /\ p.c = l.c /\ p.e = l.e
    BY <2>1, <2>2
  <2> QED BY <1>2, <1>3, <2>3
<1>4. CASE ~kept
  <2>1. CASE f = "packLossless"
    <3>1. p = Revert("CoefficientOverflow")
      BY <1>1, <1>2, <1>4, <2>1 DEF Finalise
    <3> QED BY <3>1 DEF Revert
  <2>2. CASE f = "packLossy"
    <3>1. p = l
      BY <1>1, <1>2, <1>4, <2>2 DEF Finalise
    <3> QED BY <1>2, <3>1
  <2> QED BY <2>1, <2>2
<1> QED BY <1>3, <1>4

(***************************************************************************)
(* What fromFixedDecimal returns: the value with K digits dropped, without *)
(* loss only if K is zero.                                                 *)
(***************************************************************************)
Converts(r, v, dec) ==
  \E K \in 0..(D + 1) :
    /\ v \div Pow10[K] \in 1..PackMax /\ K - dec <= PackExpMax
    /\ K - dec \in PackExp => r.c = v \div Pow10[K] /\ r.e = K - dec /\ (r.lossless => K = 0)
    /\ K - dec \notin PackExp => r.c = 0 /\ r.e = 0 /\ ~r.lossless

(***************************************************************************)
(* The three errors of fromFixedDecimal are not errors of range.           *)
(***************************************************************************)
LEMMA FromFixedConverts ==
  ASSUME NEW f \in FromFixed, NEW v \in 0..UintMax, NEW dec \in 0..(ExpMax - PackExpMax),
         NEW r, r = FromFixedResult(f, v, dec)
  PROVE  /\ r.status \in {"ok", "CoefficientOverflow", "LossyConversionToFloat"}
         /\ r.status = "ok" => IF v = 0 THEN r.c = 0 /\ r.e = 0 ELSE Converts(r, v, dec)
<1>1. PICK d, l, g : /\ d = FromFixedDecimal(v, dec) /\ l = PackLossy(d.c, d.e)
                     /\ g = IF f = "fromFixedDecimalLossless" THEN "packLossless" ELSE "packLossy"
  OBVIOUS
<1>2. PICK p : p = Finalise(g, l, d.exact)
  OBVIOUS
<1>3. g \in {"packLossy", "packLossless"} /\ d.exact \in BOOLEAN
  BY <1>1 DEF FromFixedDecimal
<1>4. \E kept \in BOOLEAN : \E x, y :
        /\ l = Float(x, y, kept)
        /\ v = 0 => x = 0 /\ y = 0
        /\ v # 0 => \E K \in 0..(D + 1) :
             /\ v \div Pow10[K] \in 1..PackMax /\ K - dec <= PackExpMax
             /\ K - dec \in PackExp => x = v \div Pow10[K] /\ y = K - dec /\ (kept => K = 0)
             /\ K - dec \notin PackExp => x = 0 /\ y = 0 /\ ~kept
  <2>1. CASE v = 0
    <3>1. d.c = 0
      BY <1>1, <2>1, Widths DEF FromFixedDecimal
    <3>2. l = FloatZero
      BY <1>1, <3>1, Zenon DEF PackLossy
    <3>3. PICK yes \in BOOLEAN, x \in {0}, y \in {0} : yes = TRUE
      BY Zenon
    <3>4. l = Float(x, y, yes)
      BY <3>2, <3>3 DEF FloatZero
    <3> QED BY <2>1, <3>3, <3>4
  <2>2. CASE v # 0
    <3>1. v \in 1..UintMax
      BY <2>2
    <3>2. PICK K \in 0..(D + 1) : PacksFrom(l, v, dec, K)
      BY <1>1, <3>1, FixedPointPacks
    <3>3. PICK kept \in BOOLEAN : kept = (K = 0)
      BY Zenon
    <3>4. CASE K - dec \in PackExp
      <4>1. l = Float(v \div Pow10[K], K - dec, kept)
        BY <3>2, <3>3, <3>4 DEF PacksFrom
      <4>2. PICK x, y : x = v \div Pow10[K] /\ y = K - dec
        OBVIOUS
      <4>3. l = Float(x, y, kept)
        BY <4>1, <4>2
      <4>4. /\ v \div Pow10[K] \in 1..PackMax /\ K - dec <= PackExpMax
            /\ K - dec \in PackExp => x = v \div Pow10[K] /\ y = K - dec /\ (kept => K = 0)
            /\ K - dec \notin PackExp => x = 0 /\ y = 0 /\ ~kept
        BY <3>2, <3>3, <3>4, <4>2 DEF PacksFrom
      <4> QED BY <2>2, <4>3, <4>4, Zenon
    <3>5. CASE K - dec \notin PackExp
      <4>1. l = Float(0, 0, FALSE)
        BY <3>2, <3>5 DEF PacksFrom, Underflow
      <4>2. PICK no \in BOOLEAN, x \in {0}, y \in {0} : no = FALSE
        BY Zenon
      <4>3. l = Float(x, y, no)
        BY <4>1, <4>2
      <4>4. /\ v \div Pow10[K] \in 1..PackMax /\ K - dec <= PackExpMax
            /\ K - dec \in PackExp => x = v \div Pow10[K] /\ y = K - dec /\ (no => K = 0)
            /\ K - dec \notin PackExp => x = 0 /\ y = 0 /\ ~no
        BY <3>2, <3>5, <4>2 DEF PacksFrom
      <4> QED BY <2>2, <4>3, <4>4
    <3> QED BY <3>4, <3>5
  <2> QED BY <2>1, <2>2
<1>5. PICK kept \in BOOLEAN : \E x, y :
        /\ l = Float(x, y, kept)
        /\ v = 0 => x = 0 /\ y = 0
        /\ v # 0 => \E K \in 0..(D + 1) :
             /\ v \div Pow10[K] \in 1..PackMax /\ K - dec <= PackExpMax
             /\ K - dec \in PackExp => x = v \div Pow10[K] /\ y = K - dec /\ (kept => K = 0)
             /\ K - dec \notin PackExp => x = 0 /\ y = 0 /\ ~kept
  BY <1>4
<1>10. PICK x, y :
        /\ l = Float(x, y, kept)
        /\ v = 0 => x = 0 /\ y = 0
        /\ v # 0 => \E K \in 0..(D + 1) :
             /\ v \div Pow10[K] \in 1..PackMax /\ K - dec <= PackExpMax
             /\ K - dec \in PackExp => x = v \div Pow10[K] /\ y = K - dec /\ (kept => K = 0)
             /\ K - dec \notin PackExp => x = 0 /\ y = 0 /\ ~kept
  BY <1>5
<1>6. /\ p.status \in {"ok", "CoefficientOverflow"}
      /\ p.status = "ok" => p.c = x /\ p.e = y /\ (p.lossless => kept)
  BY <1>2, <1>3, <1>10, FinaliseOfFloat
<1>7. CASE f = "fromFixedDecimalLossless" /\ ~d.exact
  <2>1. r = Fail("LossyConversionToFloat")
    BY <1>1, <1>7 DEF FromFixedResult
  <2> QED BY <2>1 DEF Fail
<1>8. CASE (f = "fromFixedDecimalLossless" => d.exact) /\ p.status # "ok"
  <2>1. r = Fail(p.status)
    BY <1>1, <1>2, <1>3, <1>8 DEF FromFixedResult
  <2> QED BY <1>6, <1>8, <2>1 DEF Fail
<1>9. CASE (f = "fromFixedDecimalLossless" => d.exact) /\ p.status = "ok"
  <2>1. r = p
    BY <1>1, <1>2, <1>3, <1>9 DEF FromFixedResult
  <2>2. r.c = x /\ r.e = y /\ (r.lossless => kept) /\ r.status = "ok"
    BY <1>6, <1>9, <2>1
  <2> QED BY <1>10, <2>2 DEF Converts
<1> QED BY <1>3, <1>7, <1>8, <1>9

(***************************************************************************)
(* A number scaled down loses digits, or not.                              *)
(***************************************************************************)
LEMMA ScaledDown ==
  ASSUME NEW u \in Nat, NEW t \in Nat, t >= 1
  PROVE  /\ u \div t \in Nat
         /\ (u \div t) * t = u <=> u % t = 0
         /\ u < t => u \div t = 0 /\ (u % t = 0 <=> u = 0)
<1>1. PICK q \in Nat, m \in Nat : q = u \div t /\ m = u % t
  OBVIOUS
<1>2. u = t * q + m /\ t * q = q * t /\ t * q \in Nat /\ m < t
  BY <1>1
<1>3. u < t => q = 0
  <2>1. q >= 1 => t * 1 <= t * q
    BY TimesGrows
  <2> QED BY <1>2, <2>1
<1>4. u < t => t * q = 0
  BY <1>3
<1> QED BY <1>1, <1>2, <1>3, <1>4

(***************************************************************************)
(* A number scaled up overflows, or not.                                   *)
(***************************************************************************)
LEMMA ScaledUp ==
  ASSUME NEW u \in Nat, NEW t \in Nat, t >= 1, NEW max \in Nat
  PROVE  u > max \div t <=> u * t > max
<1>1. max \div t \in Nat /\ t * u = u * t /\ t * u \in Nat
  BY DivBounds
<1>2. t * u <= max <=> u <= max \div t
  BY DivAtLeast
<1> QED BY <1>1, <1>2

(***************************************************************************)
(* A value and its flag.                                                   *)
(***************************************************************************)
LEMMA FixedParts ==
  ASSUME NEW v, NEW kept \in BOOLEAN, NEW r, r = Fixed(v, kept)
  PROVE  /\ r.status = "ok" /\ r.value = v /\ r.lossless \in BOOLEAN /\ (r.lossless <=> kept)
         /\ r = Fixed(v, r.lossless)
<1>1. r.status = "ok" /\ r.value = v /\ r.lossless = kept
  BY DEF Fixed
<1> QED BY <1>1

(***************************************************************************)
(* The integer below a number x.c * 10^s that is not negative.             *)
(***************************************************************************)
Scaled(x, s) == IF s >= 0 THEN x.c * ten[s] ELSE x.c \div ten[-s]

(***************************************************************************)
(* toFixedDecimalLossy returns the truncated value of a number that is not *)
(* negative, unless it is too large for a uint256; its flag is right.      *)
(***************************************************************************)
LEMMA FixedDecimalTruncates ==
  ASSUME NEW x, x.c \in Packed, x.e \in PackExp, NEW dec \in 0..(ExpMax - PackExpMax),
         NEW r, r = FixedDecimal(x, dec), NEW s, s = x.e + dec,
         NEW value, value = Scaled(x, s)
  PROVE  /\ r.status \in {"ok", "NegativeFixedDecimalConversion", "FixedDecimalOverflow"}
         /\ x.c >= 0 =>
              /\ r.status # "NegativeFixedDecimalConversion" /\ value \in Nat
              /\ r.status = "ok" =>
                   /\ r = Fixed(value, r.lossless) /\ r.value = value /\ r.lossless \in BOOLEAN
                   /\ r.lossless <=> s >= 0 \/ x.c % ten[-s] = 0
              /\ r.status = "FixedDecimalOverflow" => value > UintMax
<1>1. PICK u, f : u = x.c /\ f = x.e
  OBVIOUS
<1>2. /\ u \in Int /\ f \in Int /\ s \in Int /\ s >= f /\ dec \in Nat /\ D \in Nat
      /\ UintMax \in Nat /\ PackMax \in Nat /\ u <= PackMax
      /\ WrapExp(f + dec) = s
  <2>1. /\ ExpMax \in Nat /\ PackExpMax \in Nat /\ PackExpMax < ExpMax /\ D \in Nat /\ PackMax \in Nat
        /\ UintMax \in Nat
    BY Widths, WidthsAreInts DEF UintMax
  <2>2. u \in Int /\ u <= PackMax /\ f \in Int /\ -PackExpMax - 1 <= f /\ f <= PackExpMax
    BY <1>1, <2>1 DEF Packed, PackMin, PackExp, PackExpMin
  <2>3. s = f + dec /\ s \in Exp
    BY <1>1, <2>1, <2>2 DEF Exp, ExpMin
  <2> QED BY <2>1, <2>2, <2>3, WrapExpKeepsType
<1>3. PICK scale : scale = Pow10[IF Abs(s) <= D + 1 THEN Abs(s) ELSE 0]
  OBVIOUS
<1>4. /\ Abs(s) = IF s < 0 THEN -s ELSE s
      /\ s \in (-(D + 1))..(D + 1) => scale = ten[Abs(s)] /\ scale \in Nat /\ scale >= 1
  <2>1. Abs(s) = IF s < 0 THEN -s ELSE s
    BY DEF Abs
  <2>2. ASSUME s \in (-(D + 1))..(D + 1) PROVE scale = ten[Abs(s)] /\ scale \in Nat /\ scale >= 1
    <3>1. Abs(s) \in 0..(D + 1)
      BY <1>2, <2>1, <2>2
    <3>2. scale = Pow10[Abs(s)]
      BY <1>2, <1>3, <3>1
    <3> QED BY <1>2, <3>1, <3>2, PowersAreTens, TenType
  <2> QED BY <2>1, <2>2
<1>11. PICK exact \in BOOLEAN : exact = ((u \div scale) * scale = u)
  BY Zenon
<1>10. /\ u < 0 => r = Fail("NegativeFixedDecimalConversion")
       /\ u = 0 => r = Fixed(0, TRUE)
       /\ u > 0 /\ s < -(D + 1) => r = Fixed(0, FALSE)
       /\ u > 0 /\ s \in -(D + 1)..0 => r = Fixed(u \div scale, exact)
       /\ u > 0 /\ s > 0 =>
            r = IF s > D + 1 \/ u > UintMax \div scale THEN Fail("FixedDecimalOverflow")
                                                    ELSE Fixed(u * scale, TRUE)
  <2>1. s = WrapExp(x.e + dec) /\ u = x.c /\ f = x.e /\ f \in Int /\ f <= s /\ u \in Int /\ s \in Int
    BY <1>1, <1>2
  <2>11. r = CASE u < 0 -> Fail("NegativeFixedDecimalConversion")
              [] u = 0 -> Fixed(0, TRUE)
              [] u > 0 /\ s < f -> Fail("ExponentOverflow")
              [] u > 0 /\ s >= f /\ s < -(D + 1) -> Fixed(0, FALSE)
              [] u > 0 /\ s >= f /\ s \in -(D + 1)..0 ->
                   Fixed(u \div scale, exact)
              [] OTHER -> IF s > D + 1 \/ u > UintMax \div scale
                            THEN Fail("FixedDecimalOverflow") ELSE Fixed(u * scale, TRUE)
    BY <1>3, <1>11, <2>1 DEF FixedDecimal
  <2>12. ~(s < f) /\ s >= f /\ D \in Nat
    BY <1>2
  <2>13. CASE u < 0
    <3>1. ~(u = 0) /\ ~(u > 0)
      BY <1>2, <2>13
    <3> QED BY <2>11, <2>13, <3>1, Zenon
  <2>14. CASE u = 0
    <3>1. ~(u < 0) /\ ~(u > 0)
      BY <1>2, <2>14
    <3> QED BY <2>11, <2>14, <3>1, Zenon
  <2>15. CASE u > 0 /\ s < -(D + 1)
    <3>1. ~(u < 0) /\ ~(u = 0) /\ ~(s \in -(D + 1)..0) /\ ~(s > 0)
      BY <1>2, <2>12, <2>15
    <3> QED BY <2>11, <2>12, <2>15, <3>1, Zenon
  <2>16. CASE u > 0 /\ s \in -(D + 1)..0
    <3>1. ~(u < 0) /\ ~(u = 0) /\ ~(s < -(D + 1)) /\ ~(s > 0)
      BY <1>2, <2>12, <2>16
    <3> QED BY <2>11, <2>12, <2>16, <3>1, Zenon
  <2>17. CASE u > 0 /\ s > 0
    <3>1. ~(u < 0) /\ ~(u = 0) /\ ~(s < -(D + 1)) /\ ~(s \in -(D + 1)..0)
      BY <1>2, <2>12, <2>17
    <3> QED BY <2>11, <2>12, <2>17, <3>1, Zenon
  <2>18. \/ u < 0
         \/ u = 0
         \/ u > 0 /\ s < -(D + 1)
         \/ u > 0 /\ s \in -(D + 1)..0
         \/ u > 0 /\ s > 0
    <3>1. s < -(D + 1) \/ s \in -(D + 1)..0 \/ s > 0
      BY <2>12
    <3>2. u < 0 \/ u = 0 \/ u > 0
      BY <1>2
    <3> QED BY <3>1, <3>2
  <2> QED BY <2>13, <2>14, <2>15, <2>16, <2>17, <2>18, Zenon
<1>5. CASE u < 0
  <2>1. r = Fail("NegativeFixedDecimalConversion")
    BY <1>5, <1>10
  <2> QED BY <1>1, <1>2, <1>5, <2>1 DEF Fail
<1>6. CASE u = 0
  <2>1. r = Fixed(0, TRUE)
    BY <1>6, <1>10
  <2>2. \A t \in Nat : t >= 1 => 0 * t = 0 /\ 0 \div t = 0 /\ 0 % t = 0
    OBVIOUS
  <2>3. value = 0 /\ (s < 0 => u % ten[-s] = 0)
    <3>1. s >= 0 => ten[s] \in Nat /\ ten[s] >= 1
      BY <1>2, TenType
    <3>2. s < 0 => ten[-s] \in Nat /\ ten[-s] >= 1
      BY <1>2, TenType
    <3> QED BY <1>1, <1>2, <1>6, <2>2, <3>1, <3>2 DEF Scaled
  <2>4. PICK yes \in BOOLEAN : yes = TRUE
    BY Zenon
  <2>5. /\ r.status = "ok" /\ r.value = 0 /\ r.lossless \in BOOLEAN /\ r.lossless
        /\ r = Fixed(0, r.lossless)
    BY <2>1, <2>4, FixedParts
  <2>6. r.lossless <=> s >= 0 \/ x.c % ten[-s] = 0
    BY <1>1, <1>2, <2>3, <2>5
  <2>7. value \in Nat /\ r.status # "NegativeFixedDecimalConversion" /\ r.status # "FixedDecimalOverflow"
        /\ r.value = value /\ r = Fixed(value, r.lossless)
    <3>1. value = 0
      BY <2>3
    <3>2. r = Fixed(value, r.lossless)
      BY <2>5, <3>1, Zenon
    <3>3. value \in Nat /\ r.value = value
      BY <2>5, <3>1
    <3>4. r.status # "NegativeFixedDecimalConversion" /\ r.status # "FixedDecimalOverflow"
      BY <2>5
    <3> QED BY <3>2, <3>3, <3>4
  <2> QED BY <2>5, <2>6, <2>7, Zenon
<1>7. CASE u > 0 /\ s < -(D + 1)
  <2>1. r = Fixed(0, FALSE)
    BY <1>7, <1>10, Zenon
  <2>2. PICK t \in Nat : t = ten[-s] /\ t >= 1 /\ u < t
    <3>1. -s \in Nat /\ D + 1 \in Nat /\ D + 1 <= -s /\ D + 1 \in 0..(D + 1)
      BY <1>2, <1>7
    <3>2. ten[-s] \in Nat /\ ten[-s] >= 1 /\ ten[D + 1] <= ten[-s] /\ ten[D + 1] \in Nat
      BY <3>1, TenType, TenGrows
    <3>3. CoefMax < Pow10[D + 1] /\ Pow10[D + 1] = ten[D + 1] /\ PackMax < CoefMax /\ CoefMax \in Nat
      BY <3>1, <3>2, PowersAreTens, WidthsFitDecimals, Widths
    <3> QED BY <1>2, <3>2, <3>3
  <2>3. u \div t = 0 /\ u % t # 0
    BY <1>2, <1>7, <2>2, ScaledDown
  <2>4. value = 0 /\ ~(s >= 0)
    BY <1>1, <1>2, <1>7, <2>2, <2>3 DEF Scaled
  <2>5. PICK no \in BOOLEAN : no = FALSE
    BY Zenon
  <2>6. /\ r.status = "ok" /\ r.value = 0 /\ r.lossless \in BOOLEAN /\ ~r.lossless
        /\ r = Fixed(0, r.lossless)
    BY <2>1, <2>5, FixedParts
  <2> QED BY <1>1, <1>2, <1>7, <2>2, <2>3, <2>4, <2>6
<1>8. CASE u > 0 /\ s \in (-(D + 1))..0
  <2>6. PICK q : q = u \div scale
    OBVIOUS
  <2>2. r = Fixed(q, exact)
    BY <1>8, <1>10, <2>6
  <2>3. u \in Nat /\ scale \in Nat /\ scale >= 1 /\ scale = ten[-s]
    BY <1>2, <1>4, <1>8
  <2>4. q \in Nat /\ (exact <=> u % scale = 0)
    BY <1>11, <2>3, <2>6, ScaledDown
  <2>5. value = q /\ (exact <=> s >= 0 \/ u % ten[-s] = 0)
    <3>1. CASE s < 0
      BY <1>1, <1>2, <2>3, <2>4, <2>6, <3>1 DEF Scaled
    <3>2. CASE s = 0
      <4>1. ten[0] = 1 /\ u * 1 = u /\ u \div 1 = u /\ u % 1 = 0 /\ -s = 0
        BY <1>2, <3>2, TenUnfolds
      <4> QED BY <1>1, <2>3, <2>4, <2>6, <3>2, <4>1 DEF Scaled
    <3> QED BY <1>2, <1>8, <3>1, <3>2
  <2> QED BY <1>1, <1>8, <2>2, <2>4, <2>5 DEF Fixed
<1>9. CASE u > 0 /\ s > 0
  <2>1. r = IF s > D + 1 \/ u > UintMax \div scale THEN Fail("FixedDecimalOverflow") ELSE Fixed(u * scale, TRUE)
    BY <1>9, <1>10, Zenon
  <2>2. s \in Nat /\ u \in Nat /\ ten[s] \in Nat /\ ten[s] >= 1 /\ value = u * ten[s] /\ u * ten[s] \in Nat
    BY <1>1, <1>2, <1>9, TenType DEF Scaled
  <2>3. CASE s > D + 1
    <3>1. PICK m \in Nat : m = D + 1 /\ m < s /\ m \in 0..(D + 1)
      BY <1>2, <2>3
    <3>2. 10 * ten[m] <= ten[s] /\ ten[m] \in Nat
      <4>1. m \in Nat /\ s \in Nat /\ m <= s /\ m < s
        BY <2>2, <3>1
      <4> QED BY <4>1, TenGrows, TenType
    <3>3. CoefMax < ten[m] /\ CoefMax \in Nat /\ UintMax = 2 * CoefMax + 1
      BY <3>1, <3>2, PowersAreTens, WidthsFitDecimals, Widths DEF UintMax
    <3>4. ten[s] * 1 <= ten[s] * u /\ ten[s] * u = u * ten[s]
      BY <1>9, <2>2, TimesGrows
    <3>5. value > UintMax
      BY <2>2, <3>2, <3>3, <3>4
    <3> QED BY <1>1, <1>9, <2>1, <2>2, <2>3, <3>5 DEF Fail
  <2>4. CASE s <= D + 1
    <3>1. scale = ten[s]
      BY <1>2, <1>4, <1>9, <2>4
    <3>2. u > UintMax \div scale <=> value > UintMax
      BY <1>2, <2>2, <3>1, ScaledUp
    <3>3. CASE u > UintMax \div scale
      BY <1>1, <1>9, <2>1, <2>2, <3>2, <3>3 DEF Fail
    <3>4. CASE ~(u > UintMax \div scale)
      <4>1. PICK yes \in BOOLEAN : yes = TRUE
        BY Zenon
      <4>2. ~(s > D + 1 \/ u > UintMax \div scale)
        BY <1>2, <2>4, <3>4
      <4>3. r = Fixed(u * scale, TRUE)
        BY <2>1, <4>2, Zenon
      <4>4. r = Fixed(value, yes)
        BY <2>2, <3>1, <4>1, <4>3
      <4>5. /\ r.status = "ok" /\ r.value = value /\ r.lossless = yes
        BY <4>4 DEF Fixed
      <4>6. r = Fixed(value, r.lossless)
        BY <4>4, <4>5
      <4> QED BY <1>1, <1>9, <2>2, <4>1, <4>5, <4>6
    <3> QED BY <3>3, <3>4
  <2> QED BY <1>2, <2>3, <2>4
<1> QED BY <1>2, <1>5, <1>6, <1>7, <1>8, <1>9

(***************************************************************************)
(* toFixedDecimal refuses only what its caller can see: a negative number, *)
(* a value above uint256 and, lossless, a lost digit.                      *)
(***************************************************************************)
LEMMA ToFixedTruncates ==
  ASSUME NEW f \in ToFixed, NEW x, x.c \in Packed, x.e \in PackExp,
         NEW dec \in 0..(ExpMax - PackExpMax), NEW r, r = ToFixedResult(f, x, dec),
         NEW s, s = x.e + dec, NEW value, value = Scaled(x, s)
  PROVE  /\ r.status \in {"ok", "NegativeFixedDecimalConversion", "FixedDecimalOverflow", "LossyConversionFromFloat"}
         /\ x.c >= 0 =>
              /\ r.status # "NegativeFixedDecimalConversion" /\ value \in Nat
              /\ r.status = "ok" =>
                   /\ r = Fixed(value, r.lossless) /\ r.value = value /\ r.lossless \in BOOLEAN
                   /\ r.lossless <=> s >= 0 \/ x.c % ten[-s] = 0
              /\ r.status = "FixedDecimalOverflow" => value > UintMax
              /\ r.status = "LossyConversionFromFloat" =>
                   f = "toFixedDecimalLossless" /\ ~(s >= 0 \/ x.c % ten[-s] = 0)
<1>1. PICK w : w = FixedDecimal(x, dec)
  OBVIOUS
<1>2. PICK exact \in BOOLEAN : exact <=> s >= 0 \/ x.c % ten[-s] = 0
  OBVIOUS
<1>3. /\ w.status \in {"ok", "NegativeFixedDecimalConversion", "FixedDecimalOverflow"}
      /\ x.c >= 0 =>
           /\ w.status # "NegativeFixedDecimalConversion" /\ value \in Nat
           /\ w.status = "ok" =>
                /\ w = Fixed(value, w.lossless) /\ w.value = value /\ w.lossless \in BOOLEAN
                /\ w.lossless <=> s >= 0 \/ x.c % ten[-s] = 0
           /\ w.status = "FixedDecimalOverflow" => value > UintMax
  BY <1>1, FixedDecimalTruncates
<1>4. CASE f = "toFixedDecimalLossless" /\ w.status = "ok" /\ ~w.lossless
  <2>1. r = Fail("LossyConversionFromFloat")
    BY <1>1, <1>4 DEF ToFixedResult
  <2>2. r.status = "LossyConversionFromFloat"
    BY <2>1 DEF Fail
  <2>3. x.c >= 0 => value \in Nat /\ ~exact
    BY <1>2, <1>3, <1>4
  <2> QED BY <1>2, <1>4, <2>2, <2>3
<1>5. CASE ~(f = "toFixedDecimalLossless" /\ w.status = "ok" /\ ~w.lossless)
  <2>1. r = w
    BY <1>1, <1>5 DEF ToFixedResult
  <2> QED BY <1>3, <2>1
<1> QED BY <1>4, <1>5

(***************************************************************************)
(* A value whose digits are dropped comes back smaller, by less than one   *)
(* unit.                                                                   *)
(***************************************************************************)
LEMMA DroppedUnits ==
  ASSUME NEW v \in Nat, NEW t \in Nat, t >= 1, NEW q, q = v \div t
  PROVE  q * t <= v /\ v < (q + 1) * t /\ q \in Nat /\ q * t \in Nat
<1>1. q \in Nat /\ t * q <= v /\ v < t * (q + 1)
  BY DivBounds
<1>2. t * q = q * t /\ t * (q + 1) = (q + 1) * t /\ q * t \in Nat
  BY <1>1
<1> QED BY <1>1, <1>2

(***************************************************************************)
(* A value lost to underflow is less than one.                             *)
(***************************************************************************)
LEMMA LostIsBelowOne ==
  ASSUME NEW v \in 1..UintMax, NEW dec \in 0..(ExpMax - PackExpMax), NEW K \in 0..(D + 1),
         v \div Pow10[K] <= PackMax, K - dec < PackExpMin
  PROVE  LessNumber(v, -dec, 1, 0)
<1>1. /\ v \in Int /\ v \in Nat /\ dec \in Nat /\ D \in Nat /\ PackD \in Nat /\ PackMax \in Nat
      /\ PackExpMin = -PackExpMax - 1 /\ PackExpMax \in Nat /\ PackD <= PackExpMax
      /\ PackD + 1 \in 0..(D + 1)
  BY Widths, WidthsAreInts, WidthsFitDecimals, ExponentsFit DEF PackExpMin, UintMax
<1>2. PICK t \in Nat, p \in Nat : t = ten[K] /\ p = ten[PackD + 1] /\ t >= 1 /\ p >= 1 /\ t = Pow10[K]
  <2>1. K \in Nat /\ PackD + 1 \in Nat
    BY <1>1
  <2> QED BY <2>1, TenType, PowersAreTens
<1>3. PackMax + 1 <= p
  BY <1>1, <1>2, PowersAreTens, WidthsFitDecimals
<1>4. v < t * p
  <2>1. v \div t < p
    <3>1. v \div t \in Nat
      BY <1>1, <1>2, DivBounds
    <3> QED BY <1>1, <1>2, <1>3, <3>1
  <2> QED BY <1>1, <1>2, <2>1, DivAtLeast
<1>5. PICK m \in Nat, w \in Nat : m = K + (PackD + 1) /\ w = ten[m] /\ w = t * p
  <2>1. K \in Nat /\ PackD + 1 \in Nat /\ K + (PackD + 1) \in Nat
    BY <1>1
  <2>2. ten[K + (PackD + 1)] = ten[K] * ten[PackD + 1]
    BY <2>1, TenAdds
  <2>3. t * p \in Nat
    BY <1>2
  <2> QED BY <1>2, <2>1, <2>2, <2>3
<1>6. m <= dec
  BY <1>1, <1>5
<1>7. ten[m] <= ten[dec] /\ ten[dec] \in Nat
  BY <1>1, <1>6, TenGrows, TenType
<1>8. v < ten[dec]
  BY <1>1, <1>4, <1>5, <1>7
<1>9. PICK z \in Int, y \in Int, u \in Int : z = -dec /\ y = 0 /\ u = 1 /\ z <= z /\ z <= y
  BY <1>1
<1>10. LessNumber(v, z, u, y) <=> InUnits(v, z, z) < InUnits(u, y, z)
  BY <1>1, <1>9, LessCompares
<1>11. InUnits(v, z, z) = v /\ InUnits(u, y, z) = ten[dec]
  <2>1. z - z = 0 /\ y - z = dec /\ ten[0] = 1 /\ v * 1 = v
    BY <1>1, <1>9, TenUnfolds
  <2>2. 1 * ten[dec] = ten[dec]
    BY <1>7
  <2> QED BY <1>9, <2>1, <2>2 DEF InUnits
<1> QED BY <1>8, <1>9, <1>10, <1>11

(***************************************************************************)
(* Zero, and what was lost to underflow, comes back as zero.               *)
(***************************************************************************)
LEMMA ZeroComesBack ==
  ASSUME NEW x, x.c = 0, x.e = 0, NEW dec, NEW r, r = ToFixedResult("toFixedDecimalLossy", x, dec)
  PROVE  r = Fixed(0, TRUE)
<1>1. FixedDecimal(x, dec) = Fixed(0, TRUE)
  BY DEF FixedDecimal
<1> QED BY <1>1 DEF ToFixedResult

(***************************************************************************)
(* A value that packs within range comes back with zeros for the digits    *)
(* dropped.                                                                *)
(***************************************************************************)
LEMMA DigitsComeBack ==
  ASSUME NEW v \in 1..UintMax, NEW dec \in 0..(ExpMax - PackExpMax), NEW K \in 0..(D + 1),
         NEW q, q = v \div Pow10[K], q \in 1..PackMax, NEW e \in PackExp, e = K - dec,
         NEW x, x.c = q, x.e = e, NEW r, r = ToFixedResult("toFixedDecimalLossy", x, dec)
  PROVE  /\ r = Fixed(r.value, r.lossless) /\ r.status = "ok" /\ r.lossless \in BOOLEAN /\ r.lossless
         /\ r.value \in Nat /\ r.value <= v /\ (K = 0 => r.value = v)
         /\ LessNumber(v, -dec, q + 1, e)
<1>1. /\ v \in Nat /\ v \in Int /\ v <= UintMax /\ UintMax \in Nat /\ dec \in Nat /\ D \in Nat /\ K \in Nat
      /\ PackMax \in Nat /\ e + dec = K /\ e \in Int /\ q \in Nat /\ q \in Packed
  BY Widths, WidthsAreInts DEF UintMax, Packed, PackMin
<1>2. PICK t \in Nat : t = ten[K] /\ t >= 1 /\ t = Pow10[K] /\ q = v \div t
  BY <1>1, TenType, PowersAreTens
<1>3. q * t <= v /\ v < (q + 1) * t /\ q * t \in Nat
  BY <1>1, <1>2, DroppedUnits
<1>4. PICK s, value : s = x.e + dec /\ value = Scaled(x, s)
  OBVIOUS
<1>5. s = K /\ s >= 0 /\ value = q * t
  <2>1. s = K
    BY <1>1, <1>4
  <2>2. K >= 0 /\ x.c = q /\ ten[K] = t
    BY <1>1, <1>2
  <2> QED BY <1>4, <2>1, <2>2, Zenon DEF Scaled
<1>6. /\ r.status \in {"ok", "NegativeFixedDecimalConversion", "FixedDecimalOverflow", "LossyConversionFromFloat"}
      /\ r.status # "NegativeFixedDecimalConversion"
      /\ r.status = "ok" =>
           /\ r = Fixed(value, r.lossless) /\ r.value = value /\ r.lossless \in BOOLEAN
           /\ r.lossless <=> s >= 0 \/ x.c % ten[-s] = 0
      /\ r.status = "FixedDecimalOverflow" => value > UintMax
      /\ r.status = "LossyConversionFromFloat" =>
           "toFixedDecimalLossy" = "toFixedDecimalLossless" /\ ~(s >= 0 \/ x.c % ten[-s] = 0)
  <2>1. x.c \in Packed /\ x.e \in PackExp /\ x.c >= 0 /\ "toFixedDecimalLossy" \in ToFixed
    BY <1>1 DEF ToFixed
  <2> QED BY <1>4, <2>1, ToFixedTruncates
<1>7. r.status = "ok"
  <2>1. ~(value > UintMax)
    BY <1>1, <1>3, <1>5
  <2> QED BY <1>5, <1>6, <2>1
<1>8. K = 0 => q * t = v
  <2>1. ten[0] = 1 /\ v \div 1 = v /\ v * 1 = v
    BY <1>1, TenUnfolds
  <2> QED BY <1>2, <2>1
<1>9. LessNumber(v, -dec, q + 1, e)
  <2>1. PICK z \in Int, u \in Int : z = -dec /\ u = q + 1 /\ z <= z /\ z <= e
    BY <1>1
  <2>2. LessNumber(v, z, u, e) <=> InUnits(v, z, z) < InUnits(u, e, z)
    BY <1>1, <2>1, LessCompares
  <2>3. InUnits(v, z, z) = v /\ InUnits(u, e, z) = (q + 1) * t
    <3>1. z - z = 0 /\ e - z = K /\ ten[0] = 1 /\ v * 1 = v
      BY <1>1, <2>1, TenUnfolds
    <3> QED BY <1>2, <2>1, <3>1 DEF InUnits
  <2> QED BY <1>3, <2>1, <2>2, <2>3
<1> QED BY <1>3, <1>5, <1>6, <1>7, <1>8, <1>9

(***************************************************************************)
(* A fixed point value comes back from a float less than one unit of the   *)
(* float's last digit smaller, and unchanged if nothing was reported lost. *)
(***************************************************************************)
LEMMA FixedComesBack ==
  ASSUME NEW v \in 0..UintMax, NEW dec \in 0..(ExpMax - PackExpMax), NEW fn \in FromFixed,
         NEW r, r = FromFixedResult(fn, v, dec), r.status = "ok",
         NEW x, x.c = r.c, x.e = r.e, NEW back, back = ToFixedResult("toFixedDecimalLossy", x, dec)
  PROVE  /\ back.status = "ok" /\ back.value <= v /\ LessNumber(v, -dec, r.c + 1, r.e)
         /\ r.lossless => back = Fixed(v, TRUE)
<1>1. v \in Int /\ v >= 0 /\ dec \in Int
  BY Widths DEF UintMax
<1>2. IF v = 0 THEN r.c = 0 /\ r.e = 0 ELSE Converts(r, v, dec)
  BY FromFixedConverts
<1>3. CASE v = 0
  <2>1. back = Fixed(0, TRUE)
    <3>1. x.c = 0 /\ x.e = 0
      BY <1>2, <1>3
    <3>2. back = ToFixedResult("toFixedDecimalLossy", x, dec)
      OBVIOUS
    <3> QED BY <3>1, <3>2, ZeroComesBack
  <2>2. LessNumber(0, -dec, 1, 0)
    BY DEF LessNumber, Sign
  <2>3. back.status = "ok" /\ back.value = 0
    BY <2>1 DEF Fixed
  <2>4. r.c + 1 = 1 /\ r.e = 0
    BY <1>2, <1>3
  <2>5. 0 <= 0
    OBVIOUS
  <2> QED BY <1>3, <2>1, <2>2, <2>3, <2>4, <2>5, Zenon
<1>4. CASE v # 0
  <2>1. PICK K \in 0..(D + 1) :
          /\ v \div Pow10[K] \in 1..PackMax /\ K - dec <= PackExpMax
          /\ K - dec \in PackExp => r.c = v \div Pow10[K] /\ r.e = K - dec /\ (r.lossless => K = 0)
          /\ K - dec \notin PackExp => r.c = 0 /\ r.e = 0 /\ ~r.lossless
    BY <1>2, <1>4 DEF Converts
  <2>2. v \in 1..UintMax
    BY <1>1, <1>4
  <2>3. CASE K - dec \in PackExp
    <3>1. PICK e \in PackExp, q \in {v \div Pow10[K]} : q = v \div Pow10[K] /\ e = K - dec
      BY <2>3
    <3>2. /\ back = Fixed(back.value, back.lossless) /\ back.status = "ok" /\ back.lossless \in BOOLEAN
          /\ back.lossless /\ back.value \in Nat /\ back.value <= v /\ (K = 0 => back.value = v)
          /\ LessNumber(v, -dec, q + 1, e)
      BY <1>1, <2>1, <2>2, <2>3, <3>1, DigitsComeBack
    <3>3. back.lossless = TRUE
      BY <3>2
    <3> QED BY <2>1, <2>3, <3>1, <3>2, <3>3
  <2>4. CASE K - dec \notin PackExp
    <3>1. back = Fixed(0, TRUE)
      <4>1. x.c = 0 /\ x.e = 0
        BY <2>1, <2>4
      <4>2. back = ToFixedResult("toFixedDecimalLossy", x, dec)
        OBVIOUS
      <4> QED BY <4>1, <4>2, Zenon, ZeroComesBack
    <3>2. K - dec < PackExpMin /\ v \div Pow10[K] <= PackMax
      BY <1>1, <2>1, <2>4, Widths DEF PackExp, PackExpMin
    <3>3. LessNumber(v, -dec, 1, 0)
      BY <1>1, <2>2, <3>2, LostIsBelowOne
    <3>4. back.status = "ok" /\ back.value = 0
      BY <3>1 DEF Fixed
    <3>5. r.c + 1 = 1 /\ r.e = 0 /\ ~r.lossless
      BY <2>1, <2>4
    <3>6. 0 <= v
      BY <1>1
    <3> QED BY <3>3, <3>4, <3>5, <3>6
  <2> QED BY <2>3, <2>4
<1> QED BY <1>3, <1>4

-----------------------------------------------------------------------------
(***************************************************************************)
(* Errors of range are real.                                               *)
(***************************************************************************)

(***************************************************************************)
(* A quotient of two floats out of range.                                  *)
(***************************************************************************)
LEMMA DivisionRange ==
  ASSUME NEW x, x.c \in Packed, x.e \in PackExp, NEW y, y.c \in Packed, y.e \in PackExp,
         NEW r, r = BinaryResult("div", x, y)
  PROVE  /\ r.status = "ExponentOverflow" =>
              LessNumber(PackMax * Abs(y.c), PackExpMax, Abs(x.c), x.e - y.e)
         /\ r.status = "ExponentUnderflow" =>
              /\ LessNumber(Abs(x.c), x.e - y.e, (PackMax + 2) * Abs(y.c), PackExpMin - 1)
              /\ x.c # 0
<1>1. PICK u, ux, v, vx : u = x.c /\ ux = x.e /\ v = y.c /\ vx = y.e
  OBVIOUS
<1>2. /\ u \in Coef /\ ux \in Roomy /\ v \in Packed /\ vx \in PackExp /\ ux \in Int /\ Short(u) /\ u \in Int
      /\ ux \in Exp
  <2>1. u \in Coef /\ ux \in Roomy /\ v \in Packed /\ vx \in PackExp /\ ux \in Int /\ Short(u) /\ u \in Int
    BY <1>1, PackedIsRoomy, PackedIsShort
  <2> QED BY <2>1, RoomySuffices
<1>3. PICK n : n = Div(u, ux, v, vx) /\ r = Packed224(n)
  BY <1>1 DEF BinaryResult
<1>4. CASE v = 0
  <2>1. n = Fail("DivisionByZero")
    BY <1>3, <1>4 DEF Div
  <2> QED BY <1>3, <2>1 DEF Packed224, Fail
<1>5. CASE v # 0 /\ u = 0
  <2>1. n = Num(0, 0)
    BY <1>3, <1>5, Zenon DEF Div, MaximizedZero
  <2>2. 0 \in Packed /\ 0 \in PackExp
    BY Widths DEF Packed, PackMin, PackExp, PackExpMin
  <2>3. r.status = "ok"
    BY <1>3, <2>1, <2>2, PackedPacks
  <2> QED BY <2>3
<1>6. CASE v # 0 /\ u # 0
  <2>1. PICK i \in 0..D : Maximize(u, ux).e = ux - i /\ Abs(Maximize(u, ux).c) = Abs(u) * Pow10[i]
    BY <1>2, <1>6, MaximizedBy
  <2>2. PICK m \in Nat, w \in Nat, s \in Int : m = Abs(u) /\ w = Abs(v) /\ s = ux - vx
    BY <1>2, PackedIsRoomy DEF Abs
  <2>3. /\ r.status = "ExponentOverflow" => LessNumber(PackMax * w, PackExpMax, m, s)
        /\ r.status = "ExponentUnderflow" => LessNumber(m, s, (PackMax + 2) * w, PackExpMin - 1)
    <3>1. Maximize(u, ux).e = ux - i /\ Abs(Maximize(u, ux).c) = m * Pow10[i] /\ r = Packed224(Div(u, ux, v, vx))
      BY <1>3, <2>1, <2>2
    <3> QED BY <1>2, <1>6, <2>2, <3>1, QuotientRange
  <2> QED BY <1>1, <1>6, <2>2, <2>3
<1> QED BY <1>4, <1>5, <1>6

(***************************************************************************)
(* A negation or a magnitude out of range.                                 *)
(***************************************************************************)
LEMMA MinusRange ==
  ASSUME NEW f \in {"minus", "abs"}, NEW x \in PackedFloat, NEW r, r = UnaryResult(f, x)
  PROVE  /\ r.status = "ExponentOverflow" => x = [c |-> PackMin, e |-> PackExpMax]
         /\ r.status # "ExponentUnderflow"
<1>1. PICK u \in Packed, ux \in PackExp : u = x.c /\ ux = x.e /\ x = [c |-> u, e |-> ux]
  BY DEF PackedFloat
<1>2. Minus(u, ux) = Num(-u, ux)
  BY PackedIsRoomy DEF Minus
<1>3. CASE f = "abs" /\ ~(u < 0)
  <2>1. r = Packed224(Num(u, ux))
    BY <1>1, <1>3 DEF UnaryResult, AbsOf
  <2>2. r.status = "ok"
    BY <2>1, PackedPacks
  <2> QED BY <2>2
<1>4. CASE ~(f = "abs" /\ ~(u < 0))
  <2>1. r = Packed224(Num(-u, ux))
    BY <1>1, <1>2, <1>4 DEF UnaryResult, AbsOf
  <2>2. CASE r.status \in {"ExponentOverflow", "ExponentUnderflow"}
    <3>1. r.status = "ExponentOverflow" /\ u = PackMin /\ ux = PackExpMax
      BY <2>1, <2>2, NegationRange
    <3> QED BY <1>1, <3>1
  <2>3. CASE r.status \notin {"ExponentOverflow", "ExponentUnderflow"}
    BY <2>3
  <2> QED BY <2>2, <2>3
<1> QED BY <1>3, <1>4

-----------------------------------------------------------------------------
(***************************************************************************)
(* Parsing.                                                                *)
(***************************************************************************)

(***************************************************************************)
(* A number is a multiple and a rest.                                      *)
(***************************************************************************)
LEMMA DivRest ==
  ASSUME NEW m \in Nat, NEW y \in Nat, y >= 1
  PROVE  /\ m \div y \in Nat /\ m % y \in 0..(y - 1) /\ m = y * (m \div y) + (m % y)
         /\ m = (m \div y) * y + (m % y)
         /\ m < y => m % y = m
<1>1. /\ m \div y \in Nat /\ m % y \in 0..(y - 1)
      /\ m = y * (m \div y) + (m % y)
  OBVIOUS
<1>2. PICK q \in Nat, r \in Nat : q = m \div y /\ r = m % y
  BY <1>1
<1>3. y * q = q * y /\ y * q \in Nat
  BY <1>2
<1>4. m < y => r = m
  <2>1. ASSUME m < y, q >= 1 PROVE FALSE
    <3>1. y * 1 <= y * q
      BY <1>2, <2>1, TimesGrows
    <3> QED BY <1>1, <1>2, <2>1, <3>1
  <2>2. q = 0 => y * q = 0
    OBVIOUS
  <2> QED BY <1>1, <1>2, <2>1, <2>2
<1>5. m % y \in 0..(y - 1) /\ m \div y \in Nat /\ m = y * (m \div y) + (m % y)
  BY <1>1
<1>6. m = (m \div y) * y + (m % y)
  BY <1>1, <1>2, <1>3
<1>7. m < y => m % y = m
  BY <1>2, <1>4
<1> QED BY <1>5, <1>6, <1>7

(***************************************************************************)
(* Every positive number has a last digit that is not zero.                *)
(***************************************************************************)
LEMMA ZerosEnd ==
  ASSUME NEW v \in Nat, v # 0, NEW l \in Nat, v < ten[l]
  PROVE  \E k \in 0..l : v % ten[k] = 0 /\ (v \div ten[k]) % 10 # 0
<1> DEFINE B == {n \in Nat : v % ten[n] # 0}
<1>1. l \in B
  <2>1. ten[l] \in Nat /\ ten[l] >= 1
    BY TenType
  <2>2. PICK T \in Nat : T = ten[l] /\ v < T
    BY <2>1
  <2>3. v % T = v
    BY <2>1, <2>2, DivRest
  <2> QED BY <2>2, <2>3
<1>2. PICK n \in B : \A m \in B : n <= m
  <2>1. B \in SUBSET Nat
    OBVIOUS
  <2> HIDE DEF B
  <2> QED BY <1>1, <2>1, LeastNumber
<1>3. n \in Nat /\ n <= l /\ v % ten[n] # 0
  BY <1>1, <1>2
<1>4. n # 0
  <2>1. ten[0] = 1 /\ v % 1 = 0
    BY TenUnfolds
  <2> QED BY <1>3, <2>1
<1>5. PICK k \in Nat : k + 1 = n /\ k \in 0..l
  <2>1. n - 1 \in Nat /\ n - 1 + 1 = n /\ n - 1 \in 0..l
    BY <1>3, <1>4
  <2> QED BY <2>1
<1>6. v % ten[k] = 0
  BY <1>2, <1>5
<1>7. PICK T \in Nat : T = ten[k] /\ T >= 1 /\ ten[n] = 10 * T
  BY <1>5, TenUnfolds, TenType
<1>8. PICK q \in Nat : q = v \div T /\ v = T * q
  <2>1. v \div T \in Nat /\ v = T * (v \div T) + (v % T)
    BY <1>7, DivRest
  <2>2. PICK q \in Nat : q = v \div T /\ v = T * q + (v % T)
    BY <2>1
  <2>3. v % T = 0 /\ T * q \in Nat
    BY <1>6, <1>7
  <2> QED BY <2>2, <2>3
<1>9. q % 10 # 0
  <2>1. ASSUME q % 10 = 0 PROVE FALSE
    <3>1. PICK p \in Nat : q = 10 * p
      <4>1. q = 10 * (q \div 10) + (q % 10) /\ q \div 10 \in Nat
        BY DivRest
      <4> QED BY <2>1, <4>1
    <3>2. v = p * (10 * T) /\ 10 * T \in Nat /\ 10 * T >= 1
      <4>1. T * (10 * p) = p * (10 * T)
        OBVIOUS
      <4> QED BY <1>7, <1>8, <3>1, <4>1
    <3>3. (p * (10 * T)) % (10 * T) = 0
      <4>1. PICK U \in Nat : U = 10 * T /\ U >= 1
        BY <3>2
      <4>2. (p * U) % U = 0
        BY <3>1, <4>1, ModOfMultiple
      <4> QED BY <4>1, <4>2
    <3> QED BY <1>3, <1>7, <3>2, <3>3
  <2> QED BY <2>1
<1> QED BY <1>5, <1>6, <1>7, <1>8, <1>9

(***************************************************************************)
(* Digits without their trailing zeros are the same number, and do not end *)
(* in a zero.                                                              *)
(***************************************************************************)
LEMMA StripsZeros ==
  ASSUME NEW d, d.value \in Nat, d.len \in Nat, d.value < ten[d.len], NEW s, s = Strip(d)
  PROVE  /\ s.len \in 0..d.len /\ s.value \in Nat /\ s.value < ten[s.len]
         /\ d.value = s.value * ten[d.len - s.len]
         /\ d.value = 0 => s.value = 0 /\ s.len = 0
         /\ d.value # 0 => s.value # 0 /\ s.value % 10 # 0
<1>1. PICK v \in Nat, l \in Nat, k \in {TrailingZeros(d)} : v = d.value /\ l = d.len /\ v < ten[l] /\ k = TrailingZeros(d)
  OBVIOUS
<1>2. s.value = v \div ten[k] /\ s.len = l - k
  BY <1>1 DEF Strip, Digits
<1>3. k \in 0..l /\ v % ten[k] = 0 /\ (v = 0 => k = l) /\ (v # 0 => (v \div ten[k]) % 10 # 0)
  <2>1. CASE v = 0
    <3>1. k = l
      BY <1>1, <2>1 DEF TrailingZeros
    <3>2. ten[l] \in Nat /\ ten[l] >= 1
      BY TenType
    <3>3. 0 % ten[l] = 0
      BY <3>2
    <3> QED BY <2>1, <3>1, <3>3
  <2>2. CASE v # 0
    <3>1. k = CHOOSE i \in 0..l : v % ten[i] = 0 /\ (v \div ten[i]) % 10 # 0
      BY <1>1, <2>2 DEF TrailingZeros
    <3>2. \E i \in 0..l : v % ten[i] = 0 /\ (v \div ten[i]) % 10 # 0
      BY <1>1, <2>2, ZerosEnd
    <3> QED BY <2>2, <3>1, <3>2
  <2> QED BY <2>1, <2>2
<1>4. PICK T \in Nat, n \in Nat : T = ten[k] /\ T >= 1 /\ n = l - k /\ ten[l] = ten[n] * T /\ k \in Nat
  <2>1. k \in Nat /\ l - k \in Nat /\ (l - k) + k = l
    BY <1>3
  <2>2. ten[(l - k) + k] = ten[l - k] * ten[k]
    BY <2>1, TenAdds
  <2> QED BY <2>1, <2>2, TenType
<1>5. PICK q \in Nat : q = v \div T /\ v = q * T
  <2>3. v \div T \in Nat /\ v = (v \div T) * T + (v % T)
    BY <1>1, <1>4, DivRest
  <2>1. PICK q \in Nat : q = v \div T /\ v = q * T + (v % T)
    BY <2>3
  <2>2. v % T = 0 /\ q * T \in Nat
    BY <1>3, <1>4
  <2> QED BY <2>1, <2>2
<1>6. q < ten[n]
  <2>1. PICK N \in Nat : N = ten[n]
    BY TenType
  <2>2. q * T < N * T
    BY <1>1, <1>4, <1>5, <2>1
  <2> QED BY <1>4, <2>1, <2>2, FactorCompares
<1>7. s.value = q /\ s.len = n /\ d.len - s.len = k /\ n \in 0..l
  BY <1>1, <1>2, <1>3, <1>4, <1>5
<1>8. v = 0 => q = 0 /\ n = 0
  <2>1. v = 0 => n = 0
    BY <1>3, <1>4
  <2>2. v = 0 => q = 0
    <3>1. q >= 1 => T * 1 <= T * q
      BY <1>4, TimesGrows
    <3>2. T * q = q * T
      BY <1>4
    <3> QED BY <1>4, <1>5, <3>1, <3>2
  <2> QED BY <2>1, <2>2
<1>9. v # 0 => q # 0 /\ q % 10 # 0
  <2>1. v # 0 => q % 10 # 0
    BY <1>3, <1>4, <1>5
  <2>2. 0 % 10 = 0
    OBVIOUS
  <2> QED BY <2>1, <2>2
<1> QED BY <1>1, <1>4, <1>5, <1>6, <1>7, <1>8, <1>9

(***************************************************************************)
(* Joining the digits on both sides of the point loses none: the product   *)
(* that wraps is found, and refused are only numbers no int224 holds.      *)
(***************************************************************************)
LEMMA JoinReads ==
  ASSUME NEW w \in Coef, w # 0, NEW l \in Nat, NEW f \in Int, Abs(f) < ten[l],
         w > 0 => f >= 0, w < 0 => f <= 0,
         NEW n, n = w * ten[l] + f, NEW r, r = JoinDigits(w, f, l)
  PROVE  /\ n \in Int /\ n # 0 /\ (n < 0 <=> w < 0)
         /\ r.status = "ok" => r = Num(n, -l) /\ n \in Coef
         /\ r.status # "ok" => n \notin Packed
<1>1. PICK T \in Nat : T = ten[l] /\ T >= 1
  BY TenType
<1>2. PICK p \in Int : p = w * T /\ (w > 0 => T <= p) /\ (w < 0 => p <= -T)
  <2>1. w \in Int
    BY CoefIsInt
  <2>2. (w > 0 => T * 1 <= T * w) /\ (w < 0 => T * w <= T * (-1))
    BY <1>1, <2>1, TimesGrows
  <2>3. w * T = T * w /\ w * T \in Int /\ T * 1 = T /\ T * (-1) = -T
    BY <1>1, <2>1
  <2> QED BY <2>1, <2>2, <2>3
<1>3. w \in Int /\ n = p + f /\ (w > 0 \/ w < 0)
  BY <1>1, <1>2, CoefIsInt
<1>4. /\ n \in Int /\ (w > 0 => p <= n /\ n < 2 * p) /\ (w < 0 => n <= p /\ 2 * p < n)
  BY <1>1, <1>2, <1>3 DEF Abs
<1>5. n # 0 /\ (n < 0 <=> w < 0)
  BY <1>1, <1>2, <1>3, <1>4
<1>6. /\ PackMax \in Nat /\ CoefMax \in Nat /\ 10 * (PackMax + 1) <= CoefMax /\ PackD \in Nat
      /\ PackMin = -PackMax - 1 /\ CoefMin = -CoefMax - 1 /\ PackD + 1 \in 0..(D + 1)
      /\ PackMax + 1 < Pow10[PackD + 1] /\ Pow10[PackD] <= PackMax /\ D \in Nat
  <2>1. PackD \in Nat /\ D \in Nat /\ PackD + 1 \in 0..(D + 1)
    BY WidthsAreInts, WidthsFitDecimals
  <2>2. Pow10[PackD + 1] \in Nat
    BY <2>1, Pow10Def
  <2> QED BY <2>1, <2>2, Widths, WidthsFitDecimals DEF PackMin, CoefMin
<1>7. CASE l > PackD
  <2>1. ten[PackD + 1] <= T
    BY <1>1, <1>6, <1>7, TenGrows
  <2>2. ten[PackD + 1] = Pow10[PackD + 1] /\ Pow10[PackD + 1] \in Nat
    BY <1>6, PowersAreTens, Pow10Def
  <2>3. PackMax + 1 < T
    BY <1>1, <1>6, <2>1, <2>2
  <2>4. n \notin Packed
    BY <1>1, <1>2, <1>3, <1>4, <1>6, <2>3 DEF Packed
  <2>5. r.status # "ok"
    BY <1>6, <1>7 DEF JoinDigits, Fail
  <2> QED BY <1>4, <1>5, <2>4, <2>5
<1>8. CASE l <= PackD
  <2>1. l \in 0..(D + 1) /\ Pow10[l] = T
    BY <1>1, <1>6, <1>8, PowersAreTens
  <2>2. T <= CoefMax
    <3>1. PackD \in 0..(D + 1)
      BY <1>6
    <3>2. Pow10[l] <= Pow10[PackD] /\ Pow10[PackD] \in Nat
      BY <1>6, <1>8, <2>1, <3>1, Pow10Grows
    <3> QED BY <1>1, <1>6, <2>1, <3>2
  <2>3. PICK s : s = WrapCoef(p)
    OBVIOUS
  <2>4. (p \in Coef => s = p) /\ (w = Quot(s, T) <=> p \in Coef)
    BY <1>1, <1>2, <1>3, <2>2, <2>3, DividingBackFindsWrap
  <2>5. r = IF Quot(s, T) = w /\ s \in Packed THEN Num(s + f, -l) ELSE Fail("ParseDecimalPrecisionLoss")
    BY <1>1, <1>2, <1>8, <2>1, <2>3 DEF JoinDigits
  <2>6. CASE p \in Packed
    <3>1. p \in Coef /\ n \in Coef
      BY <1>2, <1>3, <1>4, <1>6, <2>6 DEF Packed, Coef
    <3>2. r = Num(n, -l)
      BY <1>3, <2>4, <2>5, <2>6, <3>1
    <3> QED BY <1>4, <1>5, <3>1, <3>2 DEF Num
  <2>7. CASE p \notin Packed
    <3>1. n \notin Packed
      BY <1>2, <1>3, <1>4, <1>6, <2>7 DEF Packed
    <3>2. r = Fail("ParseDecimalPrecisionLoss")
      BY <2>4, <2>5, <2>7
    <3> QED BY <1>4, <1>5, <3>1, <3>2 DEF Fail
  <2> QED BY <2>6, <2>7
<1> QED BY <1>6, <1>7, <1>8

(***************************************************************************)
(* The number a text writes, and the digits it writes behind the point.    *)
(***************************************************************************)
Magnitude(t) == t.whole.value * ten[Strip(t.frac).len] + Strip(t.frac).value
SignedBy(minus, m) == IF minus THEN -m ELSE m

(***************************************************************************)
(* The digits before the mark are read as the number they write, or they   *)
(* are malformed or more than an int224 holds.                             *)
(***************************************************************************)
LEMMA CoefficientRead ==
  ASSUME NEW t \in Scanned, t.frac # NoDigits => t.point,
         NEW r, r = ParseCoefficient(t), NEW l, l = Strip(t.frac).len,
         NEW n, n = SignedBy(t.minus, Magnitude(t))
  PROVE  /\ n \in Int /\ l \in 0..ExpMax /\ (n = 0 => l = 0) /\ (t.minus => n <= 0)
         /\ r.status = "ok" => /\ r = Num(n, -l) /\ n \in Coef
                               /\ t.whole.len > 0 /\ (t.point => t.frac.len > 0)
         /\ r.status # "ok" => t.whole.len = 0 \/ (t.point /\ t.frac.len = 0) \/ n \notin Packed
<1>1. /\ t.minus \in BOOLEAN /\ t.point \in BOOLEAN
      /\ t.whole.value \in Nat /\ t.whole.len \in 0..ExpMax
      /\ t.frac.value \in Nat /\ t.frac.len \in 0..ExpMax
      /\ Abs(t.frac.value) < ten[t.frac.len]
  BY DEF Scanned, Runs
<1>2. PICK s : s = Strip(t.frac)
  OBVIOUS
<1>3. /\ ExpMax \in Nat /\ CoefMax \in Nat /\ PackMax \in Nat /\ 10 * (PackMax + 1) <= CoefMax
      /\ PackMin = -PackMax - 1 /\ CoefMin = -CoefMax - 1
  BY Widths, WidthsFitDecimals DEF PackMin, CoefMin
<1>4. /\ s.len \in 0..t.frac.len /\ s.value \in Nat /\ s.value < ten[s.len]
      /\ t.frac.value = 0 => s.value = 0 /\ s.len = 0
      /\ t.frac.value # 0 => s.value # 0 /\ s.value % 10 # 0
  <2>1. t.frac.len \in Nat /\ t.frac.value < ten[t.frac.len]
    BY <1>1, <1>3 DEF Abs
  <2> QED BY <1>1, <1>2, <2>1, StripsZeros
<1>5. PICK T \in Nat : T = ten[s.len] /\ T >= 1
  <2>1. s.len \in Nat
    BY <1>1, <1>4
  <2> QED BY <2>1, TenType
<1>6. PICK m \in Nat, u \in Nat, f \in Nat :
        /\ u = t.whole.value /\ f = s.value /\ m = u * T + f /\ n = SignedBy(t.minus, m)
        /\ f < T
  <2>1. t.whole.value * T \in Nat
    BY <1>1, <1>5
  <2> QED BY <1>1, <1>2, <1>4, <1>5, <2>1 DEF Magnitude
<1>7. n \in Int /\ (t.minus => n <= 0) /\ (n = 0 <=> m = 0)
  BY <1>1, <1>6 DEF SignedBy
<1>8. l \in 0..ExpMax /\ l = s.len /\ l \in Nat
  BY <1>1, <1>2, <1>3, <1>4
<1>9. u <= m /\ f <= m /\ (u = 0 => m = f) /\ (u # 0 => T <= m)
  <2>1. u >= 1 => T * 1 <= T * u
    BY <1>5, <1>6, TimesGrows
  <2>2. 1 * u <= T * u
    <3>1. u * 1 <= u * T
      BY <1>5, <1>6, TimesGrows
    <3>2. u * T = T * u
      BY <1>5, <1>6
    <3> QED BY <1>6, <3>1, <3>2
  <2>3. T * u = u * T /\ u * T \in Nat /\ (u = 0 => u * T = 0)
    BY <1>5, <1>6
  <2> QED BY <1>5, <1>6, <2>1, <2>2, <2>3
<1>10. n = 0 => l = 0
  <2>1. n = 0 => f = 0
    BY <1>6, <1>7, <1>9
  <2> QED BY <1>4, <1>6, <1>8, <2>1
<1>11. PICK w \in Int : w = SignedBy(t.minus, u)
  BY <1>1, <1>6 DEF SignedBy
<1>12. r = IF t.whole.len = 0 THEN Fail("ParseEmptyDecimalString")
           ELSE IF w \in Coef THEN ParseFraction(t, w) ELSE Fail("ParseDecimalOverflow")
  <2>1. t.whole.len = 0 \/ t.whole.len > 0
    BY <1>1, <1>3
  <2> QED BY <1>3, <1>6, <1>11, <2>1 DEF ParseCoefficient, Readable, SignedBy
<1>13. CASE t.whole.len = 0
  BY <1>7, <1>8, <1>10, <1>12, <1>13 DEF Fail
<1>14. CASE t.whole.len # 0 /\ w \notin Coef
  <2>1. n \notin Packed
    BY <1>1, <1>3, <1>6, <1>9, <1>11, <1>14 DEF SignedBy, Packed, Coef
  <2> QED BY <1>7, <1>8, <1>10, <1>12, <1>14, <2>1 DEF Fail
<1>15. CASE t.whole.len # 0 /\ w \in Coef
  <2>1. r = ParseFraction(t, w) /\ t.whole.len > 0
    BY <1>1, <1>3, <1>12, <1>15
  <2>2. CASE ~t.point
    <3>1. r = Num(w, 0)
      BY <2>1, <2>2 DEF ParseFraction
    <3>2. s.value = 0 /\ s.len = 0
      <4>1. t.frac = NoDigits
        BY <2>2
      <4>2. t.frac.value = 0
        BY <4>1 DEF NoDigits, Digits
      <4> QED BY <1>4, <4>2
    <3>3. m = u
      <4>1. T = 1
        BY <1>5, <3>2, TenUnfolds
      <4> QED BY <1>6, <3>2, <4>1
    <3>4. n = w /\ -l = 0
      <4>1. n = w
        BY <1>6, <1>11, <3>3
      <4>2. l = 0
        BY <1>8, <3>2
      <4>3. \A z \in Int : z + z = 0 => -z = z
        OBVIOUS
      <4>4. l \in Int /\ l + l = 0
        BY <1>8, <4>2
      <4>5. -l = l
        BY <4>3, <4>4, Zenon
      <4> QED BY <4>1, <4>2, <4>5, Zenon
    <3> QED BY <1>7, <1>8, <1>10, <1>15, <2>1, <2>2, <3>1, <3>4 DEF Num
  <2>3. CASE t.point /\ t.frac.len = 0
    <3>1. r = Fail("MalformedDecimalPoint")
      BY <1>1, <2>1, <2>3 DEF ParseFraction
    <3> QED BY <1>7, <1>8, <1>10, <2>3, <3>1 DEF Fail
  <2>4. CASE t.point /\ t.frac.len # 0
    <3>1. PICK g \in Int : g = (IF t.minus THEN -1 ELSE 1) * f /\ g = SignedBy(t.minus, f)
      BY <1>1, <1>6 DEF SignedBy
    <3>2. r = IF f \notin Coef THEN Fail("ParseDecimalOverflow")
              ELSE IF w = 0 THEN Num(g, -l) ELSE JoinDigits(w, g, l)
      <4>1. t.frac.len > 0
        BY <1>1, <1>3, <2>4
      <4> QED BY <1>2, <1>6, <1>8, <2>1, <2>4, <3>1, <4>1 DEF ParseFraction, Readable
    <3>3. CASE f \notin Coef
      <4>1. m > CoefMax
        BY <1>3, <1>6, <1>9, <3>3 DEF Coef
      <4>2. n \notin Packed
        BY <1>1, <1>3, <1>6, <4>1 DEF SignedBy, Packed
      <4> QED BY <1>7, <1>8, <1>10, <3>2, <3>3, <4>2 DEF Fail
    <3>4. CASE f \in Coef /\ w = 0
      <4>1. m = f
        BY <1>1, <1>6, <1>9, <1>11, <3>4 DEF SignedBy
      <4>2. n = g /\ n \in Coef
        BY <1>1, <1>3, <1>6, <3>1, <3>4, <4>1 DEF SignedBy, Coef
      <4> QED BY <1>1, <1>3, <1>7, <1>8, <1>10, <2>1, <2>4, <3>2, <3>4, <4>2 DEF Num
    <3>5. CASE f \in Coef /\ w # 0
      <4>1. Abs(g) < ten[l] /\ (w > 0 => g >= 0) /\ (w < 0 => g <= 0)
        BY <1>1, <1>5, <1>6, <1>8, <1>11, <3>1 DEF SignedBy, Abs
      <4>2. n = w * ten[l] + g
        <5>1. (-u) * T = -(u * T) /\ u * T \in Nat
          BY <1>5, <1>6
        <5>2. n = w * T + g
          BY <1>1, <1>6, <1>11, <3>1, <5>1 DEF SignedBy
        <5> QED BY <1>5, <1>8, <5>2
      <4>3. r = JoinDigits(w, g, l)
        BY <3>2, <3>5
      <4>4. /\ r.status = "ok" => r = Num(n, -l) /\ n \in Coef
            /\ r.status # "ok" => n \notin Packed
        BY <1>8, <1>15, <3>1, <3>5, <4>1, <4>2, <4>3, JoinReads
      <4> QED BY <1>1, <1>3, <1>7, <1>8, <1>10, <2>1, <2>4, <4>4
    <3> QED BY <3>3, <3>4, <3>5
  <2> QED BY <1>1, <2>2, <2>3, <2>4
<1> QED BY <1>13, <1>14, <1>15

(***************************************************************************)
(* The unchecked sum of an exponent and the exponent of a text wraps only  *)
(* downwards, and the test behind it finds that.                           *)
(***************************************************************************)
LEMMA ExponentAdds ==
  ASSUME NEW l \in 0..ExpMax, NEW v \in Exp, NEW x, x = WrapExp(-l + v)
  PROVE  /\ v - l \in Exp => x = v - l /\ ~(v > 0 /\ x < -l) /\ ~(v < 0 /\ x > -l)
         /\ v - l \notin Exp => v < 0 /\ x > -l
<1>1. /\ ExpMax \in Nat /\ ExpMin = -ExpMax - 1 /\ l \in Int /\ l >= 0 /\ l <= ExpMax
      /\ v \in Int /\ -l + v \in Int /\ -l + v = v - l /\ v <= ExpMax /\ v >= -ExpMax - 1
  BY Widths DEF Exp, ExpMin
<1>2. CASE v - l \in Exp
  <2>1. x = v - l
    BY <1>1, <1>2, WrapExpKeepsType
  <2> QED BY <1>1, <1>2, <2>1
<1>3. CASE v - l \notin Exp
  <2>1. v - l < -ExpMax - 1
    BY <1>1, <1>3 DEF Exp
  <2>2. x \in Int /\ x >= -ExpMax - 1
    BY <1>1, WrapExpType DEF Exp
  <2>3. PICK q \in Int : v - l = x + q * (2 * (ExpMax + 1))
    <3>1. PICK q \in Int : -l + v = WrapExp(-l + v) + q * (2 * (ExpMax + 1))
      BY <1>1, ExpCongruent
    <3> QED BY <1>1, <3>1
  <2>4. PICK M \in Nat : M = 2 * (ExpMax + 1)
    BY <1>1
  <2>5. q <= -1
    <3>1. 0 <= q => M * 0 <= M * q
      BY <2>4, TimesGrows
    <3>2. M * q = q * M /\ M * 0 = 0 /\ M * q \in Int
      BY <2>3, <2>4
    <3>3. ~(0 <= q)
      BY <1>1, <2>1, <2>2, <2>3, <2>4, <3>1, <3>2
    <3> QED BY <2>3, <3>3
  <2>6. q * M <= -M
    <3>1. M * q <= M * (-1)
      BY <2>3, <2>4, <2>5, TimesGrows
    <3>2. M * q = q * M /\ M * (-1) = -M
      BY <2>3, <2>4
    <3> QED BY <3>1, <3>2
  <2>7. q * M \in Int
    BY <2>3, <2>4
  <2> QED BY <1>1, <1>3, <2>1, <2>2, <2>3, <2>4, <2>6, <2>7
<1> QED BY <1>2, <1>3

(***************************************************************************)
(* The digits a text cannot do without.                                    *)
(***************************************************************************)
HasDigits(t) == /\ t.whole.len > 0
                /\ t.point => t.frac.len > 0
                /\ t.mark => t.exp.len > 0

(***************************************************************************)
(* What is read of a text before it is packed is the number it writes, a   *)
(* zero with the exponent zero; what cannot be read cannot be packed.      *)
(***************************************************************************)
LEMMA InlineReads ==
  ASSUME NEW t \in Scanned, t.frac # NoDigits => t.point, t.exp # NoDigits => t.mark,
         NEW r, r = ParseInline(t),
         NEW n, n = SignedBy(t.minus, Magnitude(t)), NEW e, e = t.exp.value - Strip(t.frac).len
  PROVE  /\ n \in Int /\ e \in Int /\ (t.minus => n <= 0)
         /\ r.status = "ok" => /\ r = Num(n, IF n = 0 THEN 0 ELSE e) /\ n \in Coef /\ e \in Exp
                               /\ HasDigits(t) /\ t.exp.value \in Exp
         /\ r.status # "ok" => \/ ~HasDigits(t) \/ n \notin Packed \/ t.exp.value \notin Exp
                               \/ n # 0 /\ e \notin PackExp
<1>1. PICK p : p = ParseCoefficient(t)
  OBVIOUS
<1>2. PICK l : l = Strip(t.frac).len
  OBVIOUS
<1>3. /\ n \in Int /\ l \in 0..ExpMax /\ (n = 0 => l = 0) /\ (t.minus => n <= 0)
      /\ p.status = "ok" => /\ p = Num(n, -l) /\ n \in Coef
                            /\ t.whole.len > 0 /\ (t.point => t.frac.len > 0)
      /\ p.status # "ok" => t.whole.len = 0 \/ (t.point /\ t.frac.len = 0) \/ n \notin Packed
  BY <1>1, <1>2, CoefficientRead
<1>4. PICK v \in Int : v = t.exp.value
  BY DEF Scanned, Runs
<1>5. /\ t.mark \in BOOLEAN /\ t.exp.len \in 0..ExpMax /\ t.frac.len \in 0..ExpMax
      /\ t.whole.len \in 0..ExpMax /\ t.point \in BOOLEAN
  BY DEF Scanned, Runs
<1>6. /\ ExpMax \in Nat /\ ExpMin = -ExpMax - 1 /\ PackExpMax < ExpMax
      /\ PackExpMin = -PackExpMax - 1 /\ PackExpMax \in Nat
  BY Widths DEF ExpMin, PackExpMin
<1>7. e = v - l /\ e \in Int
  BY <1>2, <1>3, <1>4
<1>8. r = ParseMark(t, p)
  BY <1>1 DEF ParseInline
<1>9. CASE p.status # "ok"
  <2>1. r = p
    BY <1>8, <1>9 DEF ParseMark
  <2>2. ~HasDigits(t) \/ n \notin Packed
    BY <1>3, <1>5, <1>6, <1>9 DEF HasDigits
  <2> QED BY <1>3, <1>7, <1>9, <2>1, <2>2
<1>10. CASE p.status = "ok"
  <2>1. p = Num(n, -l) /\ n \in Coef /\ t.whole.len > 0 /\ (t.point => t.frac.len > 0)
    BY <1>3, <1>10
  <2>2. PICK x : x = ParseExponent(t, p)
    OBVIOUS
  <2>3. r = NormalizeZero(x)
    BY <1>8, <1>10, <2>2 DEF ParseMark
  <2>4. p.c = n /\ p.e = -l
    BY <2>1 DEF Num
  <2>5. \/ x = Num(n, e) /\ e \in Exp /\ HasDigits(t) /\ v \in Exp
        \/ x.status # "ok" /\ (~HasDigits(t) \/ v \notin Exp \/ (n # 0 /\ e \notin PackExp))
    <3>1. CASE ~t.mark
      <4>1. x = p
        BY <2>2, <3>1 DEF ParseExponent
      <4>2. v = 0
        BY <1>4, <3>1 DEF NoDigits, Digits
      <4>3. e = -l
        BY <1>3, <1>6, <1>7, <4>2
      <4>4. e \in Exp /\ v \in Exp
        BY <1>3, <1>6, <1>7, <4>2 DEF Exp
      <4> QED BY <2>1, <3>1, <4>1, <4>3, <4>4 DEF HasDigits
    <3>2. CASE t.mark /\ t.exp.len = 0
      <4>1. x = Fail("MalformedExponentDigits")
        BY <2>2, <3>2 DEF ParseExponent
      <4> QED BY <3>2, <4>1 DEF HasDigits, Fail
    <3>3. CASE t.mark /\ t.exp.len # 0 /\ v \notin Exp
      <4>1. t.exp.len > 0
        BY <1>5, <1>6, <3>3
      <4>2. x = Fail("ParseDecimalOverflow")
        BY <1>4, <2>2, <3>3, <4>1 DEF ParseExponent
      <4> QED BY <3>3, <4>2 DEF Fail
    <3>4. CASE t.mark /\ t.exp.len # 0 /\ v \in Exp
      <4>1. t.exp.len > 0
        BY <1>5, <1>6, <3>4
      <4>2. PICK y : y = WrapExp(-l + v)
        OBVIOUS
      <4>3. x = IF (v > 0 /\ y < -l) \/ (v < 0 /\ y > -l) THEN Fail("ExponentOverflow") ELSE Num(n, y)
        BY <1>4, <2>2, <2>4, <3>4, <4>1, <4>2 DEF ParseExponent
      <4>4. /\ v - l \in Exp => y = v - l /\ ~(v > 0 /\ y < -l) /\ ~(v < 0 /\ y > -l)
            /\ v - l \notin Exp => v < 0 /\ y > -l
        BY <1>3, <3>4, <4>2, ExponentAdds
      <4>5. CASE e \in Exp
        BY <1>7, <2>1, <3>4, <4>1, <4>3, <4>4, <4>5 DEF HasDigits
      <4>6. CASE e \notin Exp
        <5>1. x.status # "ok"
          BY <1>7, <4>3, <4>4, <4>6 DEF Fail
        <5>2. n # 0
          <6>1. n = 0 => e = v
            BY <1>3, <1>7
          <6> QED BY <3>4, <4>6, <6>1
        <5>3. e \notin PackExp
          BY <1>6, <1>7, <4>6 DEF Exp, PackExp
        <5> QED BY <5>1, <5>2, <5>3
      <4> QED BY <4>5, <4>6
    <3> QED BY <1>5, <3>1, <3>2, <3>3, <3>4
  <2>6. CASE x = Num(n, e) /\ e \in Exp /\ HasDigits(t) /\ v \in Exp
    <3>1. r = Num(n, IF n = 0 THEN 0 ELSE e)
      BY <2>3, <2>6 DEF NormalizeZero, MaximizedZero, Num
    <3>2. r.status = "ok"
      BY <3>1 DEF Num
    <3> QED BY <1>3, <1>4, <1>7, <2>1, <2>6, <3>1, <3>2
  <2>7. CASE x.status # "ok" /\ (~HasDigits(t) \/ v \notin Exp \/ (n # 0 /\ e \notin PackExp))
    <3>1. r = x
      BY <2>3, <2>7 DEF NormalizeZero
    <3> QED BY <1>3, <1>4, <1>7, <2>7, <3>1
  <2> QED BY <2>5, <2>6, <2>7
<1> QED BY <1>9, <1>10

(***************************************************************************)
(* Packing what was read: lossless, or refused, or an exponent too large.  *)
(***************************************************************************)
LEMMA ReadPacks ==
  ASSUME NEW n \in Coef, n # 0, NEW e \in Exp, NEW r, r = PackRead(PackLossy(n, e))
  PROVE  \/ n \in Packed /\ e \in PackExp /\ r = Num(n, e)
         \/ ~(n \in Packed /\ e \in PackExp) /\ r.status = "refused"
         \/ ~(n \in Packed /\ e \in PackExp) /\ r.status = "ExponentOverflow"
            /\ LessNumber(1, PackExpMax, Abs(n), e)
<1>1. PICK k, q : k = DigitsToDrop(n) /\ q = Quot(n, Pow10[k])
  OBVIOUS
<1>2. /\ k \in 0..(D + 1) /\ q \in Packed /\ q # 0
      /\ Abs(q) = Abs(n) \div Pow10[k]
      /\ n \in Packed => k = 0
      /\ k = 0 => q = n
      /\ k > 0 => /\ k - 1 \in 0..(D + 1) /\ Abs(n) \div Pow10[k - 1] > PackMax
  BY <1>1, DropsKeepDigits
<1>3. PICK y : y = WrapExp(e + k)
  OBVIOUS
<1>4. PICK p : p = PackLossy(n, e)
  OBVIOUS
<1>5. /\ ExpMax \in Nat /\ ExpMin = -ExpMax - 1 /\ PackExpMax < ExpMax /\ D \in Nat /\ k \in Nat
      /\ PackExpMin = -PackExpMax - 1 /\ PackExpMax \in Nat /\ PackMax \in Nat /\ PackMax >= 10
      /\ 2 * PackExpMax + 3 * (D + 1) <= ExpMax /\ e \in Int /\ e >= -ExpMax - 1 /\ e <= ExpMax
      /\ k <= D + 1
  BY <1>2, Widths, WidthsAreInts, ExponentsFit DEF ExpMin, PackExpMin, Exp
<1>12. PICK flag \in BOOLEAN : flag = (k = 0)
  OBVIOUS
<1>6. p = CASE y \in PackExp   -> Float(q, y, flag)
            [] y < PackExpMin -> Underflow
            [] OTHER -> Revert("ExponentOverflow")
  BY <1>1, <1>3, <1>4, <1>12 DEF PackLossy
<1>7. y \in Int
  BY <1>3, <1>5, WrapExpType DEF Exp
<1>8. CASE y \in PackExp
  <2>1. y = e + k
    BY <1>2, <1>3, <1>8, PackedIsNotWrapped
  <2>2. p = Float(q, y, flag)
    <3>1. ~(y < PackExpMin)
      BY <1>5, <1>7, <1>8 DEF PackExp
    <3> QED BY <1>6, <1>8, <3>1
  <2>3. CASE k = 0
    <3>1. q = n /\ y = e
      BY <1>2, <1>5, <2>1, <2>3
    <3>2. p = Float(n, e, flag) /\ flag
      BY <1>12, <2>2, <2>3, <3>1
    <3>3. p.status = "ok" /\ p.lossless /\ p.c = n /\ p.e = e
      BY <3>2 DEF Float
    <3>4. r = Num(n, e)
      BY <1>4, <3>3 DEF PackRead
    <3> QED BY <1>2, <1>8, <3>1, <3>4
  <2>4. CASE k # 0
    <3>1. p = Float(q, y, flag) /\ ~flag
      BY <1>12, <2>2, <2>4
    <3>2. p.status = "ok" /\ ~p.lossless
      BY <3>1 DEF Float
    <3>3. r = Refuse("ParseDecimalPrecisionLoss")
      BY <1>4, <3>2 DEF PackRead
    <3>4. n \notin Packed
      BY <1>2, <2>4
    <3> QED BY <3>3, <3>4 DEF Refuse
  <2> QED BY <2>3, <2>4
<1>9. ASSUME y \notin PackExp PROVE ~(n \in Packed /\ e \in PackExp)
  <2>1. ASSUME n \in Packed, e \in PackExp PROVE FALSE
    <3>1. e + k = e
      BY <1>2, <1>5, <2>1
    <3>2. y = e
      BY <1>3, <3>1, WrapExpKeepsType
    <3> QED BY <1>9, <2>1, <3>2
  <2> QED BY <2>1
<1>10. CASE y < PackExpMin
  <2>1. y \notin PackExp
    BY <1>5, <1>7, <1>10 DEF PackExp
  <2>2. p = Underflow
    BY <1>6, <1>10, <2>1
  <2>3. p.status = "ok" /\ ~p.lossless
    BY <2>2 DEF Underflow, Float
  <2>4. r = Refuse("ParseDecimalPrecisionLoss")
    BY <1>4, <2>3 DEF PackRead
  <2> QED BY <1>9, <2>1, <2>4 DEF Refuse
<1>11. CASE y \notin PackExp /\ ~(y < PackExpMin)
  <2>1. p = Revert("ExponentOverflow")
    BY <1>6, <1>11
  <2>2. r.status = "ExponentOverflow"
    BY <1>4, <2>1 DEF PackRead, Fail, Revert
  <2>3. y > PackExpMax
    BY <1>5, <1>7, <1>11 DEF PackExp
  <2>4. e + k > PackExpMax
    <3>1. CASE e + k \in Exp
      BY <1>3, <2>3, <3>1, WrapExpKeepsType
    <3>2. CASE e + k \notin Exp
      BY <1>5, <3>2 DEF Exp
    <3> QED BY <3>1, <3>2
  <2>5. LessNumber(1, PackExpMax, Abs(n), e)
    <3>1. PICK m \in Nat : m = Abs(n) /\ m >= 1
      <4>1. n \in Int
        BY CoefIsInt
      <4> QED BY <4>1 DEF Abs
    <3>2. PICK z \in Int : z <= PackExpMax /\ z <= e /\ (z = PackExpMax \/ z = e)
      <4>1. CASE e <= PackExpMax
        BY <1>5, <4>1
      <4>2. CASE ~(e <= PackExpMax)
        BY <1>5, <4>2
      <4> QED BY <4>1, <4>2
    <3>3. /\ InUnits(1, PackExpMax, z) \in Int /\ InUnits(m, e, z) \in Int
          /\ LessNumber(1, PackExpMax, m, e) <=> InUnits(1, PackExpMax, z) < InUnits(m, e, z)
      <4>1. 1 \in Int /\ m \in Int /\ PackExpMax \in Int
        BY <1>5, <3>1
      <4> QED BY <1>5, <3>2, <4>1, LessCompares
    <3>4. CASE e > PackExpMax
      <4>1. z = PackExpMax
        BY <1>5, <3>2, <3>4
      <4>2. PICK T \in Nat : T = ten[e - z] /\ T >= 10
        <5>1. PICK d \in Nat : d = e - z /\ 0 < d /\ 0 <= d
          BY <1>5, <3>4, <4>1
        <5>2. ten[d] \in Nat /\ 10 * ten[0] <= ten[d] /\ ten[0] = 1
          BY <5>1, TenGrows, TenType, TenUnfolds
        <5> QED BY <5>1, <5>2
      <4>3. T * 1 <= T * m /\ T * m = m * T /\ m * T \in Nat
        BY <3>1, <4>2, TimesGrows
      <4>4. PackExpMax - z = 0 /\ ten[0] = 1
        BY <1>5, <4>1, TenUnfolds
      <4>5. InUnits(1, PackExpMax, z) = 1 /\ InUnits(m, e, z) = m * T
        BY <4>2, <4>4 DEF InUnits
      <4> QED BY <3>1, <3>3, <4>2, <4>3, <4>5
    <3>5. CASE e <= PackExpMax
      <4>1. z = e
        BY <1>5, <3>2, <3>5
      <4>2. k > 0 /\ k - 1 \in Nat /\ PackExpMax - e <= k - 1 /\ PackExpMax - e \in Nat
        BY <1>5, <2>4, <3>5
      <4>3. PICK S \in Nat : S = Pow10[k - 1] /\ S >= 1 /\ S = ten[k - 1]
        <5>1. k - 1 \in 0..(D + 1)
          BY <1>2, <4>2
        <5> QED BY <4>2, <5>1, PowersAreTens, TenType
      <4>4. m \div S > PackMax /\ m \div S \in Nat /\ S * (m \div S) <= m
        <5>1. m \div S > PackMax
          BY <1>2, <3>1, <4>2, <4>3
        <5> QED BY <3>1, <4>3, <5>1, DivBounds
      <4>5. S < m
        <5>1. S * 2 <= S * (m \div S)
          BY <1>5, <4>3, <4>4, TimesGrows
        <5> QED BY <3>1, <4>3, <4>4, <5>1
      <4>6. PICK U \in Nat : U = ten[PackExpMax - e] /\ U <= S
        <5>1. PICK d \in Nat, j \in Nat : d = PackExpMax - e /\ j = k - 1 /\ d <= j
          BY <4>2
        <5>2. ten[d] \in Nat /\ ten[d] <= ten[j]
          BY <5>1, TenGrows, TenType
        <5> QED BY <4>3, <5>1, <5>2
      <4>7. InUnits(1, PackExpMax, z) = U /\ InUnits(m, e, z) = m
        <5>1. e - z = 0 /\ ten[0] = 1 /\ 1 * U = U /\ m * 1 = m
          BY <1>5, <3>1, <4>1, <4>6, TenUnfolds
        <5> QED BY <4>1, <4>6, <5>1 DEF InUnits
      <4> QED BY <3>1, <3>3, <4>3, <4>5, <4>6, <4>7
    <3> QED BY <1>5, <3>4, <3>5
  <2> QED BY <1>9, <1>11, <2>2, <2>5
<1> QED BY <1>8, <1>10, <1>11

(***************************************************************************)
(* Parse: exactly the number written, or refused because it is malformed   *)
(* or not a float; only too large a number reverts.                        *)
(***************************************************************************)
LEMMA ParseReads ==
  ASSUME NEW t \in Scanned, t.frac # NoDigits => t.point, t.exp # NoDigits => t.mark,
         NEW r, r = Parse(t),
         NEW n, n = SignedBy(t.minus, Magnitude(t)), NEW e, e = t.exp.value - Strip(t.frac).len
  PROVE  /\ n \in Int /\ e \in Int /\ (t.minus => n <= 0)
         /\ r.status = "ok" <=> /\ HasDigits(t) /\ ~t.rest
                                /\ n \in Packed /\ t.exp.value \in Exp /\ (n # 0 => e \in PackExp)
         /\ r.status = "ok" => r = Num(n, IF n = 0 THEN 0 ELSE e)
         /\ r.status \notin {"ok", "refused"} =>
              r.status = "ExponentOverflow" /\ LessNumber(1, PackExpMax, Abs(n), e)
<1>1. PICK p : p = ParseInline(t)
  OBVIOUS
<1>2. /\ n \in Int /\ e \in Int /\ (t.minus => n <= 0)
      /\ p.status = "ok" => /\ p = Num(n, IF n = 0 THEN 0 ELSE e) /\ n \in Coef /\ e \in Exp
                            /\ HasDigits(t) /\ t.exp.value \in Exp
      /\ p.status # "ok" => \/ ~HasDigits(t) \/ n \notin Packed \/ t.exp.value \notin Exp
                            \/ n # 0 /\ e \notin PackExp
  BY <1>1, InlineReads
<1>3. r = ParseEnd(p, t.rest) /\ t.rest \in BOOLEAN
  BY <1>1 DEF Parse, Scanned
<1>4. CASE p.status # "ok"
  <2>1. r = Refuse(p.status)
    BY <1>3, <1>4 DEF ParseEnd
  <2>2. r.status = "refused"
    BY <2>1 DEF Refuse
  <2> QED BY <1>2, <1>4, <2>2
<1>5. CASE p.status = "ok" /\ t.rest
  <2>1. r = Refuse("ParseDecimalFloatExcessCharacters")
    BY <1>3, <1>5 DEF ParseEnd
  <2>2. r.status = "refused"
    BY <2>1 DEF Refuse
  <2> QED BY <1>2, <1>5, <2>2
<1>6. CASE p.status = "ok" /\ ~t.rest /\ n = 0
  <2>1. p = Num(0, 0)
    BY <1>2, <1>6
  <2>2. p.c = 0 /\ p.e = 0
    BY <2>1 DEF Num
  <2>3. r = PackRead(PackLossy(0, 0))
    BY <1>3, <1>6, <2>2 DEF ParseEnd
  <2>4. PackLossy(0, 0) = [status |-> "ok", c |-> 0, e |-> 0, lossless |-> TRUE]
    BY DEF PackLossy, FloatZero, Float
  <2>5. r = Num(0, 0)
    BY <2>3, <2>4 DEF PackRead
  <2>6. 0 \in Packed
    BY Widths DEF Packed, PackMin
  <2>7. r.status = "ok"
    BY <2>5 DEF Num
  <2> QED BY <1>2, <1>6, <2>5, <2>6, <2>7
<1>7. CASE p.status = "ok" /\ ~t.rest /\ n # 0
  <2>1. p = Num(n, e)
    BY <1>2, <1>7
  <2>2. p.c = n /\ p.e = e
    BY <2>1 DEF Num
  <2>3. r = PackRead(PackLossy(n, e))
    BY <1>3, <1>7, <2>2 DEF ParseEnd
  <2>4. \/ n \in Packed /\ e \in PackExp /\ r = Num(n, e)
        \/ ~(n \in Packed /\ e \in PackExp) /\ r.status = "refused"
        \/ ~(n \in Packed /\ e \in PackExp) /\ r.status = "ExponentOverflow"
           /\ LessNumber(1, PackExpMax, Abs(n), e)
    BY <1>2, <1>7, <2>3, ReadPacks
  <2>5. r = Num(n, e) => r.status = "ok"
    BY DEF Num
  <2> QED BY <1>2, <1>7, <2>4, <2>5
<1> QED BY <1>3, <1>4, <1>5, <1>6, <1>7
-----------------------------------------------------------------------------

(***************************************************************************)
(* Formatting.                                                             *)
(*                                                                         *)
(* A number has fewer digits than its value: every n has a length.         *)
(***************************************************************************)
LEMMA TenExceeds ==
  ASSUME NEW n \in Nat
  PROVE  n < ten[n]
<1>1. SUFFICES ASSUME ~(n < ten[n]) PROVE FALSE
  OBVIOUS
<1>2. PICK B \in SUBSET Nat : B = {m \in Nat : ~(m < ten[m])}
  OBVIOUS
<1>3. n \in B
  BY <1>1, <1>2
<1>4. PICK m \in B : \A k \in B : m <= k
  BY <1>2, <1>3, LeastNumber
<1>5. m \in Nat /\ ~(m < ten[m])
  BY <1>2, <1>4
<1>6. m # 0
  BY <1>5, TenUnfolds
<1>7. PICK k \in Nat : m = k + 1
  <2>1. m - 1 \in Nat /\ m = (m - 1) + 1
    BY <1>5, <1>6
  <2> QED BY <2>1
<1>8. k < ten[k]
  <2>1. k \notin B
    BY <1>4, <1>7
  <2> QED BY <1>2, <2>1
<1>9. ten[m] = 10 * ten[k] /\ ten[k] \in Nat
  BY <1>7, TenUnfolds, TenType
<1> QED BY <1>5, <1>7, <1>8, <1>9

(***************************************************************************)
(* The number of digits of n, which is no more than k below 10^k.          *)
(***************************************************************************)
LEMMA LengthCounts ==
  ASSUME NEW n \in Nat, NEW k \in 1..(D + 1 + ExpMax), n < ten[k], NEW l, l = Length(n)
  PROVE  l \in 1..k /\ n < ten[l]
<1>1. D \in Nat /\ ExpMax \in Nat
  BY WidthsAreInts
<1>2. PICK B \in SUBSET Nat : B = {m \in Nat : m >= 1 /\ n < ten[m]}
  OBVIOUS
<1>3. k \in B
  BY <1>1, <1>2
<1>4. PICK m \in B : \A i \in B : m <= i
  BY <1>2, <1>3, LeastNumber
<1>5. m \in 1..k /\ n < ten[m]
  BY <1>1, <1>2, <1>3, <1>4
<1>6. m > 1 => n >= ten[m - 1]
  <2>1. SUFFICES ASSUME m > 1 PROVE n >= ten[m - 1]
    OBVIOUS
  <2>2. m - 1 \in Nat /\ m - 1 >= 1 /\ ~(m <= m - 1)
    BY <1>1, <1>5, <2>1
  <2>3. m - 1 \notin B
    BY <1>4, <2>2
  <2>4. ten[m - 1] \in Nat
    BY <2>2, TenType
  <2> QED BY <1>2, <2>2, <2>3, <2>4
<1>7. m \in 1..(D + 1 + ExpMax)
  BY <1>1, <1>5
<1>8. l \in 1..(D + 1 + ExpMax) /\ n < ten[l] /\ (l > 1 => n >= ten[l - 1])
  BY <1>5, <1>6, <1>7 DEF Length
<1>9. l <= k
  <2>1. SUFFICES ASSUME ~(l <= k) PROVE FALSE
    OBVIOUS
  <2>2. k <= l - 1 /\ l - 1 \in Nat /\ l > 1 /\ k \in Nat
    BY <1>1, <1>8, <2>1
  <2>3. ten[k] <= ten[l - 1] /\ ten[k] \in Nat /\ ten[l - 1] \in Nat
    BY <2>2, TenGrows, TenType
  <2> QED BY <1>8, <2>2, <2>3
<1> QED BY <1>1, <1>8, <1>9

(***************************************************************************)
(* Digits without trailing zeros are left as they are.                     *)
(***************************************************************************)
LEMMA StripsNothing ==
  ASSUME NEW d, d.value \in Nat, d.len \in Nat, d.value < ten[d.len],
         d.value % 10 # 0 \/ (d.value = 0 /\ d.len = 0), NEW s, s = Strip(d)
  PROVE  s.value = d.value /\ s.len = d.len
<1>1. /\ s.len \in 0..d.len /\ s.value \in Nat /\ s.value < ten[s.len]
      /\ d.value = s.value * ten[d.len - s.len]
      /\ d.value = 0 => s.value = 0 /\ s.len = 0
      /\ d.value # 0 => s.value # 0 /\ s.value % 10 # 0
  BY StripsZeros
<1>2. PICK j \in Nat : j = d.len - s.len
  BY <1>1
<1>3. CASE j = 0
  <2>1. ten[j] = 1 /\ s.value * 1 = s.value
    BY <1>1, <1>3, TenUnfolds
  <2>2. d.len = s.len
    BY <1>1, <1>2, <1>3
  <2> QED BY <1>1, <1>2, <2>1, <2>2
<1>4. CASE j # 0
  <2>1. PICK i \in Nat : j = i + 1
    <3>1. j - 1 \in Nat /\ j = (j - 1) + 1
      BY <1>4
    <3> QED BY <3>1
  <2>2. ten[j] = 10 * ten[i] /\ ten[i] \in Nat
    BY <2>1, TenUnfolds, TenType
  <2>3. PICK p \in Nat : p = s.value * ten[i]
    BY <1>1, <2>2
  <2>4. d.value = p * 10
    BY <1>1, <1>2, <2>2, <2>3
  <2>5. d.value % 10 = 0
    BY <2>3, <2>4
  <2>6. d.len # 0
    BY <1>1, <1>2, <1>4
  <2> QED BY <2>5, <2>6
<1> QED BY <1>3, <1>4

(***************************************************************************)
(* The coefficient of a float has at most PackD + 1 digits.                *)
(***************************************************************************)
LEMMA PackedLength ==
  ASSUME NEW v \in 0..(PackMax + 1)
  PROVE  v \in Nat /\ Length(v) \in 1..ExpMax /\ Length(v) \in Nat /\ v < ten[Length(v)]
<1>1. /\ PackMax \in Nat /\ PackD \in Nat /\ D \in Nat /\ ExpMax \in Nat /\ PackExpMax \in Nat
      /\ PackMax < Pow10[PackD + 1] - 1 /\ PackD <= PackExpMax /\ 2 * PackExpMax + 3 * (D + 1) <= ExpMax
      /\ PackD + 1 <= D
  BY WidthsAreInts, WidthsFitDecimals, ExponentsFit
<1>2. PackD + 1 \in 0..(D + 1) /\ PackD + 1 \in 1..(D + 1 + ExpMax) /\ PackD + 1 <= ExpMax
  BY <1>1
<1>3. ten[PackD + 1] = Pow10[PackD + 1] /\ Pow10[PackD + 1] \in Nat
  BY <1>2, PowersAreTens, Pow10Grows
<1>4. v \in Nat /\ v < ten[PackD + 1]
  BY <1>1, <1>3
<1>5. Length(v) \in 1..(PackD + 1) /\ v < ten[Length(v)]
  BY <1>2, <1>4, LengthCounts
<1> QED BY <1>1, <1>2, <1>4, <1>5

(***************************************************************************)
(* The trailing zeros of a number other than zero.                         *)
(***************************************************************************)
LEMMA ZerosOf ==
  ASSUME NEW v \in 1..(PackMax + 1), NEW k, k = TrailingZeros(WholeDigits(v)), NEW n, n = v \div ten[k]
  PROVE  k \in Nat /\ n \in Nat /\ n # 0 /\ n % 10 # 0 /\ v = n * ten[k]
<1>1. PICK l : l = Length(v)
  OBVIOUS
<1>2. l \in Nat /\ v < ten[l] /\ v \in Nat /\ v # 0
  BY <1>1, PackedLength
<1>3. k = CHOOSE i \in 0..l : v % ten[i] = 0 /\ v \div ten[i] % 10 # 0
  BY <1>1 DEF TrailingZeros, WholeDigits, Digits
<1>4. \E i \in 0..l : v % ten[i] = 0 /\ (v \div ten[i]) % 10 # 0
  BY <1>2, ZerosEnd
<1>5. k \in 0..l /\ v % ten[k] = 0 /\ (v \div ten[k]) % 10 # 0
  BY <1>3, <1>4
<1>6. k \in Nat
  BY <1>2, <1>5
<1>7. PICK T \in Nat : T = ten[k] /\ T >= 1
  BY <1>6, TenType
<1>8. v \div T \in Nat /\ v = (v \div T) * T + (v % T)
  BY <1>2, <1>7, DivRest
<1>9. n \in Nat /\ v = n * T /\ n % 10 # 0
  BY <1>5, <1>7, <1>8
<1>10. n # 0
  <2>1. n = 0 => n * T = 0
    BY <1>7
  <2> QED BY <1>9, <2>1
<1> QED BY <1>6, <1>7, <1>9, <1>10

(***************************************************************************)
(* Two ways to write a number are the same number, if one coefficient is   *)
(* the other with zeros behind it.                                         *)
(***************************************************************************)
LEMMA SameWithZeros ==
  ASSUME NEW c1 \in Coef, NEW c2 \in Coef, NEW e1 \in Int, NEW e2 \in Int, NEW i \in Nat, NEW j \in Nat,
         c1 * ten[i] = c2 * ten[j], e1 - i = e2 - j
  PROVE  SameNumber(c1, e1, c2, e2)
<1>1. PICK z \in Int : z = e1 - i
  OBVIOUS
<1>2. z <= e1 /\ z <= e2 /\ e1 - z = i /\ e2 - z = j
  BY <1>1
<1>3. InUnits(c1, e1, z) = InUnits(c2, e2, z)
  BY <1>2 DEF InUnits
<1> QED BY <1>2, <1>3, SameCompares

(***************************************************************************)
(* What parse makes of a text that format writes.                          *)
(***************************************************************************)
LEMMA NumberReads ==
  ASSUME NEW minus \in BOOLEAN,
         NEW w \in Nat, NEW wl \in 1..ExpMax, w < ten[wl],
         NEW f \in Nat, NEW fl \in 0..ExpMax, f < ten[fl], f % 10 # 0 \/ (f = 0 /\ fl = 0),
         NEW v \in Exp, NEW vl \in 0..ExpMax, Abs(v) < ten[vl], v = 0 => vl = 0,
         NEW n, n = SignedBy(minus, w * ten[fl] + f), n \in Packed, n # 0 => v - fl \in PackExp,
         NEW t, t = Number(minus, Digits(w, wl), Digits(f, fl), Digits(v, vl))
  PROVE  Parse(t) = Num(n, IF n = 0 THEN 0 ELSE v - fl)
<1>1. PICK point \in BOOLEAN, mark \in BOOLEAN :
        point = (Digits(f, fl) # NoDigits) /\ mark = (Digits(v, vl) # NoDigits)
  OBVIOUS
<1>2. t = [minus |-> minus, whole |-> Digits(w, wl), point |-> point, frac |-> Digits(f, fl),
           mark |-> mark, exp |-> Digits(v, vl), rest |-> FALSE]
  BY <1>1 DEF Number
<1>3. /\ ExpMax \in Nat /\ ExpMin \in Int /\ v \in Int
      /\ Abs(w) < ten[wl] /\ Abs(f) < ten[fl]
  BY Widths DEF Exp, ExpMin, Abs
<1>4. /\ Digits(w, wl) \in Runs(Nat) /\ Digits(f, fl) \in Runs(Nat) /\ Digits(v, vl) \in Runs(Int)
  BY <1>3 DEF Runs, Digits
<1>5. t \in Scanned
  BY <1>2, <1>4 DEF Scanned
<1>6. /\ t.minus = minus /\ t.whole = Digits(w, wl) /\ t.point = point /\ t.frac = Digits(f, fl)
      /\ t.mark = mark /\ t.exp = Digits(v, vl) /\ t.rest = FALSE
  BY <1>2
<1>7. (t.frac # NoDigits => t.point) /\ (t.exp # NoDigits => t.mark)
  BY <1>1, <1>6
<1>8. /\ t.whole.value = w /\ t.whole.len = wl /\ t.frac.value = f /\ t.frac.len = fl
      /\ t.exp.value = v /\ t.exp.len = vl
  BY <1>6 DEF Digits
<1>9. Strip(t.frac).value = f /\ Strip(t.frac).len = fl
  <2>1. fl \in Nat
    BY <1>3
  <2> QED BY <1>8, <2>1, StripsNothing
<1>10. n = SignedBy(t.minus, Magnitude(t))
  BY <1>6, <1>8, <1>9 DEF Magnitude
<1>11. HasDigits(t)
  <2>1. t.point => fl # 0
    <3>1. ASSUME fl = 0 PROVE ~point
      <4>1. f < 1
        BY <3>1, TenUnfolds
      <4>2. f = 0
        BY <4>1
      <4>3. Digits(f, fl) = NoDigits
        BY <3>1, <4>2 DEF NoDigits
      <4> QED BY <1>1, <4>3
    <3> QED BY <1>6, <3>1
  <2>2. t.mark => vl # 0
    <3>1. ASSUME vl = 0 PROVE ~mark
      <4>1. Abs(v) < 1
        BY <3>1, TenUnfolds
      <4>2. v = 0
        BY <1>3, <4>1 DEF Abs
      <4>3. Digits(v, vl) = NoDigits
        BY <3>1, <4>2 DEF NoDigits
      <4> QED BY <1>1, <4>3
    <3> QED BY <1>6, <3>1
  <2> QED BY <1>3, <1>8, <2>1, <2>2 DEF HasDigits
<1>12. PICK r : r = Parse(t)
  OBVIOUS
<1>13. PICK e : e = t.exp.value - Strip(t.frac).len
  OBVIOUS
<1>14. e = v - fl
  BY <1>8, <1>9, <1>13
<1>15. /\ r.status = "ok" <=> /\ HasDigits(t) /\ ~t.rest
                              /\ n \in Packed /\ t.exp.value \in Exp /\ (n # 0 => e \in PackExp)
       /\ r.status = "ok" => r = Num(n, IF n = 0 THEN 0 ELSE e)
  BY <1>5, <1>7, <1>10, <1>12, <1>13, ParseReads
<1>16. r.status = "ok"
  BY <1>6, <1>8, <1>11, <1>14, <1>15
<1> QED BY <1>12, <1>14, <1>15, <1>16

(***************************************************************************)
(* Digits in front of others, with zeros behind both.                      *)
(***************************************************************************)
LEMMA ScalesSum ==
  ASSUME NEW w \in Int, NEW u \in Int, NEW y \in Int, NEW s \in Int
  PROVE  (w * u + y) * s = w * (u * s) + y * s
<1>1. PICK p \in Int : p = w * u
  OBVIOUS
<1>2. p * s = w * (u * s)
  BY <1>1
<1>3. (p + y) * s = p * s + y * s
  OBVIOUS
<1> QED BY <1>1, <1>2, <1>3

(***************************************************************************)
(* M has w in front of its last places digits, which are g.                *)
(***************************************************************************)
SplitAt(M, places, w, g) ==
  /\ M \in Nat /\ places \in Nat /\ w \in Nat /\ g \in Nat /\ g < ten[places]
  /\ M = w * ten[places] + g

(***************************************************************************)
(* The digits of a maximized coefficient M: one in front of the point, and *)
(* what is left without its trailing zeros.                                *)
(***************************************************************************)
LEMMA PlacesSplit ==
  ASSUME NEW M, NEW places, NEW w, NEW g, SplitAt(M, places, w, g),
         ten[places] <= M, M < 10 * ten[places], NEW f, f = PlaceFraction(g, places)
  PROVE  /\ w \in 1..9 /\ f = Digits(f.value, f.len)
         /\ f.value \in Nat /\ f.len \in 0..places /\ f.value < ten[f.len]
         /\ f.value % 10 # 0 \/ (f.value = 0 /\ f.len = 0)
         /\ (w * ten[f.len] + f.value) * ten[places - f.len] = M
<1>1. PICK P \in Nat : P = ten[places] /\ P <= M /\ M < 10 * P /\ g < P /\ M = w * P + g
  BY TenType DEF SplitAt
<1>2. M \in Nat /\ places \in Nat /\ w \in Nat /\ g \in Nat
  BY DEF SplitAt
<1>3. w \in 1..9
  <2>1. w = 0 => w * P = 0
    BY <1>1
  <2>2. 10 <= w => P * 10 <= P * w
    BY <1>1, <1>2, TimesGrows
  <2>3. P * w = w * P /\ w * P \in Nat
    BY <1>1, <1>2
  <2> QED BY <1>1, <1>2, <2>1, <2>2, <2>3
<1>4. CASE g = 0
  <2>1. f = Digits(0, 0)
    BY <1>4 DEF PlaceFraction, NoDigits
  <2>2. f.value = 0 /\ f.len = 0
    BY <2>1 DEF Digits
  <2>3. places - f.len = places /\ ten[f.len] = 1 /\ w * 1 + 0 = w
    BY <1>2, <2>2, TenUnfolds
  <2>4. (w * ten[f.len] + f.value) * ten[places - f.len] = M
    BY <1>4, <1>1, <1>2, <2>2, <2>3
  <2>5. f.value < ten[f.len]
    BY <2>2, <2>3
  <2>6. f.len \in 0..places
    BY <1>2, <2>2
  <2> QED BY <1>3, <2>1, <2>2, <2>4, <2>5, <2>6
<1>5. CASE g # 0
  <2>1. PICK d : d = Digits(g, places)
    OBVIOUS
  <2>2. f = Strip(d) /\ d.value = g /\ d.len = places
    BY <1>5, <2>1 DEF PlaceFraction, Digits
  <2>3. /\ f.len \in 0..places /\ f.value \in Nat /\ f.value < ten[f.len]
        /\ g = f.value * ten[places - f.len]
        /\ f.value # 0 /\ f.value % 10 # 0
    BY <1>5, <1>1, <1>2, <2>2, StripsZeros
  <2>4. f = Digits(f.value, f.len)
    BY <2>2 DEF Strip, Digits
  <2>5. PICK S \in Nat, U \in Nat : S = ten[places - f.len] /\ U = ten[f.len] /\ P = U * S
    <3>1. places - f.len \in Nat /\ f.len \in Nat /\ f.len <= places
      BY <1>2, <2>3
    <3>2. ten[places] = ten[f.len] * ten[places - f.len]
      BY <1>2, <3>1, TenGrows
    <3>3. ten[f.len] \in Nat /\ ten[places - f.len] \in Nat
      BY <3>1, TenType
    <3> QED BY <1>1, <3>2, <3>3
  <2>6. (w * U + f.value) * S = M
    <3>1. (w * U + f.value) * S = w * (U * S) + f.value * S
      BY <1>2, <2>3, <2>5, ScalesSum
    <3> QED BY <1>1, <2>3, <2>5, <3>1
  <2> QED BY <1>3, <2>3, <2>4, <2>5, <2>6
<1> QED BY <1>4, <1>5

(***************************************************************************)
(* A packed number is maximized with room to spare: to D + 1 or D digits.  *)
(***************************************************************************)
LEMMA MaximizedPacked ==
  ASSUME NEW c \in Packed, c # 0, NEW e \in PackExp, NEW m, m = Maximize(c, e)
  PROVE  /\ m.c \in Coef /\ m.full /\ (m.c < 0 <=> c < 0) /\ 10 * Abs(m.c) > CoefMax
         /\ \E k \in 0..D : m.c = c * ten[k] /\ m.e = e - k /\ Abs(m.c) = Abs(c) * ten[k]
         /\ \E places \in {D, D - 1} :
              /\ ToScientific(m) = ShowScientific(m, places)
              /\ places \in 0..D /\ ten[places] <= Abs(m.c) /\ Abs(m.c) < 10 * ten[places]
<1>1. c \in Coef /\ e \in Roomy /\ e \in Int
  BY PackedIsRoomy
<1>2. e \in Exp /\ e - (D + 1) >= ExpMin
  BY <1>1, RoomySuffices
<1>3. /\ m.c \in Coef /\ m.c # 0
      /\ m.full <=> IsFull(m.c)
      /\ m.c < 0 <=> c < 0
      /\ 10 * Abs(m.c) > CoefMax /\ m.full
  BY <1>1, <1>2, MaximizedNumber, MaximizedDigits
<1>4. \E k \in 0..D : m.c = c * ten[k] /\ m.e = e - k /\ Abs(m.c) = Abs(c) * ten[k]
  <2>1. PICK k \in 0..D : m.c = c * Pow10[k] /\ m.e = e - k /\ Abs(m.c) = Abs(c) * Pow10[k]
    BY <1>1, <1>2, MaximizedBy
  <2>2. k \in 0..(D + 1)
    BY WidthsAreInts
  <2> QED BY <2>1, <2>2, PowersAreTens
<1>5. /\ D \in Nat /\ D >= 2 /\ CoefMax \in Nat /\ CoefMin = -CoefMax - 1
      /\ Pow10[D] = Pow10[D - 1] * 10 /\ Pow10[D + 1] = Pow10[D] * 10 /\ CoefMax + 1 < Pow10[D + 1]
      /\ Pow10[D - 1] = ten[D - 1] /\ Pow10[D] = ten[D] /\ ten[D] \in Nat /\ ten[D] >= 1
  BY PowersOfCoef, PowersAreTens, TenType DEF CoefMin
<1>6. PICK M \in Nat : M = Abs(m.c) /\ M <= CoefMax + 1 /\ m.c \in Int
  BY <1>3, CoefIsInt, CoefMagnitude DEF CoefMin
<1>7. ten[D - 1] <= M
  BY <1>3, <1>5, <1>6, FullHasDigits
<1>8. Quot(m.c, Pow10[D]) = 0 <=> M < ten[D]
  BY <1>5, <1>6, QuotShrinks
<1>9. ToScientific(m) = IF Quot(m.c, Pow10[D]) # 0 THEN ShowScientific(m, D) ELSE ShowScientific(m, D - 1)
  BY <1>3 DEF ToScientific
<1>10. CASE M < ten[D]
  <2>1. ToScientific(m) = ShowScientific(m, D - 1)
    BY <1>8, <1>9, <1>10
  <2>2. M < 10 * ten[D - 1] /\ D - 1 \in 0..D
    <3>1. ten[D - 1] \in Nat
      BY <1>5, TenType
    <3> QED BY <1>5, <1>6, <1>10, <3>1
  <2> QED BY <1>3, <1>4, <1>6, <1>7, <2>1, <2>2
<1>11. CASE ~(M < ten[D])
  <2>1. ToScientific(m) = ShowScientific(m, D)
    BY <1>8, <1>9, <1>11
  <2>2. M < 10 * ten[D] /\ D \in 0..D /\ ten[D] <= M
    BY <1>5, <1>6, <1>11
  <2> QED BY <1>3, <1>4, <1>6, <2>1, <2>2
<1> QED BY <1>10, <1>11

(***************************************************************************)
(* n with j zeros behind it is c with k zeros behind it.                   *)
(***************************************************************************)
SameDigits(n, j, c, k) == n * ten[j] = c * ten[k]

(***************************************************************************)
(* The same number with other digits behind it: which of the two has more  *)
(* zeros decides which is the smaller coefficient.                         *)
(***************************************************************************)
LEMMA ZerosMoved ==
  ASSUME NEW n \in Nat, NEW c \in Nat, NEW j \in Nat, NEW k \in Nat, SameDigits(n, j, c, k)
  PROVE  /\ k <= j => n <= c /\ n * ten[j - k] = c
         /\ j < k => n % 10 = 0
<1>1. CASE k <= j
  <2>1. PICK K \in Nat, S \in Nat : K = ten[k] /\ S = ten[j - k] /\ K >= 1 /\ S >= 1 /\ ten[j] = K * S
    <3>1. j - k \in Nat /\ ten[j] = ten[k] * ten[j - k]
      BY <1>1, TenGrows
    <3>2. ten[k] \in Nat /\ ten[k] >= 1 /\ ten[j - k] \in Nat /\ ten[j - k] >= 1
      BY <3>1, TenType
    <3> QED BY <3>1, <3>2
  <2>2. (n * S) * K = c * K
    <3>1. n * (K * S) = (n * S) * K
      BY <2>1
    <3> QED BY <2>1, <3>1 DEF SameDigits
  <2>3. n * S = c
    <3>1. n * S \in Int /\ c \in Int
      BY <2>1
    <3> QED BY <2>1, <2>2, <3>1, FactorCompares
  <2>4. n * 1 <= n * S
    BY <2>1, TimesGrows
  <2> QED BY <1>1, <2>1, <2>3, <2>4
<1>2. CASE j < k
  <2>1. PICK i \in Nat : k = j + (i + 1)
    <3>1. k - j - 1 \in Nat /\ k = j + ((k - j - 1) + 1)
      BY <1>2
    <3> QED BY <3>1
  <2>2. PICK J \in Nat, S \in Nat : J = ten[j] /\ S = ten[i] /\ J >= 1 /\ ten[k] = J * (10 * S)
    <3>1. ten[j + (i + 1)] = ten[j] * ten[i + 1]
      <4>1. i + 1 \in Nat
        OBVIOUS
      <4> QED BY <4>1, TenAdds
    <3>3. ten[i + 1] = 10 * ten[i]
      BY TenUnfolds
    <3>2. ten[j] \in Nat /\ ten[j] >= 1 /\ ten[i] \in Nat
      BY TenType
    <3> QED BY <2>1, <3>1, <3>2, <3>3
  <2>3. PICK p \in Nat : p = c * S
    BY <2>2
  <2>4. n * J = (p * 10) * J
    BY <2>2, <2>3 DEF SameDigits
  <2>5. n = p * 10
    <3>1. p * 10 \in Int
      BY <2>3
    <3> QED BY <2>2, <2>4, <3>1, FactorCompares
  <2>6. n % 10 = 0
    BY <2>3, <2>5
  <2> QED BY <1>2, <2>6
<1> QED BY <1>1, <1>2

(***************************************************************************)
(* A sign before digits.                                                   *)
(***************************************************************************)
LEMMA SignedDigits ==
  ASSUME NEW c \in Int, NEW n \in Nat, NEW j \in Nat, NEW k \in Nat, SameDigits(n, j, Abs(c), k),
         NEW s, s = IF c < 0 THEN -n ELSE n
  PROVE  s \in Int /\ SameDigits(s, j, c, k) /\ Abs(s) = n /\ (c < 0 => s <= 0) /\ (c >= 0 => s >= 0)
<1>1. PICK S \in Nat, T \in Nat : S = ten[j] /\ T = ten[k] /\ n * S = Abs(c) * T
  BY TenType DEF SameDigits
<1>2. CASE c < 0
  <2>1. s = -n /\ Abs(c) = -c
    BY <1>2 DEF Abs
  <2>2. (-n) * S = -(n * S) /\ (-c) * T = -(c * T) /\ n * S \in Int /\ c * T \in Int
    BY <1>1
  <2> QED BY <1>1, <1>2, <2>1, <2>2 DEF Abs, SameDigits
<1>3. CASE ~(c < 0)
  BY <1>1, <1>3 DEF Abs, SameDigits
<1> QED BY <1>2, <1>3

(***************************************************************************)
(* The digits of an exponent.                                              *)
(***************************************************************************)
LEMMA ExponentDigits ==
  ASSUME NEW v \in PackExp, NEW d, d = (IF v = 0 THEN NoDigits ELSE Digits(v, Length(Abs(v))))
  PROVE  \E l \in 0..ExpMax : d = Digits(v, l) /\ Abs(v) < ten[l] /\ (v = 0 => l = 0) /\ v \in Exp
<1>1. /\ PackExpMax \in Nat /\ ExpMax \in Nat /\ D \in Nat /\ 2 * PackExpMax + 3 * (D + 1) <= ExpMax
      /\ PackExpMin = -PackExpMax - 1 /\ ExpMin = -ExpMax - 1
  BY WidthsAreInts, ExponentsFit DEF PackExpMin, ExpMin
<1>2. v \in Int /\ v \in Exp /\ Abs(v) \in Nat /\ Abs(v) <= PackExpMax + 1 /\ (v # 0 => Abs(v) >= 1)
  BY <1>1 DEF PackExp, Exp, Abs
<1>3. CASE v = 0
  <2>1. d = Digits(v, 0) /\ Abs(v) = 0
    BY <1>3 DEF NoDigits, Abs
  <2>2. Abs(v) < ten[0] /\ 0 \in 0..ExpMax
    BY <1>1, <2>1, TenUnfolds
  <2> QED BY <1>2, <2>1, <2>2
<1>4. CASE v # 0
  <2>1. PICK m \in Nat : m = Abs(v) /\ m >= 1 /\ m <= PackExpMax + 1
    BY <1>2, <1>4
  <2>2. m < ten[m] /\ m \in 1..(D + 1 + ExpMax)
    BY <1>1, <2>1, TenExceeds
  <2>3. PICK l : l = Length(m)
    OBVIOUS
  <2>4. l \in 1..m /\ m < ten[l]
    BY <2>2, <2>3, LengthCounts
  <2>5. l \in 0..ExpMax
    BY <1>1, <2>1, <2>4
  <2>6. d = Digits(v, l)
    BY <1>4, <2>1, <2>3
  <2> QED BY <1>2, <1>4, <2>1, <2>4, <2>5, <2>6
<1> QED BY <1>3, <1>4

(***************************************************************************)
(* The maximized number has k digits more, and so many places behind its   *)
(* first digit.                                                            *)
(***************************************************************************)
HasPlaces(m, c, e, k, places) ==
  /\ places \in 0..D /\ k \in 0..D
  /\ m.c = c * ten[k] /\ m.e = e - k /\ Abs(m.c) = Abs(c) * ten[k]
  /\ ten[places] <= Abs(m.c) /\ Abs(m.c) < 10 * ten[places]

(***************************************************************************)
(* A text in scientific layout is read back: it writes the digits n of the *)
(* maximized coefficient, with j zeros left out behind them.               *)
(***************************************************************************)
LEMMA ScientificShown ==
  ASSUME NEW c \in Packed, c # 0, NEW e \in PackExp, NEW m, m = Maximize(c, e),
         NEW k, NEW places, HasPlaces(m, c, e, k, places), m.e + places \in PackExp,
         NEW r, r = ShowScientific(m, places)
  PROVE  /\ r.status = "ok"
         /\ \E n \in Packed, x \in PackExp :
              Parse(r.text) = Num(n, x) /\ n # 0 /\ SameNumber(n, x, c, e)
<1>1. /\ D \in Nat /\ PackExpMax \in Nat /\ PackMax \in Nat /\ PackMax >= 10
      /\ D + 1 <= ExpMax /\ ExpMax \in Nat
      /\ PackExpMin = -PackExpMax - 1 /\ PackMin = -PackMax - 1
  BY Widths, WidthsAreInts, ExponentsFit DEF PackExpMin, PackMin
<1>2. PICK M \in Nat : M = Abs(m.c)
  <2>1. m.c \in Coef
    BY MaximizedPacked
  <2> QED BY <2>1, CoefIsInt
<1>3. c \in Int /\ c \in Coef /\ e \in Int /\ Abs(c) \in Nat
  BY PackedIsRoomy DEF Abs
<1>4. places \in Nat /\ places \in 0..(D + 1) /\ k \in Nat /\ k <= D
  BY <1>1 DEF HasPlaces
<1>5. PICK P \in Nat : P = ten[places] /\ P = Pow10[places] /\ P >= 1 /\ P <= M /\ M < 10 * P
  BY <1>2, <1>4, TenType, PowersAreTens DEF HasPlaces
<1>6. PICK w \in Nat, g \in Nat : w = M \div P /\ g = M % P /\ g < P /\ M = w * P + g
  <2>1. /\ M \div P \in Nat /\ M % P \in 0..(P - 1) /\ M = (M \div P) * P + (M % P)
    BY <1>5, DivRest
  <2> QED BY <1>5, <2>1
<1>7. PICK d : d = PlaceFraction(g, places)
  OBVIOUS
<1>8. PICK f, fl : f = d.value /\ fl = d.len
  OBVIOUS
<1>9. /\ w \in 1..9 /\ d = Digits(f, fl)
      /\ f \in Nat /\ fl \in 0..places /\ f < ten[fl]
      /\ f % 10 # 0 \/ (f = 0 /\ fl = 0)
      /\ (w * ten[fl] + f) * ten[places - fl] = M
  <2>1. /\ w \in 1..9 /\ d = Digits(d.value, d.len)
        /\ d.value \in Nat /\ d.len \in 0..places /\ d.value < ten[d.len]
        /\ d.value % 10 # 0 \/ (d.value = 0 /\ d.len = 0)
        /\ (w * ten[d.len] + d.value) * ten[places - d.len] = M
    <3>1. SplitAt(M, places, w, g) /\ ten[places] <= M /\ M < 10 * ten[places]
      BY <1>4, <1>5, <1>6 DEF SplitAt
    <3> QED BY <1>7, <3>1, PlacesSplit
  <2> QED BY <1>8, <2>1
<1>10. fl \in Nat /\ fl \in 0..ExpMax /\ fl <= places
  BY <1>1, <1>4, <1>9
<1>11. PICK v \in PackExp : v = m.e + places
  OBVIOUS
<1>12. PICK el \in 0..ExpMax :
         /\ (IF v = 0 THEN NoDigits ELSE Digits(v, Length(Abs(v)))) = Digits(v, el)
         /\ Abs(v) < ten[el] /\ (v = 0 => el = 0) /\ v \in Exp
  BY <1>11, ExponentDigits
<1>13. m.c < 0 <=> c < 0
  BY MaximizedPacked
<1>14. ShowScientific(m, places) = Shows(Number(c < 0, Digits(w, 1), Digits(f, fl), Digits(v, el)))
  <2>1. ShowScientific(m, places) =
          Shows(Number(m.c < 0, Digits(M \div P, 1), PlaceFraction(M % P, places),
                       IF v = 0 THEN NoDigits ELSE Digits(v, Length(Abs(v)))))
    BY <1>2, <1>5, <1>11 DEF ShowScientific
  <2>2. (m.c < 0) = (c < 0)
    BY <1>13
  <2>3. ShowScientific(m, places) =
          Shows(Number(c < 0, Digits(w, 1), d, Digits(v, el)))
    BY <1>6, <1>7, <1>12, <2>1, <2>2, Zenon
  <2> QED BY <1>9, <2>3, Zenon
<1>15. PICK N \in Nat : N = w * ten[fl] + f
  <2>1. ten[fl] \in Nat
    BY <1>10, TenType
  <2> QED BY <1>6, <1>9, <2>1
<1>16. PICK j \in Nat : j = places - fl
  BY <1>4, <1>10
<1>17. SameDigits(N, j, Abs(c), k)
  BY <1>2, <1>9, <1>15, <1>16 DEF HasPlaces, SameDigits
<1>18. PICK n : n = SignedBy(c < 0, N)
  OBVIOUS
<1>19. /\ n \in Int /\ n * ten[j] = c * ten[k] /\ Abs(n) = N /\ (c < 0 => n <= 0) /\ (c >= 0 => n >= 0)
  <2>1. n = IF c < 0 THEN -N ELSE N
    BY <1>18 DEF SignedBy
  <2>2. n \in Int /\ SameDigits(n, j, c, k) /\ Abs(n) = N /\ (c < 0 => n <= 0) /\ (c >= 0 => n >= 0)
    BY <1>3, <1>4, <1>15, <1>16, <1>17, <2>1, SignedDigits
  <2> QED BY <2>2 DEF SameDigits
<1>20. N >= 1
  <2>1. ten[fl] \in Nat /\ ten[fl] >= 1
    BY <1>10, TenType
  <2>2. ten[fl] * 1 <= ten[fl] * w
    BY <1>9, <2>1, TimesGrows
  <2>3. ten[fl] * w = w * ten[fl]
    BY <1>6, <2>1
  <2> QED BY <1>9, <1>15, <2>1, <2>2, <2>3
<1>21. n # 0
  BY <1>19, <1>20 DEF Abs
<1>22. k <= j => N <= Abs(c)
  BY <1>3, <1>4, <1>15, <1>16, <1>17, ZerosMoved
<1>23. j < k => fl = 0 /\ N <= 9
  <2>1. SUFFICES ASSUME j < k PROVE fl = 0 /\ N <= 9
    OBVIOUS
  <2>2. N % 10 = 0
    BY <1>3, <1>4, <1>15, <1>16, <1>17, <2>1, ZerosMoved
  <2>3. fl = 0
    <3>1. SUFFICES ASSUME fl # 0 PROVE FALSE
      OBVIOUS
    <3>2. PICK i \in Nat : fl = i + 1
      <4>1. fl - 1 \in Nat /\ fl = (fl - 1) + 1
        BY <1>10, <3>1
      <4> QED BY <4>1
    <3>3. ten[fl] = 10 * ten[i] /\ ten[i] \in Nat
      BY <3>2, TenUnfolds, TenType
    <3>4. PICK y \in Nat : y = w * ten[i]
      BY <1>6, <3>3
    <3>5. w * ten[fl] = 10 * y
      BY <1>6, <3>3, <3>4
    <3>6. N = 10 * y + f
      BY <1>15, <3>5
    <3>7. f % 10 = 0
      BY <1>9, <2>2, <3>4, <3>6
    <3> QED BY <1>9, <3>1, <3>7
  <2>4. ten[fl] = 1
    BY <2>3, TenUnfolds
  <2>5. f = 0 /\ w * 1 = w
    BY <1>9, <2>4
  <2> QED BY <1>9, <1>15, <2>3, <2>4, <2>5
<1>24. n \in Packed
  <2>1. k <= j \/ j < k
    BY <1>4, <1>16
  <2> QED BY <1>1, <1>3, <1>19, <1>22, <1>23, <2>1 DEF Packed, Abs
<1>25. v - fl = e - k + j /\ v \in Int
  BY <1>3, <1>4, <1>10, <1>11, <1>16 DEF PackExp, HasPlaces
<1>26. v - fl \in PackExp
  <2>1. CASE k <= j
    BY <1>1, <1>3, <1>4, <1>10, <1>11, <1>16, <1>25, <2>1 DEF PackExp
  <2>2. CASE ~(k <= j)
    <3>1. fl = 0
      BY <1>4, <1>16, <1>23, <2>2
    <3>2. v - fl = v
      BY <1>25, <3>1
    <3> QED BY <1>11, <3>2
  <2> QED BY <2>1, <2>2
<1>27. SameNumber(n, v - fl, c, e)
  <2>1. n \in Coef
    BY <1>24, PackedIsRoomy
  <2>2. (v - fl) - j = e - k /\ v - fl \in Int
    BY <1>3, <1>4, <1>10, <1>16, <1>25
  <2> QED BY <1>3, <1>4, <1>16, <1>19, <2>1, <2>2, SameWithZeros
<1>28. el \in Nat
  BY <1>1, <1>12
<1>29. PICK t : t = Number(c < 0, Digits(w, 1), Digits(f, fl), Digits(v, el))
  OBVIOUS
<1>30. r = Shows(t)
  BY <1>14, <1>29
<1>31. r.status = "ok" /\ r.text = t
  BY <1>30 DEF Shows
<1>32. Parse(t) = Num(n, v - fl)
  <2>1. PICK q \in BOOLEAN : q = (c < 0)
    <3>1. (c < 0) \in BOOLEAN
      BY <1>3
    <3> QED BY <3>1, Zenon
  <2>2. t = Number(q, Digits(w, 1), Digits(f, fl), Digits(v, el))
    BY <1>29, <2>1
  <2>3. n = SignedBy(q, w * ten[fl] + f)
    BY <1>15, <1>18, <2>1
  <2>4. 1 \in 1..ExpMax /\ w < ten[1] /\ w \in Nat
    <3>1. ten[1] = 10
      BY TenUnfolds
    <3> QED BY <1>1, <1>6, <1>9, <3>1
  <2>5. /\ fl \in 0..ExpMax /\ f < ten[fl] /\ (f % 10 # 0 \/ (f = 0 /\ fl = 0)) /\ f \in Nat
    BY <1>9, <1>10
  <2>6. /\ v \in Exp /\ el \in 0..ExpMax /\ Abs(v) < ten[el] /\ (v = 0 => el = 0)
    BY <1>12
  <2>7. Parse(t) = Num(n, IF n = 0 THEN 0 ELSE v - fl)
    <3>1. n \in Packed /\ (n # 0 => v - fl \in PackExp)
      BY <1>24, <1>26
    <3>2. q \in BOOLEAN
      BY <2>1
    <3> QED BY <2>2, <2>3, <2>4, <2>5, <2>6, <3>1, <3>2, NumberReads
  <2> QED BY <1>21, <2>7
<1> QED BY <1>21, <1>24, <1>26, <1>27, <1>31, <1>32

(***************************************************************************)
(* Scientific layout: a text that is read back as the number, unless the   *)
(* number has more digits in front of the point than the largest exponent. *)
(***************************************************************************)
LEMMA ScientificReads ==
  ASSUME NEW c \in Packed, c # 0, NEW e \in PackExp, NEW r, r = ToScientific(Maximize(c, e))
  PROVE  \/ /\ r.status = "ok"
            /\ \E n \in Packed, x \in PackExp :
                 Parse(r.text) = Num(n, x) /\ n # 0 /\ SameNumber(n, x, c, e)
         \/ r.status = "UnformatableExponent" /\ AtMost(1, PackExpMax + 1, Abs(c), e)
<1>1. PICK m : m = Maximize(c, e)
  OBVIOUS
<1>2. PICK k \in 0..D : m.c = c * ten[k] /\ m.e = e - k /\ Abs(m.c) = Abs(c) * ten[k]
  BY <1>1, MaximizedPacked
<1>3. PICK places \in {D, D - 1} :
        /\ r = ShowScientific(m, places)
        /\ places \in 0..D /\ ten[places] <= Abs(m.c) /\ Abs(m.c) < 10 * ten[places]
  BY <1>1, MaximizedPacked
<1>4. HasPlaces(m, c, e, k, places)
  BY <1>2, <1>3 DEF HasPlaces
<1>5. CASE m.e + places \in PackExp
  BY <1>1, <1>3, <1>4, <1>5, ScientificShown
<1>6. CASE m.e + places \notin PackExp
  <2>1. r.status = "UnformatableExponent"
    BY <1>3, <1>6 DEF ShowScientific, Unformatable, Fail
  <2>2. /\ PackExpMax \in Nat /\ PackExpMin = -PackExpMax - 1 /\ e \in Int /\ D \in Nat
        /\ k \in Nat /\ places \in Nat /\ e <= PackExpMax /\ PackExpMin <= e
    BY <1>2, <1>3, WidthsAreInts DEF PackExpMin, PackExp
  <2>3. PICK C \in Nat : C = Abs(c) /\ C >= 1
    BY PackedIsRoomy DEF Abs
  <2>4. PICK K \in Nat, P \in Nat : K = ten[k] /\ P = ten[places] /\ K >= 1 /\ P >= 1
                                   /\ P <= C * K /\ C * K < 10 * P
    <3>1. ten[k] \in Nat /\ ten[k] >= 1 /\ ten[places] \in Nat /\ ten[places] >= 1
      BY <2>2, TenType
    <3> QED BY <1>2, <1>3, <2>3, <3>1
  <2>5. k <= places
    <3>1. SUFFICES ASSUME ~(k <= places) PROVE FALSE
      OBVIOUS
    <3>2. places < k /\ places <= k
      BY <2>2, <3>1
    <3>3. 10 * P <= K
      BY <2>2, <2>4, <3>2, TenGrows
    <3>4. K * 1 <= K * C /\ K * C = C * K
      BY <2>3, <2>4, TimesGrows
    <3> QED BY <2>3, <2>4, <3>3, <3>4
  <2>6. PICK d \in Nat : d = places - k
    BY <2>2, <2>5
  <2>7. m.e + places = e + d
    BY <1>2, <2>2, <2>6
  <2>8. PackExpMax + 1 <= e + d
    BY <1>6, <2>2, <2>7 DEF PackExp
  <2>9. ten[d] <= C
    <3>1. PICK S \in Nat : S = ten[d] /\ P = K * S
      <4>1. ten[places] = ten[k] * ten[places - k]
        BY <2>2, <2>5, TenGrows
      <4> QED BY <2>4, <2>6, <4>1, TenType
    <3>2. S * K <= C * K
      BY <2>3, <2>4, <3>1
    <3>3. ~(C < S)
      <4>1. C \in Int /\ S \in Int /\ (C * K < S * K <=> C < S)
        BY <2>3, <2>4, <3>1, FactorCompares
      <4>2. C * K \in Int /\ S * K \in Int
        BY <2>3, <2>4, <3>1
      <4> QED BY <3>2, <4>1, <4>2
    <3> QED BY <2>3, <3>1, <3>3
  <2>10. PICK u \in Nat : u = PackExpMax + 1 - e
    BY <2>2
  <2>11. ten[u] <= C
    <3>1. u <= d
      BY <2>2, <2>8, <2>10
    <3>2. ten[u] <= ten[d] /\ ten[u] \in Nat /\ ten[d] \in Nat
      BY <3>1, TenGrows, TenType
    <3> QED BY <2>3, <2>9, <3>2
  <2>12. ~LessNumber(C, e, 1, PackExpMax + 1)
    <3>1. /\ InUnits(C, e, e) \in Int /\ InUnits(1, PackExpMax + 1, e) \in Int
          /\ LessNumber(C, e, 1, PackExpMax + 1) <=> InUnits(C, e, e) < InUnits(1, PackExpMax + 1, e)
      <4>1. C \in Int /\ 1 \in Int /\ e <= e /\ e <= PackExpMax + 1 /\ PackExpMax + 1 \in Int
        BY <2>2, <2>3
      <4> QED BY <2>2, <4>1, LessCompares
    <3>2. InUnits(C, e, e) = C
      <4>1. e - e = 0 /\ ten[0] = 1 /\ C * 1 = C
        BY <2>2, <2>3, TenUnfolds
      <4> QED BY <4>1 DEF InUnits
    <3>3. InUnits(1, PackExpMax + 1, e) = ten[u]
      <4>1. ten[u] \in Nat
        BY TenType
      <4>2. 1 * ten[u] = ten[u]
        BY <4>1
      <4>3. PICK p : p = PackExpMax + 1
        OBVIOUS
      <4>4. InUnits(1, p, e) = 1 * ten[p - e]
        BY Zenon DEF InUnits
      <4>5. p - e = u
        BY <2>2, <2>10, <4>3
      <4> QED BY <4>2, <4>3, <4>4, <4>5
    <3> QED BY <2>3, <2>11, <3>1, <3>2, <3>3
  <2> QED BY <2>1, <2>3, <2>12 DEF AtMost
<1> QED BY <1>5, <1>6

(***************************************************************************)
(* Plain layout: the digits n of the coefficient without trailing zeros,   *)
(* and the zeros or the point that its exponent asks for.                  *)
(***************************************************************************)
LEMMA PlainShown ==
  ASSUME NEW c \in Packed, c # 0, NEW e \in PackExp, PlainFits(c, e),
         NEW r, r = ToPlain(c, e)
  PROVE  /\ r.status = "ok"
         /\ \E n \in Packed, x \in PackExp :
              Parse(r.text) = Num(n, x) /\ n # 0 /\ SameNumber(n, x, c, e)
<1>1. /\ PackExpMax \in Nat /\ PackExpMin = -PackExpMax - 1 /\ ExpMax \in Nat /\ ExpMin = -ExpMax - 1
      /\ PackExpMax < ExpMax /\ PackMax \in Nat /\ PackMin = -PackMax - 1 /\ PackD \in Nat /\ D \in Nat
      /\ PackD + 1 <= D /\ D + 1 <= ExpMax
  BY Widths, WidthsAreInts, WidthsFitDecimals, ExponentsFit DEF PackExpMin, ExpMin, PackMin
<1>2. c \in Coef /\ c \in Int /\ e \in Int /\ PackExpMin <= e /\ e <= PackExpMax
  BY <1>1, PackedIsRoomy DEF PackExp
<1>3. PICK v \in 1..(PackMax + 1) : v = Abs(c)
  BY <1>1, <1>2 DEF Packed, Abs
<1>4. PICK z : z = TrailingZeros(WholeDigits(v))
  OBVIOUS
<1>5. PICK n : n = v \div ten[z]
  OBVIOUS
<1>6. z \in Nat /\ n \in Nat /\ n # 0 /\ n % 10 # 0 /\ v = n * ten[z]
  BY <1>3, <1>4, <1>5, ZerosOf
<1>7. PICK q \in BOOLEAN : q = (c < 0)
  <2>1. (c < 0) \in BOOLEAN
    BY <1>2
  <2> QED BY <2>1, Zenon
<1>8. PICK x \in Int : x = e + z
  BY <1>2, <1>6
<1>9. r = ShowPlain(q, n, x)
  <2>1. r = ShowPlain(c < 0, n, e + z)
    BY <1>3, <1>4, <1>5 DEF ToPlain
  <2> QED BY <1>7, <1>8, <2>1
<1>10. NoDigits = Digits(0, 0) /\ 0 < ten[0] /\ Abs(0) < ten[0] /\ 0 \in 0..ExpMax /\ 0 \in Exp /\ 0 \in PackExp
  BY <1>1, TenUnfolds DEF NoDigits, Abs, Exp, PackExp
<1>11. CASE x >= 0
  <2>1. x \in Nat
    BY <1>11
  <2>2. PICK w \in Nat : w = n * ten[x]
    BY <1>6, <2>1, TenType
  <2>3. \E i \in Nat, j \in Nat : SameDigits(w, i, v, j) /\ 0 - i = e - j /\ (i > 0 => j = 0) /\ (j > 0 => j = e)
    <3>1. CASE e <= 0
      <4>1. PICK i \in Nat : i = -e /\ x + i = z /\ 0 - i = e - 0
        BY <1>2, <1>6, <1>8, <3>1
      <4>2. ten[x + i] = ten[x] * ten[i] /\ ten[x] \in Nat /\ ten[i] \in Nat
        BY <2>1, TenAdds, TenType
      <4>5. PICK X \in Nat, I \in Nat : X = ten[x] /\ I = ten[i] /\ ten[z] = X * I
        BY <4>1, <4>2
      <4>6. (n * X) * I = n * (X * I)
        BY <1>6
      <4>3. w * ten[i] = v
        BY <1>6, <2>2, <4>5, <4>6
      <4>4. ten[0] = 1 /\ v * 1 = v
        BY TenUnfolds
      <4> QED BY <4>1, <4>3, <4>4 DEF SameDigits
    <3>2. CASE e > 0
      <4>1. e \in Nat /\ x = z + e /\ 0 - 0 = e - e
        BY <1>2, <1>6, <1>8, <3>2
      <4>2. ten[z + e] = ten[z] * ten[e] /\ ten[z] \in Nat /\ ten[e] \in Nat
        BY <1>6, <4>1, TenAdds, TenType
      <4>5. PICK Z \in Nat, E \in Nat : Z = ten[z] /\ E = ten[e] /\ ten[x] = Z * E
        BY <4>1, <4>2, TenType
      <4>6. (n * Z) * E = n * (Z * E)
        BY <1>6
      <4>3. w = v * ten[e]
        BY <1>6, <2>2, <4>5, <4>6
      <4>4. ten[0] = 1 /\ w * 1 = w
        BY <2>2, TenUnfolds
      <4> QED BY <4>1, <4>3, <4>4 DEF SameDigits
    <3> QED BY <1>2, <3>1, <3>2
  <2>4. PICK i \in Nat, j \in Nat : SameDigits(w, i, v, j) /\ 0 - i = e - j /\ (i > 0 => j = 0) /\ (j > 0 => j = e)
    BY <2>3
  <2>5. w <= v \/ w <= PackMax
    <3>1. CASE j = 0
      <4>1. j <= i
        BY <3>1
      <4> QED BY <1>3, <2>2, <2>4, <4>1, ZerosMoved
    <3>2. CASE j > 0
      <4>1. e = j /\ e > 0 /\ i = 0
        BY <1>2, <2>4, <3>2
      <4>2. e <= PackD /\ v <= PackMax \div Pow10[e]
        BY <1>3, <4>1 DEF PlainFits
      <4>3. e \in 0..(D + 1) /\ e \in Nat
        BY <1>1, <2>4, <4>1, <4>2
      <4>4. PICK T \in Nat : T = Pow10[e] /\ T = ten[e] /\ T >= 1
        BY <4>3, PowersAreTens, TenType
      <4>5. T * v <= PackMax
        BY <1>1, <1>3, <4>2, <4>4, DivAtLeast
      <4>6. w = v * T
        <5>1. w * ten[0] = v * ten[j] /\ ten[0] = 1 /\ w * 1 = w
          BY <2>2, <2>4, <4>1, TenUnfolds DEF SameDigits
        <5> QED BY <4>1, <4>4, <5>1
      <4>7. v * T = T * v
        BY <1>3, <4>4
      <4> QED BY <4>5, <4>6, <4>7
    <3> QED BY <2>4, <3>1, <3>2
  <2>6. w \in 0..(PackMax + 1)
    BY <1>1, <1>3, <2>2, <2>5
  <2>7. PICK l : l = Length(w)
    OBVIOUS
  <2>8. l \in 1..ExpMax /\ w < ten[l]
    BY <2>6, <2>7, PackedLength
  <2>9. PICK t : t = Number(q, Digits(w, l), Digits(0, 0), Digits(0, 0))
    OBVIOUS
  <2>10. r = Shows(t)
    BY <1>9, <1>10, <1>11, <2>2, <2>7, <2>9 DEF ShowPlain, WholeDigits
  <2>11. PICK s : s = IF c < 0 THEN -w ELSE w
    OBVIOUS
  <2>12. s = SignedBy(q, w * ten[0] + 0)
    <3>1. w * ten[0] + 0 = w
      BY <2>2, TenUnfolds
    <3> QED BY <1>7, <2>11, <3>1 DEF SignedBy
  <2>13. s \in Int /\ SameDigits(s, i, c, j) /\ Abs(s) = w /\ (c < 0 => s <= 0) /\ (c >= 0 => s >= 0)
    BY <1>2, <1>3, <2>2, <2>4, <2>11, SignedDigits
  <2>14. w # 0
    <3>1. ten[x] \in Nat /\ ten[x] >= 1
      BY <2>1, TenType
    <3>2. ten[x] * 1 <= ten[x] * n /\ ten[x] * n = n * ten[x]
      BY <1>6, <3>1, TimesGrows
    <3> QED BY <2>2, <3>1, <3>2
  <2>15. s # 0 /\ s \in Packed
    BY <1>1, <1>2, <1>3, <2>2, <2>5, <2>13, <2>14 DEF Abs, Packed
  <2>16. 0 - 0 = 0
    OBVIOUS
  <2>17. Parse(t) = Num(s, IF s = 0 THEN 0 ELSE 0 - 0)
    <3>1. s \in Packed /\ (s # 0 => 0 - 0 \in PackExp)
      BY <1>10, <2>15, <2>16
    <3>2. 0 \in Nat /\ (0 % 10 # 0 \/ (0 = 0 /\ 0 = 0)) /\ (0 = 0 => 0 = 0)
      OBVIOUS
    <3>3. w \in Nat /\ l \in 1..ExpMax /\ w < ten[l] /\ q \in BOOLEAN
      BY <2>8
    <3> QED BY <1>10, <2>9, <2>12, <3>1, <3>2, <3>3, NumberReads
  <2>18. Parse(t) = Num(s, 0)
    BY <2>15, <2>16, <2>17
  <2>19. SameNumber(s, 0, c, e)
    <3>1. s \in Coef
      BY <2>15, PackedIsRoomy
    <3> QED BY <1>2, <2>4, <2>13, <3>1, SameWithZeros DEF SameDigits
  <2>20. r.status = "ok" /\ r.text = t
    BY <2>10 DEF Shows
  <2> QED BY <1>10, <2>15, <2>18, <2>19, <2>20
<1>12. CASE x < 0
  <2>1. PICK y \in Nat : y = -x /\ y >= 1 /\ y <= PackExpMax + 1 /\ 0 - y = x
    BY <1>1, <1>2, <1>6, <1>8, <1>12
  <2>2. PICK Y \in Nat, i \in Nat : Y = ten[y] /\ Y >= 1 /\ y = i + 1 /\ Y = 10 * ten[i] /\ ten[i] \in Nat
    <3>1. y - 1 \in Nat /\ y = (y - 1) + 1
      BY <2>1
    <3>2. ten[(y - 1) + 1] = 10 * ten[y - 1] /\ ten[y - 1] \in Nat
      BY <3>1, TenUnfolds, TenType
    <3> QED BY <2>1, <3>1, <3>2, TenType
  <2>3. PICK w \in Nat, g \in Nat : w = n \div Y /\ g = n % Y /\ g < Y /\ n = w * Y + g
    <3>1. n \div Y \in Nat /\ n % Y \in 0..(Y - 1) /\ n = (n \div Y) * Y + (n % Y)
      BY <1>6, <2>2, DivRest
    <3> QED BY <2>2, <3>1
  <2>4. g % 10 # 0
    <3>1. PICK p \in Nat : p = w * ten[i]
      BY <2>2, <2>3
    <3>2. w * Y = 10 * p
      <4>1. PICK I \in Nat : I = ten[i]
        BY <2>2
      <4>2. w * (10 * I) = 10 * (w * I)
        OBVIOUS
      <4> QED BY <2>2, <3>1, <4>1, <4>2
    <3> QED BY <1>6, <2>3, <3>1, <3>2
  <2>5. n <= v /\ w <= n
    <3>1. PICK Z \in Nat : Z = ten[z] /\ Z >= 1
      BY <1>6, TenType
    <3>2. n * 1 <= n * Z
      BY <1>6, <3>1, TimesGrows
    <3>3. w * 1 <= w * Y
      <4>1. 1 <= Y
        BY <2>2
      <4> QED BY <4>1, TimesGrows
    <3>4. w * Y \in Nat
      OBVIOUS
    <3> QED BY <1>6, <2>3, <3>1, <3>2, <3>3, <3>4
  <2>6. w \in 0..(PackMax + 1)
    BY <1>1, <1>3, <1>6, <2>3, <2>5
  <2>7. PICK l : l = Length(w)
    OBVIOUS
  <2>8. l \in 1..ExpMax /\ w < ten[l]
    BY <2>6, <2>7, PackedLength
  <2>9. PICK t : t = Number(q, Digits(w, l), Digits(g, y), Digits(0, 0))
    OBVIOUS
  <2>10. r = Shows(t)
    <3>1. ~(x >= 0)
      BY <1>12
    <3> QED BY <1>9, <1>10, <2>1, <2>2, <2>3, <2>7, <2>9, <3>1 DEF ShowPlain, WholeDigits
  <2>11. PICK s : s = IF c < 0 THEN -n ELSE n
    OBVIOUS
  <2>12. s = SignedBy(q, w * ten[y] + g)
    BY <1>7, <2>2, <2>3, <2>11 DEF SignedBy
  <2>13. SameDigits(n, z, v, 0)
    BY <1>3, <1>6, TenUnfolds DEF SameDigits
  <2>14. s \in Int /\ SameDigits(s, z, c, 0) /\ Abs(s) = n /\ (c < 0 => s <= 0) /\ (c >= 0 => s >= 0)
    <3>1. SameDigits(n, z, Abs(c), 0) /\ n \in Nat /\ z \in Nat /\ 0 \in Nat
      BY <1>3, <1>6, <2>13
    <3> QED BY <1>2, <2>11, <3>1, SignedDigits
  <2>15. s # 0 /\ s \in Packed
    BY <1>1, <1>2, <1>3, <1>6, <2>5, <2>14 DEF Abs, Packed
  <2>16. x \in PackExp
    BY <1>1, <1>2, <1>6, <1>8, <1>12 DEF PackExp
  <2>17. y \in 0..ExpMax /\ g < ten[y] /\ (g % 10 # 0 \/ (g = 0 /\ y = 0))
    BY <1>1, <2>1, <2>2, <2>3, <2>4
  <2>18. Parse(t) = Num(s, IF s = 0 THEN 0 ELSE 0 - y)
    <3>1. s \in Packed /\ (s # 0 => 0 - y \in PackExp)
      BY <2>1, <2>15, <2>16
    <3>2. w \in Nat /\ l \in 1..ExpMax /\ w < ten[l] /\ q \in BOOLEAN
      BY <2>8
    <3>3. g \in Nat /\ 0 = 0 => 0 = 0
      OBVIOUS
    <3> QED BY <1>10, <2>9, <2>12, <2>17, <3>1, <3>2, <3>3, NumberReads
  <2>19. Parse(t) = Num(s, x)
    BY <2>1, <2>15, <2>18
  <2>20. SameNumber(s, x, c, e)
    <3>1. s \in Coef
      BY <2>15, PackedIsRoomy
    <3>2. x - z = e - 0
      BY <1>2, <1>6, <1>8
    <3>3. s * ten[z] = c * ten[0]
      BY <2>14 DEF SameDigits
    <3> QED BY <1>2, <1>6, <3>1, <3>2, <3>3, SameWithZeros
  <2>21. r.status = "ok" /\ r.text = t
    BY <2>10 DEF Shows
  <2> QED BY <2>15, <2>16, <2>19, <2>20, <2>21
<1> QED BY <1>8, <1>11, <1>12

(***************************************************************************)
(* What plain layout refuses: small exponents and the integers an int224   *)
(* does not hold.                                                          *)
(***************************************************************************)
LEMMA PlainRefuses ==
  ASSUME NEW c \in Packed, c # 0, NEW e \in PackExp, ~PlainFits(c, e)
  PROVE  e < -MaxPlain \/ (e > 0 /\ LessNumber(PackMax, 0, Abs(c), e))
<1>1. /\ PackMax \in Nat /\ PackD \in Nat /\ D \in Nat /\ PackD + 1 <= D + 1
      /\ PackMax < Pow10[PackD + 1] - 1 /\ MaxPlain \in Nat /\ PackD <= MaxPlain
  BY WidthsAreInts, WidthsFitDecimals, MaxPlainAssumption
<1>2. c \in Int /\ e \in Int
  BY PackedIsRoomy
<1>3. PICK v \in Nat : v = Abs(c) /\ v >= 1
  BY <1>2 DEF Abs
<1>4. SUFFICES ASSUME ~(e < -MaxPlain) PROVE e > 0 /\ LessNumber(PackMax, 0, v, e)
  BY <1>3
<1>5. e > 0 /\ (e > PackD \/ ~(v <= PackMax \div Pow10[e]))
  BY <1>1, <1>2, <1>3, <1>4 DEF PlainFits
<1>6. PICK T \in Nat : T = ten[e] /\ T >= 1
  BY <1>2, <1>5, TenType
<1>7. PackMax < v * T
  <2>1. CASE e > PackD
    <3>1. PackD + 1 \in 0..(D + 1) /\ PackD + 1 \in Nat /\ PackD + 1 <= e /\ e \in Nat
      BY <1>1, <1>2, <1>5, <2>1
    <3>2. ten[PackD + 1] = Pow10[PackD + 1] /\ ten[PackD + 1] <= T /\ ten[PackD + 1] \in Nat
      BY <1>6, <3>1, PowersAreTens, TenGrows, TenType
    <3>3. T * 1 <= T * v /\ T * v = v * T
      BY <1>3, <1>6, TimesGrows
    <3> QED BY <1>1, <1>3, <1>6, <3>2, <3>3
  <2>2. CASE ~(e > PackD)
    <3>1. e \in 0..(D + 1)
      BY <1>1, <1>2, <1>5, <2>2
    <3>2. T = Pow10[e]
      BY <1>6, <3>1, PowersAreTens
    <3>3. PackMax \div T < v
      <4>1. PackMax \div T \in Nat
        BY <1>1, <1>6, DivBounds
      <4> QED BY <1>3, <1>5, <2>2, <3>2, <4>1
    <3>4. PackMax < T * v /\ T * v = v * T
      BY <1>1, <1>3, <1>6, <3>3, DivAtLeast
    <3> QED BY <3>4
  <2> QED BY <2>1, <2>2
<1>8. /\ InUnits(PackMax, 0, 0) \in Int /\ InUnits(v, e, 0) \in Int
      /\ LessNumber(PackMax, 0, v, e) <=> InUnits(PackMax, 0, 0) < InUnits(v, e, 0)
  <2>1. PackMax \in Int /\ v \in Int /\ 0 \in Int /\ 0 <= 0 /\ 0 <= e
    BY <1>1, <1>2, <1>3, <1>5
  <2> QED BY <1>2, <2>1, LessCompares
<1>9. InUnits(PackMax, 0, 0) = PackMax /\ InUnits(v, e, 0) = v * T
  <2>1. 0 - 0 = 0 /\ ten[0] = 1 /\ PackMax * 1 = PackMax /\ e - 0 = e
    BY <1>1, <1>2, TenUnfolds
  <2> QED BY <1>6, <2>1 DEF InUnits
<1> QED BY <1>5, <1>7, <1>8, <1>9

(***************************************************************************)
(* Zero is shown as 0 in either layout.                                    *)
(***************************************************************************)
LEMMA ZeroReads ==
  ASSUME NEW q \in BOOLEAN, NEW w \in Nat, w = 0, NEW l \in Nat, l = 1,
         NEW t, t = Number(q, Digits(w, l), NoDigits, NoDigits)
  PROVE  Parse(t) = Num(0, 0)
<1>1. PICK s : s = 0
  OBVIOUS
<1>2. /\ NoDigits = Digits(0, 0) /\ 0 < ten[0] /\ Abs(0) < ten[0] /\ w < ten[l]
      /\ 0 \in 0..ExpMax /\ l \in 1..ExpMax /\ 0 \in Exp /\ 0 \in PackExp /\ s \in Packed
  BY <1>1, TenUnfolds, Widths, WidthsAreInts
  DEF NoDigits, Abs, Exp, ExpMin, Packed, PackMin, PackExp, PackExpMin
<1>3. s = SignedBy(q, w * ten[0] + 0)
  <2>1. PICK u \in Nat : u = w * ten[0] + 0 /\ u = 0
    BY TenUnfolds
  <2>2. -u = u
    BY <2>1
  <2> QED BY <1>1, <2>1, <2>2 DEF SignedBy
<1>4. t = Number(q, Digits(w, l), Digits(0, 0), Digits(0, 0))
  BY <1>2
<1>5. Parse(t) = Num(s, IF s = 0 THEN 0 ELSE 0 - 0)
  <2>1. (0 % 10 # 0 \/ (0 = 0 /\ 0 = 0)) /\ (0 = 0 => 0 = 0) /\ (s # 0 => 0 - 0 \in PackExp)
    BY <1>1
  <2>2. 0 \in Nat
    OBVIOUS
  <2> QED BY <1>2, <1>3, <1>4, <2>1, <2>2, NumberReads
<1> QED BY <1>1, <1>5

(***************************************************************************)
(* The numbers a layout cannot show.                                       *)
(***************************************************************************)
NotShown(c, e, scientific) ==
  IF scientific THEN AtMost(1, PackExpMax + 1, Abs(c), e)
  ELSE e < -MaxPlain \/ (e > 0 /\ LessNumber(PackMax, 0, Abs(c), e))

(***************************************************************************)
(* toDecimalString: the text it returns parses to the float it came from,  *)
(* and it refuses only what the layout cannot show.                        *)
(***************************************************************************)
LEMMA StringReads ==
  ASSUME NEW x, x.c \in Packed, x.e \in PackExp, NEW scientific \in BOOLEAN,
         NEW r, r = ToDecimalString(x, scientific)
  PROVE  \/ /\ r.status = "ok"
            /\ Parse(r.text).status = "ok"
            /\ SameNumber(Parse(r.text).c, Parse(r.text).e, x.c, x.e)
         \/ r.status = "UnformatableExponent" /\ x.c # 0 /\ NotShown(x.c, x.e, scientific)
<1>1. CASE x.c = 0
  <2>1. PICK q \in BOOLEAN, w \in Nat, l \in Nat : q = FALSE /\ w = 0 /\ l = 1
    OBVIOUS
  <2>2. PICK t : t = Number(q, Digits(w, l), NoDigits, NoDigits) /\ r = Shows(t)
    BY <1>1, <2>1 DEF ToDecimalString
  <2>3. r.status = "ok" /\ r.text = t
    BY <2>2 DEF Shows
  <2>4. Parse(t).status = "ok" /\ Parse(t).c = 0 /\ Parse(t).e = 0
    <3>1. Parse(t) = Num(0, 0)
      BY <2>1, <2>2, ZeroReads
    <3> QED BY <3>1 DEF Num
  <2>5. SameNumber(0, 0, x.c, x.e)
    BY <1>1 DEF SameNumber
  <2> QED BY <2>3, <2>4, <2>5
<1>2. CASE x.c # 0 /\ scientific
  <2>1. r = ToScientific(Maximize(x.c, x.e))
    BY <1>2 DEF ToDecimalString
  <2>2. \/ /\ r.status = "ok"
           /\ \E n \in Packed, y \in PackExp :
                Parse(r.text) = Num(n, y) /\ n # 0 /\ SameNumber(n, y, x.c, x.e)
        \/ r.status = "UnformatableExponent" /\ AtMost(1, PackExpMax + 1, Abs(x.c), x.e)
    BY <1>2, <2>1, ScientificReads
  <2>3. CASE r.status = "ok" /\ \E n \in Packed, y \in PackExp :
               Parse(r.text) = Num(n, y) /\ n # 0 /\ SameNumber(n, y, x.c, x.e)
    BY <2>3 DEF Num
  <2>4. CASE r.status = "UnformatableExponent" /\ AtMost(1, PackExpMax + 1, Abs(x.c), x.e)
    BY <1>2, <2>4 DEF NotShown
  <2> QED BY <2>2, <2>3, <2>4
<1>3. CASE x.c # 0 /\ ~scientific
  <2>1. r = ToPlain(x.c, x.e)
    BY <1>3 DEF ToDecimalString
  <2>2. CASE PlainFits(x.c, x.e)
    <3>1. /\ r.status = "ok"
          /\ \E n \in Packed, y \in PackExp :
               Parse(r.text) = Num(n, y) /\ n # 0 /\ SameNumber(n, y, x.c, x.e)
      BY <1>3, <2>1, <2>2, PlainShown
    <3> QED BY <3>1 DEF Num
  <2>3. CASE ~PlainFits(x.c, x.e)
    <3>1. r = Unformatable
      BY <2>1, <2>3 DEF ToPlain
    <3>2. r.status = "UnformatableExponent"
      BY <3>1 DEF Unformatable, Fail
    <3>3. x.e < -MaxPlain \/ (x.e > 0 /\ LessNumber(PackMax, 0, Abs(x.c), x.e))
      BY <1>3, <2>3, PlainRefuses
    <3> QED BY <1>3, <3>2, <3>3 DEF NotShown
  <2> QED BY <2>2, <2>3
<1> QED BY <1>1, <1>2, <1>3

(***************************************************************************)
(* The comparisons of two floats compare the numbers.                      *)
(***************************************************************************)
LEMMA OrdersCompare ==
  ASSUME NEW x, x.c \in Packed, x.e \in PackExp, NEW y, y.c \in Packed, y.e \in PackExp
  PROVE  /\ Lt(x, y) <=> LessNumber(x.c, x.e, y.c, y.e)
         /\ Gt(x, y) <=> LessNumber(y.c, y.e, x.c, x.e)
         /\ Eq(x, y) <=> SameNumber(x.c, x.e, y.c, y.e)
         /\ Rescaled(x, y)[1] <= Rescaled(x, y)[2] <=> ~LessNumber(y.c, y.e, x.c, x.e)
         /\ Rescaled(x, y)[1] >= Rescaled(x, y)[2] <=> ~LessNumber(x.c, x.e, y.c, y.e)
<1>1. /\ x.c \in Coef /\ y.c \in Coef /\ x.c \in Int /\ y.c \in Int /\ x.e \in Int /\ y.e \in Int
      /\ x.e \in Exp /\ y.e \in Exp
  BY PackedIsRoomy, RoomySuffices
<1>2. PICK r : r = Rescaled(x, y)
  OBVIOUS
<1>3. /\ r[1] < r[2] <=> SmallerNumber(x.c, x.e, y.c, y.e)
      /\ r[1] = r[2] <=> SameNumber(x.c, x.e, y.c, y.e)
      /\ r[1] \in Int /\ r[2] \in Int
  BY <1>1, <1>2, RescalingComparesExactly, RescalingIsInteger DEF Rescaled
<1>4. PICK z \in Int : z <= x.e /\ z <= y.e
  <2>1. x.e <= y.e \/ y.e <= x.e
    BY <1>1
  <2> QED BY <1>1, <2>1
<1>5. PICK X \in Int, Y \in Int : X = InUnits(x.c, x.e, z) /\ Y = InUnits(y.c, y.e, z)
  BY <1>1, <1>4, LessCompares
<1>6. /\ LessNumber(x.c, x.e, y.c, y.e) <=> X < Y
      /\ LessNumber(y.c, y.e, x.c, x.e) <=> Y < X
  BY <1>1, <1>4, <1>5, LessCompares
<1>7. /\ SameNumber(x.c, x.e, y.c, y.e) <=> X = Y
      /\ SmallerNumber(x.c, x.e, y.c, y.e) <=> LessNumber(x.c, x.e, y.c, y.e)
  BY <1>1, <1>4, <1>5, SameCompares
<1> QED BY <1>2, <1>3, <1>5, <1>6, <1>7 DEF Lt, Gt, Eq

(***************************************************************************)
(* The magnitude of a float is a float, unless its coefficient is the one  *)
(* whose negation an int224 does not hold.                                 *)
(***************************************************************************)
LEMMA MagnitudePacks ==
  ASSUME NEW c \in Packed, NEW e \in PackExp, NEW m, m = Packed224(AbsOf(c, e))
  PROVE  IF c = PackMin THEN m.status \in {"ok", "ExponentOverflow"}
         ELSE /\ m.status = "ok" /\ m.c = Abs(c) /\ m.c \in Packed /\ m.e \in PackExp
              /\ c # 0 => m.e = e
<1>1. c \in Int /\ PackMax \in Nat /\ PackMin = -PackMax - 1 /\ 0 \in PackExp
  BY PackedIsRoomy, WidthsAreInts DEF PackMin, PackExp, PackExpMin
<1>2. CASE ~(c < 0)
  <2>1. m = Packed224(Num(c, e))
    BY <1>2 DEF AbsOf
  <2>2. m.status = "ok" /\ m.c = c /\ m.e = (IF c = 0 THEN 0 ELSE e)
    BY <2>1, PackedPacks
  <2>3. c # PackMin /\ c = Abs(c)
    BY <1>1, <1>2 DEF Abs
  <2> QED BY <1>1, <2>2, <2>3
<1>3. CASE c < 0
  <2>1. m = Packed224(Num(-c, e))
    <3>1. Minus(c, e) = Num(-c, e)
      BY PackedIsRoomy DEF Minus
    <3> QED BY <1>3, <3>1 DEF AbsOf
  <2>2. CASE c = PackMin
    <3>1. Good(Num(-c, e))
      BY DEF Good, Num
    <3>2. m.status \in {"ok", "ExponentOverflow", "ExponentUnderflow"}
      BY <2>1, <3>1, PackingIsGood DEF Good
    <3>3. m.status # "ExponentUnderflow"
      BY <2>1, NegationRange
    <3> QED BY <2>2, <3>2, <3>3
  <2>3. CASE c # PackMin
    <3>1. PICK n \in Packed : n = -c /\ n # 0 /\ n = Abs(c)
      BY <1>1, <1>3, <2>3 DEF Packed, Abs
    <3>2. m.status = "ok" /\ m.c = n /\ m.e = (IF n = 0 THEN 0 ELSE e)
      BY <2>1, <3>1, PackedPacks
    <3> QED BY <2>3, <3>1, <3>2
  <2> QED BY <2>2, <2>3
<1> QED BY <1>2, <1>3

(***************************************************************************)
(* The layout that a magnitude asks for.                                   *)
(***************************************************************************)
AsksForScientific(c, e, limits) == \/ LessNumber(Abs(c), e, limits.min.c, limits.min.e)
                                   \/ LessNumber(limits.max.c, limits.max.e, Abs(c), e)

(***************************************************************************)
(* format: the limits must be in order; then the text parses to the float  *)
(* it came from, unless the layout cannot show it, or the magnitude of the *)
(* one coefficient without a negation is out of range.                     *)
(***************************************************************************)
LEMMA FormatReads ==
  ASSUME NEW x \in PackedFloat, NEW limits \in FormatLimits, NEW r, r = FormatWithin(x, limits)
  PROVE  /\ r.status = "ScientificMinNotLessThanMax" <=> ~Lt(limits.min, limits.max)
         /\ r.status = "ok" => /\ Parse(r.text).status = "ok"
                               /\ SameNumber(Parse(r.text).c, Parse(r.text).e, x.c, x.e)
         /\ r.status = "UnformatableExponent" =>
              x.c # 0 /\ (x.c # PackMin => NotShown(x.c, x.e, AsksForScientific(x.c, x.e, limits)))
         /\ r.status \notin {"ok", "UnformatableExponent", "ScientificMinNotLessThanMax"} =>
              r.status = "ExponentOverflow" /\ x.c = PackMin
<1>1. PICK c \in Packed, e \in PackExp : c = x.c /\ e = x.e
  BY DEF PackedFloat
<1>2. /\ limits.min.c \in Packed /\ limits.min.e \in PackExp
      /\ limits.max.c \in Packed /\ limits.max.e \in PackExp
  BY DEF FormatLimits, PackedFloat
<1>3. CASE ~Lt(limits.min, limits.max)
  <2>1. r.status = "ScientificMinNotLessThanMax"
    BY <1>3 DEF FormatWithin, Fail
  <2> QED BY <1>3, <2>1
<1>4. CASE Lt(limits.min, limits.max)
  <2>1. PICK m : m = Packed224(AbsOf(c, e))
    OBVIOUS
  <2>2. r = FormatByMagnitude(x, m, limits)
    BY <1>1, <1>4, <2>1 DEF FormatWithin
  <2>3. IF c = PackMin THEN m.status \in {"ok", "ExponentOverflow"}
        ELSE /\ m.status = "ok" /\ m.c = Abs(c) /\ m.c \in Packed /\ m.e \in PackExp
             /\ c # 0 => m.e = e
    BY <2>1, MagnitudePacks
  <2>4. CASE m.status = "ok"
    <3>1. PICK s \in BOOLEAN : s = (Lt(m, limits.min) \/ Gt(m, limits.max))
      <4>1. (Lt(m, limits.min) \/ Gt(m, limits.max)) \in BOOLEAN
        OBVIOUS
      <4> QED BY <4>1, Zenon
    <3>2. r = ToDecimalString(x, s)
      BY <2>2, <2>4, <3>1 DEF FormatByMagnitude
    <3>3. \/ /\ r.status = "ok"
             /\ Parse(r.text).status = "ok"
             /\ SameNumber(Parse(r.text).c, Parse(r.text).e, x.c, x.e)
          \/ r.status = "UnformatableExponent" /\ x.c # 0 /\ NotShown(x.c, x.e, s)
      BY <1>1, <3>2, StringReads
    <3>4. c # PackMin /\ c # 0 => s = AsksForScientific(c, e, limits)
      <4>1. SUFFICES ASSUME c # PackMin, c # 0
                     PROVE  s = AsksForScientific(c, e, limits)
        OBVIOUS
      <4>2. m.c = Abs(c) /\ m.e = e /\ m.c \in Packed /\ m.e \in PackExp
        BY <2>3, <4>1
      <4>3. Lt(m, limits.min) <=> LessNumber(m.c, m.e, limits.min.c, limits.min.e)
        BY <1>2, <4>2, OrdersCompare
      <4>4. Gt(m, limits.max) <=> LessNumber(limits.max.c, limits.max.e, m.c, m.e)
        BY <1>2, <4>2, OrdersCompare
      <4>5. AsksForScientific(c, e, limits) \in BOOLEAN
        BY Zenon DEF AsksForScientific
      <4>6. s <=> AsksForScientific(c, e, limits)
        BY <3>1, <4>2, <4>3, <4>4, Zenon DEF AsksForScientific
      <4> QED BY <4>5, <4>6
    <3> QED BY <1>1, <1>4, <3>3, <3>4
  <2>5. CASE m.status # "ok"
    <3>1. r = m
      BY <2>2, <2>5 DEF FormatByMagnitude
    <3>2. r.status = "ExponentOverflow" /\ c = PackMin
      BY <2>3, <2>5, <3>1
    <3> QED BY <1>1, <1>4, <3>2
  <2> QED BY <2>4, <2>5
<1> QED BY <1>3, <1>4

-----------------------------------------------------------------------------

(***************************************************************************)
(* The digits of r are those of a dividend u * 10^f, cut, over y * 10^ey.  *)
(***************************************************************************)
DigitsOfQuotient(r, x, y, ey, u, f) ==
  \E k \in 0..D : /\ Sign(r.c) = Sign(x) * Sign(y) /\ Abs(r.c) >= PackMax \div 10
                  /\ CutQuotient(Abs(r.c), r.e, u * Pow10[k], Abs(y), f - k - ey)

(***************************************************************************)
(* The digits of a quotient: u * 10^f is the dividend in any of its forms  *)
(* of up to D digits less than the maximized one.                          *)
(***************************************************************************)
LEMMA QuotientPacks ==
  ASSUME NEW x \in Coef, x # 0, NEW ex \in Roomy, NEW y \in Packed, y # 0, NEW ey \in PackExp,
         NEW u \in Nat, NEW f \in Int, NEW i \in 0..D,
         Maximize(x, ex).e = f - i, Abs(Maximize(x, ex).c) = u * Pow10[i],
         NEW r, r = Packed224(Div(x, ex, y, ey)), r.status = "ok"
  PROVE  /\ r.c \in Packed /\ r.e \in PackExp
         /\ DigitsOfQuotient(r, x, y, ey, u, f)
<1>1. /\ y \in Coef /\ y \in Int /\ x \in Int /\ ex \in Exp /\ ey \in Exp /\ ex - ey <= ExpMax - (D + 1)
      /\ ex - (D + 1) >= ExpMin /\ ey - (D + 1) >= ExpMin /\ ex \in Int /\ ey \in Int /\ D \in Nat
  BY PackedIsRoomy, RoomySuffices, CoefIsInt, WidthsAreInts
<1>2. PICK A, B, n : A = Maximize(x, ex) /\ B = Maximize(y, ey) /\ n = Div(x, ex, y, ey)
  OBVIOUS
<1>a. A.e = f - i /\ Abs(A.c) = u * Pow10[i]
  BY <1>2
<1>3. /\ A.c \in Coef /\ A.e \in Int /\ A.c # 0 /\ (A.c < 0 <=> x < 0) /\ A.full /\ 10 * Abs(A.c) > CoefMax
      /\ A.e <= ex /\ ex - D <= A.e
  <2>1. A.c \in Coef /\ A.c # 0
    BY <1>1, <1>2, MaximizedNumber
  <2>2. /\ A.e \in Int /\ (A.c < 0 <=> x < 0) /\ A.full /\ 10 * Abs(A.c) > CoefMax
        /\ A.e <= ex /\ ex - D <= A.e
    BY <1>1, <1>2, MaximizedDigits
  <2> QED BY <2>1, <2>2
<1>4. /\ B.c \in Coef /\ B.e \in Int /\ B.c # 0 /\ (B.c < 0 <=> y < 0)
      /\ B.e <= ey /\ ey - D <= B.e
  <2>1. B.c \in Coef /\ B.c # 0
    BY <1>1, <1>2, MaximizedNumber
  <2>2. B.e \in Int /\ (B.c < 0 <=> y < 0) /\ B.e <= ey /\ ey - D <= B.e
    BY <1>1, <1>2, MaximizedDigits
  <2> QED BY <2>1, <2>2
<1>5. n.status = "ok" /\ QuotientIsCut(n, A, B)
  <2>1. n.status = "ok"
    BY <1>2, PackedFrom
  <2>2. n.status = "ok" => QuotientIsCut(n, A, B)
    BY <1>1, <1>2, <1>3, DivTruncates
  <2> QED BY <2>1, <2>2
<1>6. PICK p : p = PackArithmeticResult(n.c, n.e) /\ p.status = "ok" /\ r.c = p.c /\ r.e = p.e
  BY <1>2, PackedFrom
<1>8. PICK j \in 0..D : B.e = ey - j /\ Abs(B.c) = Abs(y) * Pow10[j]
  BY <1>1, <1>2, MaximizedBy
<1>9. PICK v \in Nat : v = Abs(y) /\ v >= 1
  BY <1>1 DEF Abs
<1>10. A.e - B.e <= ExpMax - 2 * (D + 1) /\ ExpMin + D + 2 < A.e - B.e
  <2>1. ex \in (-(PackExpMax + D + 1))..PackExpMax /\ ey \in (-PackExpMax - 1)..PackExpMax /\ PackExpMax \in Nat
    BY Widths DEF Roomy, PackExp, PackExpMin
  <2>2. A.e - B.e <= PackExpMax - (-PackExpMax - 1 - D)
    BY <1>1, <1>3, <1>4, <2>1
  <2>3. (-(PackExpMax + D + 1)) - D - PackExpMax <= A.e - B.e
    BY <1>1, <1>3, <1>4, <2>1
  <2>4. ExpMax \in Nat /\ ExpMin = -ExpMax - 1 /\ 2 * PackExpMax + 3 * (D + 1) <= ExpMax
    BY ExponentsFit, Widths DEF ExpMin
  <2> QED BY <1>1, <1>3, <1>4, <2>1, <2>2, <2>3, <2>4
<1>11. /\ p.c \in Packed /\ p.e \in PackExp /\ p.c # 0 /\ (p.c < 0 <=> (A.c < 0) # (B.c < 0))
       /\ Abs(p.c) >= PackMax \div 10
       /\ \E k \in 0..D : CutQuotient(Abs(p.c), p.e, u * Pow10[k], v, A.e + i - (B.e + j) - k)
  <2>1. Abs(A.c) = u * Pow10[i] /\ Abs(B.c) = v * Pow10[j]
    BY <1>8, <1>9, <1>a
  <2> QED BY <1>3, <1>4, <1>5, <1>6, <1>9, <1>10, <2>1, PackedQuotient
<1>12. p.c \in Int
  BY <1>11, PackedIsRoomy
<1>13. Sign(p.c) = Sign(x) * Sign(y)
  BY <1>1, <1>3, <1>4, <1>11, <1>12, SignOfProduct
<1>14. \A k \in 0..D : A.e + i - (B.e + j) - k = f - k - ey
  BY <1>1, <1>8, <1>a
<1>15. PICK k \in 0..D : CutQuotient(Abs(p.c), p.e, u * Pow10[k], v, A.e + i - (B.e + j) - k)
  BY <1>11
<1>16. CutQuotient(Abs(r.c), r.e, u * Pow10[k], Abs(y), f - k - ey)
  BY <1>6, <1>9, <1>14, <1>15
<1> QED BY <1>6, <1>11, <1>12, <1>13, <1>16 DEF DigitsOfQuotient

-----------------------------------------------------------------------------

(***************************************************************************)
(* Its digits alone, as the contract compares them with the dividend's.    *)
(***************************************************************************)
LEMMA QuotientTruncates ==
  ASSUME NEW x \in Coef, x # 0, NEW ex \in Roomy, NEW y \in Packed, y # 0, NEW ey \in PackExp,
         NEW u \in Nat, NEW f \in Int, NEW i \in 0..D,
         Maximize(x, ex).e = f - i, Abs(Maximize(x, ex).c) = u * Pow10[i],
         NEW r, r = Packed224(Div(x, ex, y, ey)), r.status = "ok"
  PROVE  \E k \in 0..D : /\ Sign(r.c) = Sign(x) * Sign(y) /\ Abs(r.c) >= PackMax \div 10
                          /\ CutQuotient(Abs(r.c), r.e, u * Pow10[k], Abs(y), f - k - ey)
<1>1. DigitsOfQuotient(r, x, y, ey, u, f)
  BY QuotientPacks
<1> QED BY <1>1 DEF DigitsOfQuotient

-----------------------------------------------------------------------------

(***************************************************************************)
(* What the methods mean.                                                  *)
(***************************************************************************)

(***************************************************************************)
(* No float is less than itself, and of two at most one is the smaller.    *)
(***************************************************************************)
LEMMA LessIsAnOrder ==
  ASSUME NEW x, x.c \in Packed, x.e \in PackExp, NEW y, y.c \in Packed, y.e \in PackExp
  PROVE  /\ ~LessNumber(x.c, x.e, x.c, x.e)
         /\ LessNumber(x.c, x.e, y.c, y.e) => ~LessNumber(y.c, y.e, x.c, x.e)
<1>1. PICK c \in Int, e \in Int, d \in Int, g \in Int : c = x.c /\ e = x.e /\ d = y.c /\ g = y.e
  BY PackedIsRoomy
<1>2. PICK z \in Int : z <= e /\ z <= g
  OBVIOUS
<1>3. /\ InUnits(c, e, z) \in Int /\ InUnits(d, g, z) \in Int
      /\ LessNumber(c, e, d, g) <=> InUnits(c, e, z) < InUnits(d, g, z)
  BY <1>2, LessCompares
<1>4. LessNumber(d, g, c, e) <=> InUnits(d, g, z) < InUnits(c, e, z)
  BY <1>2, LessCompares
<1>5. LessNumber(c, e, c, e) <=> InUnits(c, e, z) < InUnits(c, e, z)
  BY <1>2, LessCompares
<1> QED BY <1>1, <1>3, <1>4, <1>5

(***************************************************************************)
(* The sign of a number decides how it compares with zero.                 *)
(***************************************************************************)
LEMMA LessThanZero ==
  ASSUME NEW c \in Int, NEW e \in Int
  PROVE  /\ LessNumber(c, e, 0, 0) <=> c < 0
         /\ LessNumber(0, 0, c, e) <=> 0 < c
<1>1. PICK z \in Int : z <= e /\ z <= 0
  OBVIOUS
<1>2. PICK u \in Nat : u = ten[e - z] /\ u >= 1
  BY <1>1, TenType
<1>3. InUnits(c, e, z) = c * u /\ InUnits(0, 0, z) = 0 * u
  <2>1. ten[0 - z] \in Nat
    BY <1>1, TenType
  <2>2. 0 * ten[0 - z] = 0 /\ 0 * u = 0
    BY <2>1
  <2> QED BY <1>2, <2>2 DEF InUnits
<1>4. (c * u < 0 * u <=> c < 0) /\ (0 * u < c * u <=> 0 < c)
  BY <1>2, FactorCompares
<1>5. LessNumber(c, e, 0, 0) <=> InUnits(c, e, z) < InUnits(0, 0, z)
  BY <1>1, LessCompares
<1>6. LessNumber(0, 0, c, e) <=> InUnits(0, 0, z) < InUnits(c, e, z)
  BY <1>1, LessCompares
<1> QED BY <1>3, <1>4, <1>5, <1>6

(***************************************************************************)
(* An integer within one unit of another, and zero only with it, has its   *)
(* sign.                                                                   *)
(***************************************************************************)
LEMMA SignIsKept ==
  ASSUME NEW n \in Int, NEW t \in Nat, t >= 1, NEW m \in Int, NEW u \in Nat, u >= 1,
         m = 0 <=> n = 0, NEW a \in Int, a = n * t, NEW b \in Int, b = m * u, Abs(a - b) < u
  PROVE  (m < 0 <=> n < 0) /\ (0 < m <=> 0 < n)
<1>1. a = n * t /\ b = m * u
  OBVIOUS
<1>2. a - b < u /\ b - a < u
  BY <1>1 DEF Abs
<1>3. n < 0 => a < 0
  <2>1. n * t < 0 * t <=> n < 0
    BY FactorCompares
  <2>2. 0 * t = 0
    OBVIOUS
  <2> QED BY <1>1, <2>1, <2>2
<1>4. 0 < n => 0 < a
  <2>1. 0 * t < n * t <=> 0 < n
    BY FactorCompares
  <2>2. 0 * t = 0
    OBVIOUS
  <2> QED BY <1>1, <2>1, <2>2
<1>5. m < 0 => b <= -u
  <2>1. ASSUME m < 0 PROVE b <= -u
    <3>1. PICK k \in Nat : k = -m /\ k >= 1
      BY <2>1
    <3>2. u * 1 <= u * k
      BY <3>1, TimesGrows
    <3>3. u * k = -b
      BY <1>1, <3>1
    <3> QED BY <3>2, <3>3
  <2> QED BY <2>1
<1>6. 0 < m => b >= u
  <2>1. ASSUME 0 < m PROVE b >= u
    <3>1. m \in Nat /\ 1 <= m
      BY <2>1
    <3>2. u * 1 <= u * m
      BY <3>1, TimesGrows
    <3> QED BY <1>1, <3>2
  <2> QED BY <2>1
<1> QED BY <1>2, <1>3, <1>4, <1>5, <1>6

(***************************************************************************)
(* A difference is negative when the first number is the smaller, and      *)
(* positive when it is the larger.                                         *)
(***************************************************************************)
LEMMA SignOfDifference ==
  ASSUME NEW x, x.c \in Packed, x.e \in PackExp, NEW y, y.c \in Packed, y.e \in PackExp,
         NEW r, r = BinaryResult("sub", x, y), r.status = "ok"
  PROVE  /\ LessNumber(r.c, r.e, 0, 0) <=> LessNumber(x.c, x.e, y.c, y.e)
         /\ LessNumber(0, 0, r.c, r.e) <=> LessNumber(y.c, y.e, x.c, x.e)
         /\ LessNumber(r.c, r.e, 0, 0) \in BOOLEAN /\ LessNumber(0, 0, r.c, r.e) \in BOOLEAN
<1>1. PICK S : S = IF x.e < y.e THEN x.e ELSE y.e
  OBVIOUS
<1>2. PICK f \in {"add", "sub"} : f = "sub"
  OBVIOUS
<1>3. PICK n : n = x.c * ten[x.e - S] + (IF f = "sub" THEN -y.c ELSE y.c) * ten[y.e - S]
  OBVIOUS
<1>4. /\ n \in Int /\ S \in PackExp
      /\ r.c \in Packed /\ r.e \in PackExp
      /\ r.c = 0 <=> n = 0
      /\ Abs(n * ten[S - Low] - InUnits(r.c, r.e, Low)) < ten[r.e - Low]
  BY <1>1, <1>2, <1>3, SumAnswer
<1>5. PICK c \in Int, e \in Int, d \in Int, g \in Int, s \in Int, m \in Int, h \in Int :
        /\ c = x.c /\ e = x.e /\ d = y.c /\ g = y.e /\ s = S /\ m = r.c /\ h = r.e
  BY <1>4, PackedIsRoomy
<1>6. s <= e /\ s <= g
  BY <1>1, <1>5
<1>7. PICK v \in Int, w \in Int : v = InUnits(c, e, s) /\ w = InUnits(d, g, s)
  BY <1>6, LessCompares
<1>8. n = v - w
  <2>1. n = c * ten[e - s] + (-d) * ten[g - s]
    BY <1>2, <1>3, <1>5
  <2>2. PICK a \in Nat, b \in Nat : a = ten[e - s] /\ b = ten[g - s]
    BY <1>6, TenType
  <2>3. (-d) * b = -(d * b)
    BY <2>2
  <2> QED BY <1>7, <2>1, <2>2, <2>3 DEF InUnits
<1>9. PICK t \in Nat, u \in Nat : t = ten[S - Low] /\ u = ten[r.e - Low] /\ t >= 1 /\ u >= 1
  <2>1. s \in Roomy /\ h \in Roomy
    BY <1>4, <1>5, PackedIsRoomy
  <2>2. Low \in Int /\ Low <= s /\ Low <= h
    BY <2>1, LowIsBelow
  <2>3. S - Low \in Nat /\ r.e - Low \in Nat
    BY <1>5, <2>2
  <2> QED BY <2>3, TenType
<1>10. Abs(n * t - m * u) < u /\ (m = 0 <=> n = 0)
  BY <1>4, <1>5, <1>9 DEF InUnits
<1>11. (m < 0 <=> n < 0) /\ (0 < m <=> 0 < n)
  <2>1. PICK a \in Int, b \in Int : a = n * t /\ b = m * u
    BY <1>4, <1>5, <1>9
  <2>2. Abs(a - b) < u
    BY <1>10, <2>1
  <2>3. n \in Int /\ t >= 1 /\ u >= 1 /\ (m = 0 <=> n = 0)
    BY <1>4, <1>9, <1>10
  <2> QED BY <2>1, <2>2, <2>3, SignIsKept
<1>12. LessNumber(c, e, d, g) <=> v < w
  BY <1>6, <1>7, LessCompares
<1>13. LessNumber(d, g, c, e) <=> w < v
  BY <1>6, <1>7, LessCompares
<1>14. (LessNumber(m, h, 0, 0) <=> m < 0) /\ (LessNumber(0, 0, m, h) <=> 0 < m)
  BY LessThanZero
<1>15. LessNumber(m, h, 0, 0) \in BOOLEAN /\ LessNumber(0, 0, m, h) \in BOOLEAN
  BY LessIsTruth
<1> QED BY <1>5, <1>8, <1>11, <1>12, <1>13, <1>14, <1>15

(***************************************************************************)
(* A number that is at least another in some units is not less.            *)
(***************************************************************************)
LEMMA NotFewer ==
  ASSUME NEW m \in Nat, NEW y \in Nat, NEW s \in Int, NEW p \in Int, NEW u \in Nat, NEW w \in Nat,
         y * ten[w] <= m * ten[u], s - u + w >= p
  PROVE  ~LessNumber(m, s, y, p)
<1>1. PICK z \in Int : z = p - w /\ z <= s /\ z <= p /\ p - z = w /\ s - z \in Nat /\ u <= s - z
  OBVIOUS
<1>2. PICK U \in Nat, W \in Nat, V \in Nat : U = ten[u] /\ W = ten[w] /\ V = ten[s - z] /\ U <= V
  BY <1>1, TenType, TenGrows
<1>3. m * U <= m * V
  BY <1>2, TimesGrows
<1>4. InUnits(m, s, z) = m * V /\ InUnits(y, p, z) = y * W
  BY <1>1, <1>2 DEF InUnits
<1>5. y * W <= m * V
  BY <1>2, <1>3
<1> QED BY <1>1, <1>4, <1>5, LessCompares

(***************************************************************************)
(* A quotient cut off is below one if the dividend is below the divisor.   *)
(***************************************************************************)
LEMMA QuotientBelowOne ==
  ASSUME NEW x \in Nat, NEW y \in Nat, y >= 1, NEW s \in Int, NEW q, NEW f, CutOff(q, f, x, y, s),
         LessNumber(x, s, y, 0)
  PROVE  LessNumber(q, f, 1, 0)
<1>0. PICK i \in Nat, j \in Nat : q = (x * ten[i]) \div (y * ten[j]) /\ f = s - i + j
  BY DEF CutOff
<1>1. PICK X \in Nat, J \in Nat : X = x * ten[i] /\ J = ten[j] /\ J >= 1
  BY TenType
<1>2. PICK Y \in Nat : Y = y * J /\ Y >= 1
  <2>1. y * 1 <= y * J
    BY <1>1, TimesGrows
  <2> QED BY <1>1, <2>1
<1>3. q \in Nat /\ Y * q <= X /\ f \in Int
  <2>1. q = X \div Y
    BY <1>0, <1>1, <1>2
  <2>2. q \in Nat /\ Y * q <= X
    BY <1>2, <2>1, DivBounds
  <2>3. f \in Int
    BY <1>0
  <2> QED BY <2>2, <2>3
<1>4. PICK k \in Nat, g \in Nat : f = g - k /\ (f < 0 => g = 0) /\ (f >= 0 => k = 0)
  <2>1. CASE f < 0
    <3>1. -f \in Nat /\ f = 0 - (-f)
      BY <1>3, <2>1
    <3> QED BY <2>1, <3>1
  <2>2. CASE f >= 0
    BY <1>3, <2>2
  <2> QED BY <1>3, <2>1, <2>2
<1>5. SUFFICES ASSUME ~LessNumber(q, f, 1, 0) PROVE FALSE
  OBVIOUS
<1>6. PICK K \in Nat, G \in Nat : K = ten[k] /\ G = ten[g] /\ K >= 1 /\ G >= 1
  BY TenType
<1>7. K <= q
  <2>1. PICK z \in Int : z = -k
    OBVIOUS
  <2>2. z <= f /\ z <= 0 /\ f - z = g /\ 0 - z = k
    BY <1>3, <1>4, <2>1
  <2>3. InUnits(q, f, z) = q * G /\ InUnits(1, 0, z) = 1 * K
    BY <1>6, <2>2 DEF InUnits
  <2>4. LessNumber(q, f, 1, 0) <=> InUnits(q, f, z) < InUnits(1, 0, z)
    BY <1>3, <2>2, LessCompares
  <2>5. K <= q * G
    BY <1>3, <1>5, <1>6, <2>3, <2>4
  <2>6. CASE f < 0
    <3>1. G = 1
      BY <1>4, <1>6, <2>6, TenUnfolds
    <3> QED BY <1>3, <2>5, <3>1
  <2>7. CASE f >= 0
    <3>1. K = 1
      BY <1>4, <1>6, <2>7, TenUnfolds
    <3>2. q # 0
      BY <1>6, <2>5, <3>1
    <3> QED BY <1>3, <3>1, <3>2
  <2> QED BY <1>3, <2>6, <2>7
<1>8. Y * K <= X
  <2>1. Y * K <= Y * q
    BY <1>3, <1>6, <1>7, TimesGrows
  <2>2. Y * K \in Int /\ Y * q \in Int
    BY <1>3, <1>6
  <2> QED BY <1>1, <1>3, <2>1, <2>2
<1>9. Y * K = y * ten[j + k]
  <2>1. ten[j + k] = J * K
    BY <1>1, <1>6, TenAdds
  <2>2. (y * J) * K = y * (J * K)
    BY <1>1, <1>6
  <2> QED BY <1>2, <2>1, <2>2
<1>10. y * ten[j + k] <= x * ten[i]
  BY <1>1, <1>8, <1>9
<1>11. s - i + (j + k) >= 0 /\ j + k \in Nat
  BY <1>0, <1>4
<1>12. ~LessNumber(x, s, y, 0)
  BY <1>10, <1>11, NotFewer
<1> QED BY <1>12

(***************************************************************************)
(* Numbers compare as they do with both exponents moved.                   *)
(***************************************************************************)
LEMMA LessMoves ==
  ASSUME NEW x \in Int, NEW y \in Int, NEW ex \in Int, NEW ey \in Int
  PROVE  LessNumber(x, ex - ey, y, 0) <=> LessNumber(x, ex, y, ey)
<1>1. PICK z \in Int : z <= ex /\ z <= ey
  OBVIOUS
<1>2. PICK w \in Int, s \in Int : /\ w = z - ey /\ s = ex - ey /\ w <= s /\ w <= 0
                                  /\ s - w = ex - z /\ 0 - w = ey - z
  BY <1>1
<1>3. InUnits(x, s, w) = InUnits(x, ex, z) /\ InUnits(y, 0, w) = InUnits(y, ey, z)
  BY <1>2 DEF InUnits
<1>4. LessNumber(x, s, y, 0) <=> InUnits(x, s, w) < InUnits(y, 0, w)
  BY <1>2, LessCompares
<1>5. LessNumber(x, ex, y, ey) <=> InUnits(x, ex, z) < InUnits(y, ey, z)
  BY <1>1, LessCompares
<1> QED BY <1>2, <1>3, <1>4, <1>5

(***************************************************************************)
(* div of a smaller number by a larger one is below one.                   *)
(***************************************************************************)
LEMMA DivisionMeant ==
  ASSUME NEW x, x.c \in Packed, x.e \in PackExp, NEW y, y.c \in Packed, y.e \in PackExp,
         NEW r, r = BinaryResult("div", x, y), r.status = "ok",
         LessNumber(Abs(x.c), x.e, Abs(y.c), y.e)
  PROVE  LessNumber(Abs(r.c), r.e, 1, 0)
<1>1. PICK u, ex, v, ey, n : u = x.c /\ ex = x.e /\ v = y.c /\ ey = y.e /\ n = Div(u, ex, v, ey)
  OBVIOUS
<1>2. /\ u \in Packed /\ v \in Packed /\ u \in Coef /\ u \in Int /\ v \in Int
      /\ ex \in PackExp /\ ey \in PackExp /\ ex \in Roomy /\ ex \in Int /\ ey \in Int
      /\ u \in Coef /\ v \in Coef /\ ey \in Roomy /\ ex \in Exp /\ D \in Nat
  BY <1>1, PackedIsRoomy, RoomySuffices, WidthsAreInts
<1>3. r = Packed224(n)
  BY <1>1 DEF BinaryResult
<1>4. n.status = "ok"
  BY <1>3, PackedFrom
<1>5. v # 0
  <2>1. n.status = IF v = 0 THEN "DivisionByZero" ELSE "ok"
    BY <1>1, <1>2, DivIsGood
  <2> QED BY <1>4, <2>1
<1>6. CASE u = 0
  <2>1. n = Num(0, 0)
    BY <1>1, <1>5, <1>6 DEF Div, MaximizedZero
  <2>2. PICK w \in Packed, h \in PackExp : w = 0 /\ h = 0
    BY Widths DEF Packed, PackMin, PackExp, PackExpMin
  <2>3. r.c = 0 /\ r.e = 0
    BY <1>3, <2>1, <2>2, PackedPacks
  <2>4. LessNumber(0, 0, 1, 0)
    BY LessThanZero
  <2>5. Abs(r.c) = 0
    BY <2>3 DEF Abs
  <2> QED BY <2>3, <2>4, <2>5
<1>7. CASE u # 0
  <2>1. PICK i \in 0..D : Maximize(u, ex).e = ex - i /\ Abs(Maximize(u, ex).c) = Abs(u) * Pow10[i]
    BY <1>2, <1>7, MaximizedBy
  <2>2. PICK a \in Nat, b \in Nat : a = Abs(u) /\ b = Abs(v) /\ b >= 1
    BY <1>2, <1>5 DEF Abs
  <2>3. Abs(Maximize(u, ex).c) = a * Pow10[i]
    BY <2>1, <2>2
  <2>4. PICK k \in 0..D : CutQuotient(Abs(r.c), r.e, a * Pow10[k], b, ex - k - ey)
    BY <1>1, <1>2, <1>3, <1>5, <1>7, <2>1, <2>2, <2>3, QuotientTruncates
  <2>10. PICK g \in Int, s \in Int : g = ex - k - ey /\ s = ex - ey /\ s = g + k
    BY <1>2
  <2>11. PICK j \in 0..D : j = 0
    BY <1>2
  <2>12. PICK q, f : q = Abs(r.c) /\ f = r.e
    OBVIOUS
  <2>5. /\ q = Abs(r.c) /\ f = r.e /\ j = 0
        /\ g = ex - k - ey /\ s = ex - ey /\ s = g + k - j
    BY <2>10, <2>11, <2>12
  <2>6. b = b * Pow10[j] /\ CutQuotient(q, f, a * Pow10[k], b, g)
    <3>1. Pow10[0] = ten[0] /\ ten[0] = 1 /\ b * 1 = b
      BY <1>2, PowersAreTens, TenUnfolds
    <3> QED BY <2>4, <2>5, <3>1
  <2>7. CutOff(q, f, a, b, s)
    <3>1. PICK m, n1 : m = a * Pow10[k] /\ n1 = b * Pow10[j]
      OBVIOUS
    <3>2. CutQuotient(q, f, m, n1, g)
      BY <2>6, <3>1
    <3> QED BY <2>5, <3>1, <3>2, CutIsScaled
  <2>8. LessNumber(a, s, b, 0)
    <3>1. LessNumber(a, ex, b, ey)
      BY <1>1, <2>2
    <3>2. LessNumber(a, ex - ey, b, 0) <=> LessNumber(a, ex, b, ey)
      BY <1>2, LessMoves
    <3> QED BY <2>5, <3>1, <3>2
  <2>9. LessNumber(q, f, 1, 0)
    BY <2>2, <2>7, <2>8, QuotientBelowOne
  <2> QED BY <2>5, <2>9
<1> QED BY <1>6, <1>7

(***************************************************************************)
(* In units of the least exponent: the larger exponent, the larger the     *)
(* number's magnitude.                                                     *)
(***************************************************************************)
LEMMA LargestUnits ==
  ASSUME NEW c \in Packed, NEW e \in PackExp, NEW u, u = InUnits(c, e, PackExpMin),
         NEW v, v = InUnits(PackMax, PackExpMax, PackExpMin),
         NEW w, w = InUnits(PackMin, PackExpMax, PackExpMin)
  PROVE  u \in Int /\ v \in Int /\ w \in Int /\ w <= u /\ u <= v
<1>1. /\ c \in Int /\ e \in Int /\ PackExpMin \in Int /\ PackExpMax \in Nat /\ PackMax \in Nat
      /\ PackExpMin = -PackExpMax - 1 /\ PackMin = -PackMax - 1 /\ -PackMax - 1 <= c /\ c <= PackMax
      /\ PackExpMin <= e /\ e <= PackExpMax
  BY Widths DEF Packed, PackMin, PackExp, PackExpMin
<1>2. PICK m \in Nat, n \in Nat : m = e - PackExpMin /\ n = PackExpMax - PackExpMin /\ m <= n
  BY <1>1
<1>3. PICK s \in Nat, t \in Nat : s = ten[m] /\ t = ten[n] /\ s <= t
  BY <1>2, TenType, TenGrows
<1>4. u = c * s /\ v = PackMax * t /\ w = PackMin * t
  BY <1>2, <1>3 DEF InUnits
<1>5. PICK k \in Nat : k = PackMax + 1 /\ PackMin = -k
  BY <1>1
<1>6. PICK g \in Nat, h \in Nat, l \in Nat : g = PackMax * s /\ h = k * s /\ l = k * t
  BY <1>1
<1>7. g <= v /\ h <= l /\ w = -l /\ v \in Int
  <2>1. PackMax * s <= PackMax * t /\ k * s <= k * t
    BY <1>1, <1>3, TimesGrows
  <2>2. (-k) * t = -(k * t) /\ PackMax * t \in Int
    BY <1>1
  <2> QED BY <1>4, <1>5, <1>6, <2>1, <2>2
<1>8. u \in Int /\ u <= g /\ -h <= u
  <2>1. s * c <= s * PackMax /\ s * (-k) <= s * c
    BY <1>1, <1>5, TimesGrows
  <2>2. s * c = c * s /\ s * PackMax = PackMax * s /\ s * (-k) = -(k * s) /\ c * s \in Int
    BY <1>1
  <2> QED BY <1>4, <1>6, <2>1, <2>2
<1> QED BY <1>6, <1>7, <1>8

(***************************************************************************)
(* The largest float, and the most negative one.                           *)
(***************************************************************************)
LEMMA LargestFloats ==
  ASSUME NEW x, x.c \in Packed, x.e \in PackExp
  PROVE  ~LessNumber(PackMax, PackExpMax, x.c, x.e) /\ ~LessNumber(x.c, x.e, PackMin, PackExpMax)
<1>1. PICK c \in Packed, e \in PackExp : c = x.c /\ e = x.e
  OBVIOUS
<1>2. PICK u, v, w : /\ u = InUnits(c, e, PackExpMin) /\ v = InUnits(PackMax, PackExpMax, PackExpMin)
                     /\ w = InUnits(PackMin, PackExpMax, PackExpMin)
  OBVIOUS
<1>3. u \in Int /\ v \in Int /\ w \in Int /\ w <= u /\ u <= v
  BY <1>2, LargestUnits
<1>4. /\ c \in Int /\ e \in Int /\ PackExpMin \in Int /\ PackExpMax \in Int /\ PackMax \in Int /\ PackMin \in Int
      /\ PackExpMin <= e /\ PackExpMin <= PackExpMax
  BY Widths DEF Packed, PackMin, PackExp, PackExpMin
<1>5. LessNumber(PackMax, PackExpMax, c, e) <=> v < u
  BY <1>2, <1>4, LessCompares
<1>6. LessNumber(c, e, PackMin, PackExpMax) <=> u < w
  BY <1>2, <1>4, LessCompares
<1> QED BY <1>1, <1>3, <1>5, <1>6

(***************************************************************************)
(* A float beside zero is at least one unit of the least exponent away.    *)
(***************************************************************************)
LEMMA LeastUnits ==
  ASSUME NEW c \in Packed, NEW e \in PackExp, NEW u, u = InUnits(c, e, PackExpMin)
  PROVE  u \in Int /\ (0 < c => 1 <= u) /\ (c < 0 => u <= -1)
<1>1. c \in Int /\ e \in Int /\ PackExpMin \in Int /\ PackExpMin <= e
  BY Widths DEF Packed, PackMin, PackExp, PackExpMin
<1>2. PICK m \in Nat : m = e - PackExpMin
  BY <1>1
<1>3. PICK s \in Nat : s = ten[m] /\ 1 <= s
  BY TenType
<1>4. u = c * s
  BY <1>2, <1>3 DEF InUnits
<1>5. u \in Int
  BY <1>1, <1>4
<1>6. 0 < u <=> 0 < c
  <2>1. 0 * s < c * s <=> 0 < c
    BY <1>1, <1>3, FactorCompares
  <2> QED BY <1>4, <2>1
<1>7. u < 0 <=> c < 0
  <2>1. c * s < 0 * s <=> c < 0
    BY <1>1, <1>3, FactorCompares
  <2> QED BY <1>4, <2>1
<1> QED BY <1>5, <1>6, <1>7

(***************************************************************************)
(* The floats next to zero.                                                *)
(***************************************************************************)
LEMMA LeastFloats ==
  ASSUME NEW x, x.c \in Packed, x.e \in PackExp
  PROVE  /\ LessNumber(0, 0, 1, PackExpMin) /\ LessNumber(-1, PackExpMin, 0, 0)
         /\ LessNumber(0, 0, x.c, x.e) => ~LessNumber(x.c, x.e, 1, PackExpMin)
         /\ LessNumber(x.c, x.e, 0, 0) => ~LessNumber(-1, PackExpMin, x.c, x.e)
<1>1. PICK c \in Packed, e \in PackExp : c = x.c /\ e = x.e
  OBVIOUS
<1>2. c \in Int /\ e \in Int /\ PackExpMin \in Int /\ PackExpMin <= e /\ -1 \in Int
  BY Widths DEF Packed, PackMin, PackExp, PackExpMin
<1>3. PICK u : u = InUnits(c, e, PackExpMin)
  OBVIOUS
<1>4. u \in Int /\ (0 < c => 1 <= u) /\ (c < 0 => u <= -1)
  BY <1>3, LeastUnits
<1>10. PICK p \in Int, q \in Int, g \in Int : p = 1 /\ q = -1 /\ g = PackExpMin
  BY <1>2
<1>5. InUnits(p, g, g) = p /\ InUnits(q, g, g) = q
  <2>1. g - g = 0 /\ ten[0] = 1
    BY TenUnfolds
  <2> QED BY <2>1 DEF InUnits
<1>6. LessNumber(c, e, 1, PackExpMin) <=> u < 1
  <2>1. LessNumber(c, e, p, g) <=> InUnits(c, e, g) < InUnits(p, g, g)
    BY <1>2, <1>10, LessCompares
  <2> QED BY <1>3, <1>5, <1>10, <2>1
<1>7. LessNumber(-1, PackExpMin, c, e) <=> -1 < u
  <2>1. LessNumber(q, g, c, e) <=> InUnits(q, g, g) < InUnits(c, e, g)
    BY <1>2, <1>10, LessCompares
  <2> QED BY <1>3, <1>5, <1>10, <2>1
<1>8. (LessNumber(c, e, 0, 0) <=> c < 0) /\ (LessNumber(0, 0, c, e) <=> 0 < c)
  BY <1>2, LessThanZero
<1>9. LessNumber(0, 0, 1, PackExpMin) /\ LessNumber(-1, PackExpMin, 0, 0)
  <2>1. LessNumber(0, 0, 1, PackExpMin) <=> 0 < 1
    BY <1>2, LessThanZero
  <2>2. LessNumber(-1, PackExpMin, 0, 0) <=> -1 < 0
    BY <1>2, LessThanZero
  <2> QED BY <2>1, <2>2
<1> QED BY <1>1, <1>4, <1>6, <1>7, <1>8, <1>9

(***************************************************************************)
(* A fixed point value that lost nothing is the number of the float.       *)
(***************************************************************************)
LEMMA FromFixedMeant ==
  ASSUME NEW f \in FromFixed, NEW v \in 0..UintMax, NEW dec \in 0..(ExpMax - PackExpMax),
         NEW r, r = FromFixedResult(f, v, dec), r.status = "ok", r.lossless
  PROVE  SameNumber(r.c, r.e, v, -dec)
<1>1. v \in Nat /\ dec \in Nat /\ D \in Nat
  BY Widths, WidthsAreInts DEF UintMax
<1>2. IF v = 0 THEN r.c = 0 /\ r.e = 0 ELSE Converts(r, v, dec)
  BY FromFixedConverts
<1>3. CASE v = 0
  BY <1>2, <1>3 DEF SameNumber
<1>4. CASE v # 0
  <2>1. PICK K \in 0..(D + 1) :
          /\ K - dec \in PackExp => r.c = v \div Pow10[K] /\ r.e = K - dec /\ K = 0
          /\ K - dec \in PackExp
    BY <1>2, <1>4 DEF Converts
  <2>2. r.c = v \div Pow10[K] /\ r.e = K - dec /\ K = 0
    BY <2>1
  <2>3. Pow10[K] = 1
    BY <1>1, <2>2, PowersAreTens, TenUnfolds
  <2>4. r.c = v /\ r.e = -dec
    BY <1>1, <2>2, <2>3
  <2>5. -dec - (-dec) = 0 /\ 0 <= Reach /\ -dec >= -dec /\ v * Pow10[0] = v
    BY <1>1, <2>2, <2>3 DEF Reach
  <2> QED BY <2>4, <2>5 DEF SameNumber
<1> QED BY <1>3, <1>4

(***************************************************************************)
(* A negative number is not converted, nor one whose exponent takes more   *)
(* than all the digits.                                                    *)
(***************************************************************************)
LEMMA FixedDecimalRefuses ==
  ASSUME NEW x, x.c \in Packed, x.e \in PackExp, NEW dec \in 0..(ExpMax - PackExpMax),
         NEW r, r = FixedDecimal(x, dec), r.status = "ok"
  PROVE  ~(x.c < 0) /\ (x.c > 0 => x.e + dec <= D + 1)
<1>10. PICK u, e, s : u = x.c /\ e = x.e /\ s = e + dec
  OBVIOUS
<1>1. /\ u = x.c /\ e = x.e /\ s = x.e + dec /\ u \in Int /\ e \in Int /\ s \in Int /\ e <= s
      /\ D \in Nat
  <2>1. x.c \in Int /\ x.e \in Int
    BY PackedIsRoomy
  <2>2. dec \in Int /\ 0 <= dec
    BY Widths
  <2> QED BY <1>10, <2>1, <2>2, WidthsAreInts
<1>2. WrapExp(x.e + dec) = s
  <2>1. s \in Exp
    BY <1>1, Widths DEF Exp, ExpMin, PackExp, PackExpMin
  <2> QED BY <1>1, <2>1, WrapExpKeepsType
<1>3. ~(u < 0)
  <2>1. SUFFICES ASSUME u < 0 PROVE FALSE
    OBVIOUS
  <2>2. ~(u = 0) /\ ~(u > 0)
    BY <1>1, <2>1
  <2>3. r = Fail("NegativeFixedDecimalConversion")
    BY <1>1, <2>1, <2>2, Zenon DEF FixedDecimal
  <2> QED BY <2>3 DEF Fail
<1>4. u > 0 => s <= D + 1
  <2>1. SUFFICES ASSUME u > 0, s > D + 1 PROVE FALSE
    BY <1>1
  <2>2. ~(u < 0) /\ ~(u = 0) /\ ~(s < e) /\ ~(s < -(D + 1)) /\ ~(s \in -(D + 1)..0)
    BY <1>1, <2>1
  <2>3. PICK k : k = Pow10[IF Abs(s) <= D + 1 THEN Abs(s) ELSE 0]
    OBVIOUS
  <2>4. r = IF s > D + 1 \/ u > UintMax \div k THEN Fail("FixedDecimalOverflow") ELSE Fixed(u * k, TRUE)
    BY <1>1, <1>2, <2>1, <2>2, <2>3, Zenon DEF FixedDecimal
  <2>5. r = Fail("FixedDecimalOverflow")
    BY <2>1, <2>4
  <2> QED BY <2>5 DEF Fail
<1> QED BY <1>1, <1>3, <1>4

(***************************************************************************)
(* The flag of toFixedDecimal tells whether the value is the float's       *)
(* number.                                                                 *)
(***************************************************************************)
LEMMA ToFixedMeant ==
  ASSUME NEW f \in ToFixed, NEW x, x.c \in Packed, x.e \in PackExp,
         NEW dec \in 0..(ExpMax - PackExpMax), NEW r, r = ToFixedResult(f, x, dec), r.status = "ok"
  PROVE  r.lossless \in BOOLEAN /\ (r.lossless <=> SameNumber(r.value, -dec, x.c, x.e))
<1>10. PICK u, e, s, b : u = x.c /\ e = x.e /\ s = e + dec /\ b = -dec
  OBVIOUS
<1>1. /\ u = x.c /\ e = x.e /\ s = x.e + dec /\ b = -dec /\ u \in Int /\ e \in Int /\ s \in Int /\ b \in Int
      /\ b - e = -s /\ e - b = s
  <2>1. x.c \in Int /\ x.e \in Int
    BY PackedIsRoomy
  <2>2. dec \in Int
    BY Widths
  <2> QED BY <1>10, <2>1, <2>2
<1>2. r = FixedDecimal(x, dec)
  <2>1. r # Fail("LossyConversionFromFloat")
    BY DEF Fail
  <2> QED BY <2>1 DEF ToFixedResult
<1>3. ~(u < 0) /\ (u > 0 => s <= D + 1)
  BY <1>1, <1>2, FixedDecimalRefuses
<1>4. PICK n, exact : n = r.value /\ exact = r.lossless
  OBVIOUS
<1>5. /\ n \in Nat /\ exact \in BOOLEAN /\ n = Scaled(x, s)
      /\ exact <=> s >= 0 \/ u % ten[-s] = 0
  BY <1>1, <1>2, <1>3, <1>4, FixedDecimalTruncates
<1>6. D \in Nat /\ Reach = D + 1 /\ u \in Nat /\ PackMax \in Nat /\ u <= PackMax
  BY <1>1, <1>3, WidthsAreInts, Widths DEF Reach, Packed
<1>7. CASE u = 0
  <2>1. s >= 0 => ten[s] \in Nat /\ ten[s] >= 1
    BY <1>1, TenType
  <2>2. s < 0 => ten[-s] \in Nat /\ ten[-s] >= 1
    BY <1>1, TenType
  <2>3. \A t \in Nat : t >= 1 => 0 * t = 0 /\ 0 \div t = 0 /\ 0 % t = 0
    OBVIOUS
  <2>4. n = 0 /\ exact
    BY <1>1, <1>5, <1>7, <2>1, <2>2, <2>3 DEF Scaled
  <2> QED BY <1>1, <1>4, <1>5, <1>7, <2>4 DEF SameNumber
<1>8. CASE u > 0 /\ s >= 0
  <2>1. s \in 0..(D + 1)
    BY <1>1, <1>3, <1>6, <1>8
  <2>2. n = u * Pow10[s]
    <3>1. n = u * ten[s]
      BY <1>1, <1>5, <1>8 DEF Scaled
    <3> QED BY <2>1, <3>1, PowersAreTens
  <2>3. e >= b /\ e - b <= Reach /\ u * Pow10[e - b] = n
    BY <1>1, <1>6, <1>8, <2>1, <2>2
  <2>4. SameNumber(n, b, u, e)
    BY <2>3 DEF SameNumber
  <2> QED BY <1>1, <1>4, <1>5, <1>8, <2>4
<1>9. CASE u > 0 /\ s < 0
  <2>1. PICK k \in Nat, t \in Nat : k = -s /\ k > 0 /\ t = ten[k] /\ t >= 1
    BY <1>1, <1>9, TenType
  <2>2. n = u \div t /\ (exact <=> u % t = 0)
    BY <1>1, <1>5, <1>9, <2>1 DEF Scaled
  <2>3. n * t = u <=> u % t = 0
    BY <1>6, <2>1, <2>2, ScaledDown
  <2>4. b >= e /\ b - e = k /\ ~(e >= b)
    BY <1>1, <1>9, <2>1
  <2>5. SameNumber(n, b, u, e) <=> k <= Reach /\ n * Pow10[k] = u
    BY <1>9, <2>4 DEF SameNumber
  <2>6. CASE k <= Reach
    <3>1. k \in 0..(D + 1)
      BY <1>6, <2>6
    <3>2. Pow10[k] = t
      BY <2>1, <3>1, PowersAreTens
    <3> QED BY <1>1, <1>4, <1>5, <2>2, <2>3, <2>5, <2>6, <3>2
  <2>7. CASE ~(k <= Reach)
    <3>1. PICK d \in 0..(D + 1) : d = D + 1 /\ d \in Nat /\ d <= k
      BY <1>6, <2>7
    <3>2. ten[d] <= t /\ ten[d] \in Nat
      BY <2>1, <3>1, TenType, TenGrows
    <3>3. CoefMax < ten[d] /\ PackMax < CoefMax /\ CoefMax \in Nat
      BY <3>1, <3>2, PowersAreTens, WidthsFitDecimals, Widths
    <3>4. u < t
      BY <1>6, <3>2, <3>3
    <3>5. u % t # 0
      BY <1>6, <1>9, <2>1, <3>4, ScaledDown
    <3> QED BY <1>1, <1>4, <1>5, <2>2, <2>5, <2>7, <3>5
  <2> QED BY <2>6, <2>7
<1> QED BY <1>1, <1>6, <1>7, <1>8, <1>9

(***************************************************************************)
(* minus negates every float but those of the most negative coefficient    *)
(* exactly.                                                                *)
(***************************************************************************)
LEMMA MinusMeant ==
  ASSUME NEW x, x.c \in Packed, x.e \in PackExp, x.c # PackMin,
         NEW r, r = UnaryResult("minus", x)
  PROVE  r.status = "ok" /\ SameNumber(r.c, r.e, -x.c, x.e)
<1>1. PICK u \in Packed, e \in PackExp, n \in Packed : u = x.c /\ e = x.e /\ n = -u
  BY Widths DEF Packed, PackMin
<1>2. u # CoefMin /\ -u = n /\ n \in Int /\ e \in Int
  BY <1>1, PackedIsRoomy
<1>3. r = Packed224(Num(n, e))
  BY <1>1, <1>2 DEF UnaryResult, Minus
<1>4. r.status = "ok" /\ r.c = n /\ r.e = IF n = 0 THEN 0 ELSE e
  BY <1>3, PackedPacks
<1>5. SameNumber(n, e, n, e)
  BY SameAsItself
<1>6. CASE n = 0
  BY <1>1, <1>2, <1>4, <1>6 DEF SameNumber
<1>7. CASE n # 0
  BY <1>1, <1>2, <1>4, <1>5, <1>7
<1> QED BY <1>6, <1>7

-----------------------------------------------------------------------------
(***************************************************************************)
(* Equal arguments.                                                        *)
(***************************************************************************)

(***************************************************************************)
(* c * 10^e is N * 10^p with its last digits cut off, as few as an int224  *)
(* allows.                                                                 *)
(***************************************************************************)
LeastCut(c, e, N, p) ==
  \E t \in Nat : /\ e = p + t /\ c = Quot(N, ten[t]) /\ c \in Packed
                 /\ \A j \in 0..(t - 1) : Quot(N, ten[j]) \notin Packed

(***************************************************************************)
(* Two ways to write a number lose the same: the digits cut off are zeros, *)
(* or the same digits.                                                     *)
(***************************************************************************)
LEMMA LeastCutsAgree ==
  ASSUME NEW N \in Int, NEW d \in Nat, NEW M, M = N * ten[d], NEW p \in Int, NEW q, q = p - d,
         NEW c1, NEW e1, LeastCut(c1, e1, N, p), NEW c2, NEW e2, LeastCut(c2, e2, M, q)
  PROVE  SameNumber(c1, e1, c2, e2)
<1>1. PICK t \in Nat : /\ e1 = p + t /\ c1 = Quot(N, ten[t]) /\ c1 \in Packed
                       /\ \A j \in 0..(t - 1) : Quot(N, ten[j]) \notin Packed
  BY DEF LeastCut
<1>2. PICK u \in Nat : /\ e2 = q + u /\ c2 = Quot(M, ten[u]) /\ c2 \in Packed
                       /\ \A j \in 0..(u - 1) : Quot(M, ten[j]) \notin Packed
  BY DEF LeastCut
<1>3. ten[d] \in Nat /\ ten[d] >= 1 /\ M \in Int
  BY TenType
<1>4. ASSUME NEW n \in Nat
      PROVE  Quot(M, ten[d + n]) = Quot(N, ten[n])
  <2>1. ten[d + n] = ten[d] * ten[n] /\ ten[n] \in Nat /\ ten[n] >= 1
    BY TenAdds, TenType
  <2>2. Quot(M, ten[d]) = N
    BY <1>3, QuotOfMultiple
  <2>3. Quot(Quot(M, ten[d]), ten[n]) = Quot(M, ten[d] * ten[n])
    BY <1>3, <2>1, QuotTwice
  <2> QED BY <2>1, <2>2, <2>3
<1>5. c1 \in Coef /\ c2 \in Coef /\ e1 \in Int /\ e2 \in Int
  BY <1>1, <1>2, PackedIsRoomy
<1>6. CASE u >= d
  <2>1. PICK n \in Nat : u = d + n
    <3>1. u - d \in Nat /\ u = d + (u - d)
      BY <1>6
    <3> QED BY <3>1
  <2>2. c2 = Quot(N, ten[n]) /\ e2 = p + n
    BY <1>2, <1>4, <2>1
  <2>3. ~(n < t)
    <3>1. ASSUME n < t PROVE FALSE
      <4>1. n \in 0..(t - 1)
        BY <3>1
      <4> QED BY <1>1, <1>2, <2>2, <4>1
    <3> QED BY <3>1
  <2>4. ~(t < n)
    <3>1. ASSUME t < n PROVE FALSE
      <4>1. d + t \in 0..(u - 1) /\ Quot(M, ten[d + t]) = c1
        BY <1>1, <1>4, <2>1, <3>1
      <4> QED BY <1>1, <1>2, <4>1
    <3> QED BY <3>1
  <2>5. c1 = c2 /\ e1 = e2
    BY <1>1, <2>2, <2>3, <2>4
  <2>6. PICK z \in Int : z <= e1 /\ z = e1
    BY <1>5
  <2> QED BY <1>5, <2>5, <2>6, SameCompares
<1>7. CASE u < d
  <2>1. PICK n \in Nat : d = u + n
    <3>1. d - u \in Nat /\ d = u + (d - u)
      BY <1>7
    <3> QED BY <3>1
  <2>2. ten[u] \in Nat /\ ten[u] >= 1 /\ ten[n] \in Nat /\ ten[n] >= 1 /\ ten[d] = ten[u] * ten[n]
    BY <2>1, TenAdds, TenType
  <2>3. c2 = N * ten[n]
    <3>1. M = (N * ten[n]) * ten[u] /\ N * ten[n] \in Int
      BY <2>2
    <3>2. Quot((N * ten[n]) * ten[u], ten[u]) = N * ten[n]
      BY <2>2, <3>1, QuotOfMultiple
    <3> QED BY <1>2, <3>1, <3>2
  <2>4. N \in Packed
    <3>1. PICK x \in Int, T \in Nat : x = N * T /\ T >= 1 /\ x \in Packed
      BY <1>2, <1>5, <2>2, <2>3, CoefIsInt
    <3>2. (N >= 0 => N <= x) /\ (N < 0 => x <= N)
      BY <3>1
    <3>3. PackMin <= 0 /\ PackMax >= 0 /\ PackMin \in Int /\ PackMax \in Int
      BY WidthsAreInts DEF PackMin
    <3> QED BY <3>1, <3>2, <3>3 DEF Packed
  <2>5. t = 0
    <3>1. Quot(N, ten[0]) = N
      BY TenUnfolds, QuotByOne
    <3>2. ASSUME t # 0 PROVE FALSE
      <4>1. 0 \in 0..(t - 1)
        BY <3>2
      <4> QED BY <1>1, <2>4, <3>1, <4>1
    <3> QED BY <3>2
  <2>6. c1 = N /\ e1 = p
    BY <1>1, <2>5, TenUnfolds, QuotByOne
  <2>7. PICK j \in Nat : j = 0 /\ ten[j] = 1
    BY TenUnfolds
  <2>8. c1 * ten[n] = c2 * ten[j] /\ e1 - n = e2 - j
    <3>1. c2 * 1 = c2
      BY <1>5, CoefIsInt
    <3> QED BY <1>2, <2>1, <2>3, <2>6, <2>7, <3>1
  <2> QED BY <1>5, <2>8, SameWithZeros
<1> QED BY <1>1, <1>2, <1>6, <1>7

(***************************************************************************)
(* What packs is such a cut of the coefficient.                            *)
(***************************************************************************)
LEMMA PackedLeast ==
  ASSUME NEW x \in Coef, x # 0, NEW y \in Exp, y + D + 1 <= ExpMax,
         NEW r, r = PackArithmeticResult(x, y), r.status = "ok"
  PROVE  /\ r.c \in Packed /\ r.e \in PackExp
         /\ \E k \in 0..(D + 1) : /\ r.e = y + k /\ r.c = Quot(x, ten[k])
                                  /\ \A j \in 0..(k - 1) : Quot(x, ten[j]) \notin Packed
<1>1. PICK k : k = DigitsToDrop(x)
  OBVIOUS
<1>2. r.status = Fate(y + k) /\ r.c = Quot(x, Pow10[k]) /\ r.e = y + k
  BY <1>1, PackTruncates
<1>3. k \in 0..(D + 1) /\ Drops(x, k)
  BY <1>1, DropsExist
<1>4. Quot(x, Pow10[k]) \in Packed /\ \A j \in 0..(k - 1) : Quot(x, Pow10[j]) \notin Packed
  BY <1>3 DEF Drops, Fits
<1>5. r.e \in PackExp
  BY <1>2 DEF Fate
<1>6. Pow10[k] = ten[k]
  BY <1>3, PowersAreTens
<1>7. ASSUME NEW j \in 0..(k - 1) PROVE Quot(x, ten[j]) \notin Packed
  <2>1. j \in 0..(D + 1)
    BY <1>3, WidthsAreInts
  <2> QED BY <1>4, <2>1, PowersAreTens
<1> QED BY <1>2, <1>3, <1>4, <1>5, <1>6, <1>7

(***************************************************************************)
(* A float, or its magnitude, packed again.                                *)
(***************************************************************************)
LEMMA CoefPacksLeast ==
  ASSUME NEW x \in Coef, x # 0, NEW e \in PackExp, NEW r, r = Packed224(Num(x, e)), r.status = "ok"
  PROVE  LeastCut(r.c, r.e, x, e) /\ r.c \in Packed /\ r.e \in PackExp
<1>1. PICK p : p = PackArithmeticResult(x, e) /\ p.status = "ok" /\ r.c = p.c /\ r.e = p.e
  BY PackedFrom DEF Num
<1>2. e \in Exp /\ e \in Int /\ e + D + 1 <= ExpMax
  BY Widths, WidthsAreInts, ExponentsFit DEF PackExp, PackExpMin, Exp, ExpMin
<1>3. /\ p.c \in Packed /\ p.e \in PackExp
      /\ \E k \in 0..(D + 1) : /\ p.e = e + k /\ p.c = Quot(x, ten[k])
                               /\ \A j \in 0..(k - 1) : Quot(x, ten[j]) \notin Packed
  BY <1>1, <1>2, PackedLeast
<1>4. PICK k \in 0..(D + 1) : /\ p.e = e + k /\ p.c = Quot(x, ten[k])
                              /\ \A j \in 0..(k - 1) : Quot(x, ten[j]) \notin Packed
  BY <1>3
<1>5. k \in Nat
  BY WidthsAreInts
<1> QED BY <1>1, <1>3, <1>4, <1>5 DEF LeastCut

(***************************************************************************)
(* A shorter cut leaves at least ten times as much.                        *)
(***************************************************************************)
LEMMA ShorterCut ==
  ASSUME NEW m \in Nat, NEW i \in Nat, NEW j \in 0..(i - 1)
  PROVE  m \div ten[j] >= 10 * (m \div ten[i])
<1>1. j \in Nat /\ i - j \in Nat /\ ten[i] = ten[j] * ten[i - j]
  BY TenGrows
<1>2. ten[j] \in Nat /\ ten[j] >= 1 /\ ten[i - j] \in Nat /\ ten[i - j] >= 1
  BY <1>1, TenType
<1>3. ten[i - j] >= 10
  <2>1. PICK n \in Nat : n + 1 = i - j
    <3>1. i - j - 1 \in Nat /\ (i - j - 1) + 1 = i - j
      OBVIOUS
    <3> QED BY <3>1
  <2>2. ten[n + 1] = 10 * ten[n] /\ ten[n] \in Nat /\ ten[n] >= 1
    BY TenUnfolds, TenType
  <2> QED BY <2>1, <2>2
<1>4. PICK X \in Nat : X = m \div ten[j]
  BY <1>2, DivBounds
<1>5. PICK T \in Nat : T = ten[i - j] /\ T >= 10
  BY <1>2, <1>3
<1>6. m \div ten[i] = X \div T
  BY <1>1, <1>2, <1>4, <1>5, DivTwice
<1>a. T >= 1 /\ X \in Nat
  BY <1>4, <1>5
<1>7. PICK q \in Nat : q = X \div T /\ q * T <= X
  BY <1>a, DivBounds
<1>8. q * T >= 10 * q
  BY <1>5
<1> QED BY <1>4, <1>6, <1>7, <1>8

(***************************************************************************)
(* A product loses at most D + 1 digits.                                   *)
(***************************************************************************)
LEMMA ProductFits ==
  ASSUME NEW x \in Packed, NEW y \in Packed, NEW N, N = x * y
  PROVE  N \in Int /\ Quot(N, ten[D + 1]) \in Packed
<1>1. /\ x \in Int /\ y \in Int /\ PackMax \in Nat /\ PackMin = -PackMax - 1
      /\ x \in PackMin..PackMax /\ y \in PackMin..PackMax
  BY WidthsAreInts DEF Packed, PackMin
<1>2. PICK T \in Nat : T = ten[D + 1] /\ T >= 1 /\ PackMax + 1 < T
  <2>1. CoefMax + 1 < Pow10[D + 1] /\ CoefMax \in Nat /\ D + 1 \in 0..(D + 1)
    BY PowersOfCoef
  <2>2. Pow10[D + 1] = ten[D + 1] /\ Pow10[D + 1] \in Nat
    BY <2>1, PowersAreTens, Pow10Grows
  <2>3. PackMax < CoefMax
    BY Widths
  <2> QED BY <1>1, <2>1, <2>2, <2>3
<1>3. N \in Int /\ Abs(N) <= (PackMax + 1) * (PackMax + 1)
  <2>1. PICK u \in Nat, v \in Nat : u = Abs(x) /\ v = Abs(y) /\ u <= PackMax + 1 /\ v <= PackMax + 1
    BY <1>1 DEF Abs
  <2>2. u * v <= (PackMax + 1) * (PackMax + 1)
    <3>1. u * v <= (PackMax + 1) * v
      BY <1>1, <2>1
    <3>2. (PackMax + 1) * v <= (PackMax + 1) * (PackMax + 1)
      BY <1>1, <2>1
    <3>3. u * v \in Nat /\ (PackMax + 1) * v \in Nat /\ (PackMax + 1) * (PackMax + 1) \in Nat
      BY <1>1, <2>1
    <3> QED BY <3>1, <3>2, <3>3
  <2>3. x * y \in Int /\ (x * y = u * v \/ x * y = -(u * v)) /\ u * v \in Nat
    BY <1>1, <2>1 DEF Abs
  <2> QED BY <2>2, <2>3 DEF Abs
<1>4. PICK m \in Nat, q \in Nat : m = Abs(N) /\ q = m \div T /\ T * q <= m
  <2>1. Abs(N) \in Nat
    BY <1>3 DEF Abs
  <2> QED BY <1>2, <2>1, DivBounds
<1>5. q <= PackMax
  <2>1. SUFFICES ASSUME q >= PackMax + 1 PROVE FALSE
    BY <1>1, <1>4
  <2>2. T * q >= T * (PackMax + 1)
    BY <1>1, <1>2, <1>4, <2>1
  <2>3. T * (PackMax + 1) > (PackMax + 1) * (PackMax + 1)
    BY <1>1, <1>2
  <2>4. T * q \in Nat /\ T * (PackMax + 1) \in Nat /\ (PackMax + 1) * (PackMax + 1) \in Nat
    BY <1>1, <1>2, <1>4
  <2> QED BY <1>3, <1>4, <2>2, <2>3, <2>4
<1>6. Quot(N, T) = IF N < 0 THEN -q ELSE q
  BY <1>2, <1>3, <1>4, QuotForm
<1>7. Quot(N, T) \in Packed
  BY <1>1, <1>4, <1>5, <1>6 DEF Packed
<1> QED BY <1>2, <1>3, <1>7

(***************************************************************************)
(* t is the least number of digits to cut off of N for an int224.          *)
(***************************************************************************)
CutBy(N, t) == Quot(N, ten[t]) \in Packed /\ \A j \in 0..(t - 1) : Quot(N, ten[j]) \notin Packed

(***************************************************************************)
(* The cut that mul makes to fit an int256, and for the sign, is never one *)
(* that packing would not make; the exponent after the whole cut decides   *)
(* about the product's fate.                                               *)
(***************************************************************************)
LEMMA ProductFate ==
  ASSUME NEW x \in Packed, NEW y \in Packed, x # 0, y # 0, NEW ex \in PackExp, NEW ey \in PackExp,
         NEW r, r = Packed224(Mul(x, ex, y, ey))
  PROVE  \E t \in 0..Reach :
           /\ CutBy(x * y, t)
           /\ r.status = Fate(ex + ey + t)
           /\ r.status = "ok" => r.c = Quot(x * y, ten[t]) /\ r.e = ex + ey + t
<1>2. /\ x \in Coef /\ y \in Coef /\ x \in Int /\ y \in Int /\ ex \in Exp /\ ey \in Exp
      /\ ex \in Int /\ ey \in Int /\ ex <= PackExpMax /\ ey <= PackExpMax
      /\ PackExpMax \in Nat /\ D \in Nat /\ Reach = D + 1 /\ ex \in Roomy /\ ey \in Roomy
  BY PackedIsRoomy, RoomySuffices, WidthsAreInts DEF PackExp, Reach
<1>1. PICK n, r1 : /\ n = Mul(x, ex, y, ey) /\ n.status = "ok"
                   /\ r1 = PackArithmeticResult(n.c, n.e) /\ r.status = r1.status
                   /\ r.status = "ok" => r.c = r1.c /\ r.e = r1.e
  <2>1. PICK n : n = Mul(x, ex, y, ey) /\ n.status = "ok"
    BY <1>2, MulIsGood
  <2>2. PICK r1 : r1 = PackArithmeticResult(n.c, n.e)
    OBVIOUS
  <2>3. r = Packed224(n)
    BY <2>1
  <2>4. r.status = r1.status
    BY <2>1, <2>2, <2>3, FailsAsPacked
  <2>5. r = IF r1.status = "ok" THEN Packs(r1) ELSE Fail(r1.status)
    BY <2>1, <2>2, <2>3 DEF Packed224
  <2>6. r.status = "ok" => r.c = r1.c /\ r.e = r1.e
    BY <2>4, <2>5 DEF Packs
  <2> QED BY <2>1, <2>2, <2>4, <2>6
<1>3. PICK N \in Int, m \in Nat : N = x * y /\ m = Abs(N) /\ N # 0 /\ (N < 0 <=> (x < 0) # (y < 0))
  <2>1. x * y \in Int /\ Abs(x * y) \in Nat
    BY <1>2 DEF Abs
  <2>2. x * y # 0 /\ (x * y < 0 <=> (x < 0) # (y < 0))
    BY <1>2
  <2> QED BY <2>1, <2>2
<1>4. /\ n.c \in Coef /\ n.e \in Exp /\ n.c # 0 /\ (n.c < 0 <=> (x < 0) # (y < 0))
      /\ CutDigits(Abs(n.c), n.e, m, ex + ey)
      /\ IF m > CoefMax THEN Abs(n.c) >= CoefMax \div 10 ELSE n.e = ex + ey
  BY <1>1, <1>2, <1>3, MulTruncates
<1>5. PICK i \in 0..(D + 1) : n.e = ex + ey + i /\ Abs(n.c) = m \div Pow10[i]
  BY <1>2, <1>4 DEF CutDigits
<1>6. Pow10[i] = ten[i] /\ i \in Nat /\ ten[i] \in Nat /\ ten[i] >= 1
  BY <1>2, <1>5, PowersAreTens, TenType
<1>7. n.c = Quot(N, ten[i])
  <2>1. Quot(N, ten[i]) = IF N < 0 THEN -(m \div ten[i]) ELSE m \div ten[i]
    BY <1>3, <1>6, QuotForm
  <2>2. n.c \in Int /\ Abs(n.c) = m \div ten[i]
    BY <1>4, <1>5, <1>6, CoefIsInt
  <2> QED BY <1>3, <1>4, <2>1, <2>2 DEF Abs
<1>8. n.e + D + 1 <= ExpMax
  BY <1>2, <1>5, Widths, ExponentsFit
<1>9. PICK k \in 0..(D + 1) : k = DigitsToDrop(n.c) /\ Drops(n.c, k)
  BY <1>4, DropsExist
<1>10. /\ r1.status = Fate(n.e + k)
       /\ r1.status = "ok" => r1.c = Quot(n.c, Pow10[k]) /\ r1.e = n.e + k
  BY <1>1, <1>4, <1>8, <1>9, PackTruncates
<1>a. Quot(n.c, ten[k]) \in Packed /\ \A j \in 0..(k - 1) : Quot(n.c, ten[j]) \notin Packed
  <2>1. Quot(n.c, Pow10[k]) \in Packed /\ \A j \in 0..(k - 1) : Quot(n.c, Pow10[j]) \notin Packed
    BY <1>9 DEF Drops, Fits
  <2>2. Pow10[k] = ten[k]
    BY <1>9, PowersAreTens
  <2>3. ASSUME NEW j \in 0..(k - 1) PROVE Quot(n.c, ten[j]) \notin Packed
    <3>1. j \in 0..(D + 1)
      BY <1>2, <1>9
    <3> QED BY <2>1, <3>1, PowersAreTens
  <2> QED BY <2>1, <2>2, <2>3
<1>11. k \in Nat /\ i + k \in Nat
  BY <1>2, <1>6
<1>12. ASSUME NEW h \in Nat
       PROVE  Quot(n.c, ten[h]) = Quot(N, ten[i + h])
  <2>1. ten[i + h] = ten[i] * ten[h] /\ ten[h] \in Nat /\ ten[h] >= 1
    BY <1>6, TenAdds, TenType
  <2> QED BY <1>3, <1>6, <1>7, <2>1, QuotTwice
<1>13. ASSUME NEW j \in 0..(i - 1) PROVE Quot(N, ten[j]) \notin Packed
  <2>1. m > CoefMax
    BY <1>2, <1>4, <1>5, <1>6, <1>13
  <2>2. PICK l \in Nat : l = m \div ten[i] /\ l >= CoefMax \div 10
    <3>1. Abs(n.c) \in Nat
      BY <1>4, CoefIsInt
    <3> QED BY <1>4, <1>5, <1>6, <2>1, <3>1
  <2>3. l >= PackMax + 1 /\ PackMax \in Nat /\ PackMin = -PackMax - 1
    BY <2>2, WidthsFitDecimals, WidthsAreInts DEF PackMin
  <2>4. m \div ten[j] >= 10 * l
    BY <1>6, <2>2, ShorterCut
  <2>5. ten[j] \in Nat /\ ten[j] >= 1
    BY <1>6, TenType
  <2>6. /\ m \div ten[j] \in Nat
        /\ Quot(N, ten[j]) = IF N < 0 THEN -(m \div ten[j]) ELSE m \div ten[j]
    BY <1>3, <2>5, QuotForm
  <2> QED BY <1>3, <2>3, <2>4, <2>6 DEF Packed
<1>14. ASSUME NEW j \in 0..(i + k - 1) PROVE Quot(N, ten[j]) \notin Packed
  <2>1. CASE j < i
    <3>1. j \in 0..(i - 1)
      BY <1>6, <2>1
    <3> QED BY <1>13, <3>1
  <2>2. CASE j >= i
    <3>1. j - i \in Nat /\ j - i \in 0..(k - 1) /\ i + (j - i) = j
      BY <1>6, <1>11, <2>2
    <3> QED BY <1>a, <1>12, <3>1
  <2> QED BY <1>6, <2>1, <2>2
<1>15. Quot(n.c, Pow10[k]) = Quot(N, ten[i + k]) /\ n.e + k = ex + ey + (i + k)
  <2>1. Pow10[k] = ten[k]
    BY <1>9, PowersAreTens
  <2>2. n.e + k = ex + ey + (i + k)
    BY <1>2, <1>5, <1>6, <1>11
  <2> QED BY <1>11, <1>12, <2>1, <2>2
<1>16. CutBy(N, i + k)
  <2>1. Quot(N, ten[i + k]) \in Packed
    BY <1>11, <1>12, <1>a
  <2> QED BY <1>14, <2>1 DEF CutBy
<1>17. i + k <= D + 1
  <2>1. SUFFICES ASSUME D + 1 < i + k PROVE FALSE
    BY <1>2, <1>6, <1>11
  <2>2. D + 1 \in 0..(i + k - 1)
    BY <1>2, <1>11, <2>1
  <2>3. Quot(N, ten[D + 1]) \notin Packed
    BY <1>14, <2>2
  <2> QED BY <1>2, <1>3, <2>3, ProductFits
<1> QED
  <2>1. i + k \in 0..Reach
    BY <1>2, <1>11, <1>17
  <2>2. PICK t \in 0..Reach : t = i + k
    BY <2>1
  <2>3. /\ CutBy(x * y, t) /\ r.status = Fate(ex + ey + t)
        /\ r.status = "ok" => r.c = Quot(x * y, ten[t]) /\ r.e = ex + ey + t
    BY <1>1, <1>3, <1>10, <1>15, <1>16, <2>2
  <2> QED BY <2>3

(***************************************************************************)
(* A product that packs.                                                   *)
(***************************************************************************)
LEMMA ProductPacksLeast ==
  ASSUME NEW x \in Packed, NEW y \in Packed, x # 0, y # 0, NEW ex \in PackExp, NEW ey \in PackExp,
         NEW r, r = Packed224(Mul(x, ex, y, ey)), r.status = "ok"
  PROVE  LeastCut(r.c, r.e, x * y, ex + ey) /\ r.c \in Packed /\ r.e \in PackExp
<1>1. PICK t \in 0..Reach : /\ CutBy(x * y, t) /\ r.status = Fate(ex + ey + t)
                            /\ r.c = Quot(x * y, ten[t]) /\ r.e = ex + ey + t
  BY ProductFate
<1>2. t \in Nat
  BY <1>1
<1>3. r.c \in Packed /\ \A j \in 0..(t - 1) : Quot(x * y, ten[j]) \notin Packed
  BY <1>1 DEF CutBy
<1>4. r.e \in PackExp
  BY <1>1 DEF Fate
<1> QED BY <1>1, <1>2, <1>3, <1>4 DEF LeastCut

(***************************************************************************)
(* A product out of range.                                                 *)
(***************************************************************************)
LEMMA ProductRange ==
  ASSUME NEW x, x.c \in Packed, x.e \in PackExp, NEW y, y.c \in Packed, y.e \in PackExp,
         NEW r, r = BinaryResult("mul", x, y)
  PROVE  /\ r.status = "ExponentOverflow" =>
              \E k \in 0..Reach : CutBy(x.c * y.c, k) /\ x.e + y.e + k > PackExpMax
         /\ r.status = "ExponentUnderflow" =>
              /\ x.c # 0 /\ y.c # 0
              /\ \E k \in 0..Reach : CutBy(x.c * y.c, k) /\ x.e + y.e + k < PackExpMin
<1>1. PICK u, ux, v, vx : u = x.c /\ ux = x.e /\ v = y.c /\ vx = y.e
  OBVIOUS
<1>2. PICK n : n = Mul(u, ux, v, vx)
  OBVIOUS
<1>3. /\ u \in Packed /\ v \in Packed /\ u \in Coef /\ v \in Coef /\ ux \in Roomy /\ vx \in Roomy
      /\ ux \in PackExp /\ vx \in PackExp /\ ux \in Int /\ vx \in Int
  BY <1>1, PackedIsRoomy, RoomySuffices
<1>4. r = Packed224(n) /\ n.status = "ok"
  BY <1>1, <1>2, <1>3, MulIsGood DEF BinaryResult
<1>6. CASE u = 0 \/ v = 0
  <2>1. n.c = 0
    BY <1>2, <1>6 DEF Mul, MaximizedZero, Num
  <2>2. PICK p : p = PackArithmeticResult(n.c, n.e) /\ r.status = p.status
    BY <1>4, FailsAsPacked
  <2>3. p.status = "ok"
    BY <2>1, <2>2, ZeroPacks
  <2> QED BY <2>2, <2>3
<1>7. CASE u # 0 /\ v # 0
  <2>1. PICK t \in 0..Reach : CutBy(u * v, t) /\ r.status = Fate(ux + vx + t)
    BY <1>2, <1>3, <1>4, <1>7, ProductFate
  <2>2. t \in Int /\ PackExpMax \in Int /\ PackExpMin \in Int
    BY <2>1, WidthsAreInts DEF PackExpMin
  <2>3. r.status = "ExponentOverflow" => ux + vx + t > PackExpMax
    BY <1>3, <2>1, <2>2 DEF Fate, PackExp
  <2>4. r.status = "ExponentUnderflow" => ux + vx + t < PackExpMin
    BY <1>3, <2>1, <2>2 DEF Fate
  <2> QED BY <1>1, <1>7, <2>1, <2>3, <2>4
<1> QED BY <1>6, <1>7

(***************************************************************************)
(* Of two ways to write a number one has zeros behind the coefficient of   *)
(* the other.                                                              *)
(***************************************************************************)
Longer(c1, e1, c2, e2, d) == c1 = c2 * ten[d] /\ e1 = e2 - d

LEMMA SameIsLonger ==
  ASSUME NEW c1 \in Int, NEW c2 \in Int, c1 # 0, NEW e1 \in Int, NEW e2 \in Int, SameNumber(c1, e1, c2, e2)
  PROVE  c2 # 0 /\ \E d \in Nat : Longer(c1, e1, c2, e2, d) \/ Longer(c2, e2, c1, e1, d)
<1>1. D \in Nat /\ Reach = D + 1
  BY WidthsAreInts DEF Reach
<1>2. CASE e1 >= e2 /\ e1 - e2 <= Reach /\ c1 * Pow10[e1 - e2] = c2
  <2>1. PICK d \in 0..(D + 1) : d = e1 - e2
    BY <1>1, <1>2
  <2>2. d \in Nat /\ Pow10[d] = ten[d] /\ ten[d] \in Nat /\ ten[d] >= 1
    BY <1>1, PowersAreTens, TenType
  <2>3. c2 = c1 * ten[d] /\ e2 = e1 - d
    BY <1>2, <2>1, <2>2
  <2>4. c2 # 0
    BY <2>2, <2>3
  <2> QED BY <2>2, <2>3, <2>4 DEF Longer
<1>3. CASE e2 >= e1 /\ e2 - e1 <= Reach /\ c2 * Pow10[e2 - e1] = c1
  <2>1. PICK d \in 0..(D + 1) : d = e2 - e1
    BY <1>1, <1>3
  <2>2. d \in Nat /\ Pow10[d] = ten[d] /\ ten[d] \in Nat /\ ten[d] >= 1
    BY <1>1, PowersAreTens, TenType
  <2>3. c1 = c2 * ten[d] /\ e1 = e2 - d
    BY <1>3, <2>1, <2>2
  <2>4. c2 # 0
    BY <2>2, <2>3
  <2> QED BY <2>2, <2>3, <2>4 DEF Longer
<1> QED BY <1>2, <1>3 DEF SameNumber

(***************************************************************************)
(* The same number either way.                                             *)
(***************************************************************************)
LEMMA SameBothWays ==
  ASSUME NEW c1, NEW e1, NEW c2, NEW e2, SameNumber(c1, e1, c2, e2)
  PROVE  SameNumber(c2, e2, c1, e1)
BY DEF SameNumber

(***************************************************************************)
(* The least cuts of the same number, either way.                          *)
(***************************************************************************)
LEMMA LeastCutsAreSame ==
  ASSUME NEW N \in Int, NEW p \in Int, NEW M \in Int, NEW q \in Int, NEW d \in Nat,
         Longer(M, q, N, p, d) \/ Longer(N, p, M, q, d),
         NEW c1, NEW e1, LeastCut(c1, e1, N, p), NEW c2, NEW e2, LeastCut(c2, e2, M, q)
  PROVE  SameNumber(c1, e1, c2, e2)
<1>1. CASE Longer(M, q, N, p, d)
  BY <1>1, LeastCutsAgree DEF Longer
<1>2. CASE Longer(N, p, M, q, d)
  <2>1. SameNumber(c2, e2, c1, e1)
    BY <1>2, LeastCutsAgree DEF Longer
  <2> QED BY <2>1, SameBothWays
<1> QED BY <1>1, <1>2

(***************************************************************************)
(* However a float is written, it is maximized to the same pair.           *)
(***************************************************************************)
LEMMA LongerMaximizes ==
  ASSUME NEW c1 \in Packed, NEW c2 \in Packed, c1 # 0, NEW e1 \in PackExp, NEW e2 \in PackExp,
         NEW d \in Nat, Longer(c2, e2, c1, e1, d)
  PROVE  Maximize(c2, e2) = Maximize(c1, e1)
<1>1. /\ c1 \in Coef /\ c2 \in Coef /\ c1 \in Int /\ c2 \in Int /\ e1 \in Exp /\ e2 \in Exp
      /\ e1 \in Int /\ e2 \in Int /\ e1 - (D + 1) >= ExpMin /\ e2 - (D + 1) >= ExpMin
      /\ D \in Nat /\ ExpMin \in Int
  BY PackedIsRoomy, RoomySuffices, WidthsAreInts DEF ExpMin
<1>2. c2 = c1 * ten[d] /\ e2 = e1 - d /\ ten[d] \in Nat /\ ten[d] >= 1
  BY TenType DEF Longer
<1>3. c2 # 0
  BY <1>1, <1>2
<1>4. PICK k1 \in 0..D : k1 = DigitsToGain(c1, e1) /\ CanGain(c1, e1, k1) /\ ~CanGain(c1, e1, k1 + 1)
  BY <1>1, GainExists
<1>5. PICK k2 \in 0..D : k2 = DigitsToGain(c2, e2) /\ CanGain(c2, e2, k2) /\ ~CanGain(c2, e2, k2 + 1)
  BY <1>1, <1>3, GainExists
<1>6. /\ k1 \in 0..(D + 1) /\ k1 + 1 \in 0..(D + 1) /\ k2 \in 0..(D + 1) /\ k2 + 1 \in 0..(D + 1)
      /\ k1 \in Nat /\ k2 \in Nat /\ k1 + 1 \in Nat /\ k2 + 1 \in Nat
      /\ e1 - (k1 + 1) >= ExpMin /\ e2 - (k2 + 1) >= ExpMin
  BY <1>1
<1>7. ASSUME NEW j \in Nat, NEW l \in Nat, j <= l, c1 * ten[l] \in Coef
      PROVE  c1 * ten[j] \in Coef
  <2>1. ten[l] = ten[j] * ten[l - j] /\ l - j \in Nat
    BY <1>7, TenGrows
  <2>2. PICK T \in Nat, J \in Nat : T = ten[l - j] /\ J = ten[j] /\ T >= 1
    BY <1>7, <2>1, TenType
  <2>3. PICK x \in Int : x = c1 * J /\ x * T \in Coef
    <3>1. c1 * J \in Int /\ (c1 * J) * T = c1 * (J * T)
      BY <1>1, <2>2
    <3> QED BY <1>7, <2>1, <2>2, <3>1
  <2>4. (x >= 0 => x <= x * T) /\ (x < 0 => x * T <= x) /\ x * T \in Int
    BY <2>2, <2>3
  <2>5. CoefMin <= 0 /\ CoefMax >= 0 /\ CoefMin \in Int /\ CoefMax \in Int
    BY WidthsAreInts DEF CoefMin
  <2> QED BY <2>2, <2>3, <2>4, <2>5 DEF Coef
<1>8. ASSUME NEW j \in 0..(D + 1)
      PROVE  c2 * Pow10[j] = c1 * ten[d + j] /\ c1 * Pow10[j] = c1 * ten[j] /\ d + j \in Nat
  <2>1. j \in Nat /\ d + j \in Nat
    BY <1>1
  <2>2. Pow10[j] = ten[j] /\ ten[d + j] = ten[d] * ten[j] /\ ten[j] \in Nat
    BY <2>1, PowersAreTens, TenAdds, TenType
  <2>3. (c1 * ten[d]) * ten[j] = c1 * (ten[d] * ten[j])
    BY <1>1, <1>2, <2>2
  <2> QED BY <1>2, <2>1, <2>2, <2>3
<1>9. c1 * ten[k1] \in Coef /\ c1 * ten[k1 + 1] \notin Coef
  <2>1. c1 * Pow10[k1] \in Coef /\ c1 * Pow10[k1 + 1] \notin Coef
    BY <1>4, <1>6 DEF CanGain
  <2> QED BY <1>6, <1>8, <2>1
<1>10. c1 * ten[d + k2] \in Coef /\ c1 * ten[d + (k2 + 1)] \notin Coef
  <2>1. c2 * Pow10[k2] \in Coef /\ c2 * Pow10[k2 + 1] \notin Coef
    BY <1>5, <1>6 DEF CanGain
  <2> QED BY <1>6, <1>8, <2>1
<1>11. k1 = d + k2
  <2>1. ~(k1 + 1 <= d + k2)
    BY <1>6, <1>7, <1>9, <1>10
  <2>2. ~(d + (k2 + 1) <= k1)
    BY <1>6, <1>7, <1>9, <1>10
  <2> QED BY <1>6, <2>1, <2>2
<1>12. PICK C, E : C = c1 * Pow10[k1] /\ E = e1 - k1
  OBVIOUS
<1>13. C = c2 * Pow10[k2] /\ E = e2 - k2
  <2>1. c2 * Pow10[k2] = c1 * ten[d + k2] /\ c1 * Pow10[k1] = c1 * ten[k1]
    BY <1>6, <1>8
  <2>2. e2 - k2 = e1 - k1
    BY <1>1, <1>2, <1>6, <1>11
  <2> QED BY <1>11, <1>12, <2>1, <2>2
<1>14. Maximize(c1, e1) = [c |-> C, e |-> E, full |-> IsFull(C)]
  BY <1>4, <1>12 DEF Maximize
<1>15. Maximize(c2, e2) = [c |-> C, e |-> E, full |-> IsFull(C)]
  BY <1>3, <1>5, <1>13 DEF Maximize
<1> QED BY <1>14, <1>15

(***************************************************************************)
(* Either way.                                                             *)
(***************************************************************************)
LEMMA SameMaximizes ==
  ASSUME NEW c1 \in Packed, NEW c2 \in Packed, c1 # 0, NEW e1 \in PackExp, NEW e2 \in PackExp,
         SameNumber(c1, e1, c2, e2)
  PROVE  c2 # 0 /\ Maximize(c1, e1) = Maximize(c2, e2)
<1>1. c1 \in Int /\ c2 \in Int /\ e1 \in Int /\ e2 \in Int
  BY PackedIsRoomy
<1>2. c2 # 0 /\ \E d \in Nat : Longer(c1, e1, c2, e2, d) \/ Longer(c2, e2, c1, e1, d)
  BY <1>1, SameIsLonger
<1>3. PICK d \in Nat : Longer(c1, e1, c2, e2, d) \/ Longer(c2, e2, c1, e1, d)
  BY <1>2
<1>4. CASE Longer(c1, e1, c2, e2, d)
  BY <1>2, <1>4, LongerMaximizes
<1>5. CASE Longer(c2, e2, c1, e1, d)
  <2>1. Maximize(c2, e2) = Maximize(c1, e1)
    BY <1>5, LongerMaximizes
  <2> QED BY <1>2, <2>1
<1> QED BY <1>2, <1>3, <1>4, <1>5

(***************************************************************************)
(* Equal numbers pack to equal numbers.                                    *)
(***************************************************************************)
LEMMA SamePacks ==
  ASSUME NEW c1 \in Coef, NEW c2 \in Coef, NEW e1 \in PackExp, NEW e2 \in PackExp, SameNumber(c1, e1, c2, e2),
         NEW r1, r1 = Packed224(Num(c1, e1)), r1.status = "ok",
         NEW r2, r2 = Packed224(Num(c2, e2)), r2.status = "ok"
  PROVE  /\ SameNumber(r1.c, r1.e, r2.c, r2.e)
         /\ r1.c \in Packed /\ r1.e \in PackExp /\ r2.c \in Packed /\ r2.e \in PackExp
<1>1. c1 \in Int /\ c2 \in Int /\ e1 \in Int /\ e2 \in Int
  BY CoefIsInt, PackedIsRoomy
<1>2. CASE c1 # 0
  <2>1. c2 # 0 /\ \E d \in Nat : Longer(c1, e1, c2, e2, d) \/ Longer(c2, e2, c1, e1, d)
    BY <1>1, <1>2, SameIsLonger
  <2>2. PICK d \in Nat : Longer(c1, e1, c2, e2, d) \/ Longer(c2, e2, c1, e1, d)
    BY <2>1
  <2>3. LeastCut(r1.c, r1.e, c1, e1) /\ r1.c \in Packed /\ r1.e \in PackExp
    BY <1>2, CoefPacksLeast
  <2>4. LeastCut(r2.c, r2.e, c2, e2) /\ r2.c \in Packed /\ r2.e \in PackExp
    BY <2>1, CoefPacksLeast
  <2>5. SameNumber(r1.c, r1.e, r2.c, r2.e)
    BY <1>1, <2>2, <2>3, <2>4, LeastCutsAreSame
  <2> QED BY <2>3, <2>4, <2>5
<1>3. CASE c1 = 0
  <2>1. c2 = 0
    <3>1. ASSUME c2 # 0 PROVE FALSE
      <4>1. SameNumber(c2, e2, c1, e1)
        BY SameBothWays
      <4> QED BY <1>1, <1>3, <3>1, <4>1, SameIsLonger
    <3> QED BY <3>1
  <2>2. Num(c1, e1).c = 0 /\ Num(c2, e2).c = 0
    BY <1>3, <2>1 DEF Num
  <2>3. r1.c = 0 /\ r1.e = 0 /\ r2.c = 0 /\ r2.e = 0
    BY <2>2, PackedZero
  <2>4. 0 \in Packed /\ 0 \in PackExp
    BY WidthsAreInts DEF Packed, PackMin, PackExp, PackExpMin
  <2> QED BY <2>3, <2>4, SameAsItself
<1> QED BY <1>2, <1>3

(***************************************************************************)
(* add, sub and div maximize what is not zero, and look at nothing else.   *)
(***************************************************************************)
LEMMA SameSums ==
  ASSUME NEW c1, NEW e1, NEW c2, NEW e2, c1 # 0, c2 # 0, Maximize(c1, e1) = Maximize(c2, e2), NEW c, NEW e
  PROVE  /\ c # 0 => Add(c1, e1, c, e) = Add(c2, e2, c, e)
         /\ Div(c1, e1, c, e) = Div(c2, e2, c, e)
<1>1. PICK m, n : m = Maximize(c1, e1) /\ m = Maximize(c2, e2) /\ n = Maximize(c, e)
  OBVIOUS
<1>2. ASSUME c # 0 PROVE Add(c1, e1, c, e) = Add(c2, e2, c, e)
  BY <1>1, <1>2 DEF Add
<1>3. Div(c1, e1, c, e) = Div(c2, e2, c, e)
  BY <1>1 DEF Div
<1> QED BY <1>2, <1>3

(***************************************************************************)
(* What is packed is the same number as itself.                            *)
(***************************************************************************)
LEMMA SameAsPacked ==
  ASSUME NEW r, r.c \in Packed, r.e \in PackExp
  PROVE  SameNumber(r.c, r.e, r.c, r.e)
BY SameAsItself

(***************************************************************************)
(* A float that is zero has no other value than zero.                      *)
(***************************************************************************)
LEMMA SameZero ==
  ASSUME NEW c1 \in Packed, NEW c2 \in Packed, NEW e1 \in PackExp, NEW e2 \in PackExp, SameNumber(c1, e1, c2, e2)
  PROVE  c1 = 0 <=> c2 = 0
<1>1. c1 \in Int /\ c2 \in Int /\ e1 \in Int /\ e2 \in Int
  BY PackedIsRoomy
<1>2. SameNumber(c2, e2, c1, e1)
  BY SameBothWays
<1>3. c1 # 0 => c2 # 0
  BY <1>1, SameIsLonger
<1>4. c2 # 0 => c1 # 0
  BY <1>1, <1>2, SameIsLonger
<1> QED BY <1>3, <1>4

(***************************************************************************)
(* A quotient of floats is a float.                                        *)
(***************************************************************************)
LEMMA QuotientIsPacked ==
  ASSUME NEW x \in Packed, NEW y \in Packed, y # 0, NEW ex \in PackExp, NEW ey \in PackExp,
         NEW r, r = Packed224(Div(x, ex, y, ey)), r.status = "ok"
  PROVE  r.c \in Packed /\ r.e \in PackExp
<1>1. CASE x = 0
  <2>1. Div(x, ex, y, ey).c = 0
    BY <1>1 DEF Div, MaximizedZero, Num
  <2>2. r.c = 0 /\ r.e = 0
    BY <2>1, PackedZero
  <2> QED BY <2>2, WidthsAreInts DEF Packed, PackMin, PackExp, PackExpMin
<1>2. CASE x # 0
  <2>1. x \in Coef /\ x \in Int /\ ex \in Roomy /\ ex \in Exp /\ ex \in Int
    BY PackedIsRoomy, RoomySuffices
  <2>2. PICK i \in 0..D : Maximize(x, ex).e = ex - i /\ Abs(Maximize(x, ex).c) = Abs(x) * Pow10[i]
    BY <1>2, <2>1, MaximizedBy
  <2>3. PICK u \in Nat : u = Abs(x)
    BY <2>1 DEF Abs
  <2>4. Abs(Maximize(x, ex).c) = u * Pow10[i]
    BY <2>2, <2>3
  <2> QED BY <1>2, <2>1, <2>2, <2>4, QuotientPacks
<1> QED BY <1>1, <1>2

(***************************************************************************)
(* Equal floats have equal products with any float.                        *)
(***************************************************************************)
LEMMA SameProducts ==
  ASSUME NEW c1 \in Packed, NEW c2 \in Packed, NEW c \in Packed, NEW e1 \in PackExp, NEW e2 \in PackExp,
         NEW e \in PackExp, SameNumber(c1, e1, c2, e2),
         NEW r1, r1 = Packed224(Mul(c1, e1, c, e)), r1.status = "ok",
         NEW r2, r2 = Packed224(Mul(c2, e2, c, e)), r2.status = "ok"
  PROVE  SameNumber(r1.c, r1.e, r2.c, r2.e)
<1>1. c1 \in Int /\ c2 \in Int /\ c \in Int /\ e1 \in Int /\ e2 \in Int /\ e \in Int
  BY PackedIsRoomy
<1>2. c1 = 0 <=> c2 = 0
  BY SameZero
<1>3. CASE c1 = 0 \/ c = 0
  <2>1. Mul(c1, e1, c, e).c = 0 /\ Mul(c2, e2, c, e).c = 0
    BY <1>2, <1>3 DEF Mul, MaximizedZero, Num
  <2>2. r1.c = 0 /\ r2.c = 0
    BY <2>1, PackedZero
  <2> QED BY <2>2 DEF SameNumber
<1>4. CASE c1 # 0 /\ c # 0
  <2>1. LeastCut(r1.c, r1.e, c1 * c, e1 + e)
    BY <1>4, ProductPacksLeast
  <2>2. LeastCut(r2.c, r2.e, c2 * c, e2 + e)
    BY <1>2, <1>4, ProductPacksLeast
  <2>3. c2 # 0 /\ \E d \in Nat : Longer(c1, e1, c2, e2, d) \/ Longer(c2, e2, c1, e1, d)
    BY <1>1, <1>4, SameIsLonger
  <2>4. PICK d \in Nat : Longer(c1, e1, c2, e2, d) \/ Longer(c2, e2, c1, e1, d)
    BY <2>3
  <2>5. PICK T \in Nat : T = ten[d]
    BY TenType
  <2>6. PICK N \in Int, M \in Int, p \in Int, q \in Int :
          N = c1 * c /\ M = c2 * c /\ p = e1 + e /\ q = e2 + e
    BY <1>1
  <2>7. Longer(N, p, M, q, d) \/ Longer(M, q, N, p, d)
    <3>1. CASE Longer(c1, e1, c2, e2, d)
      <4>1. c1 = c2 * T /\ e1 = e2 - d
        BY <2>5, <3>1 DEF Longer
      <4>2. (c2 * T) * c = (c2 * c) * T
        BY <1>1
      <4>3. N = M * ten[d] /\ p = q - d
        BY <1>1, <2>5, <2>6, <4>1, <4>2
      <4> QED BY <4>3 DEF Longer
    <3>2. CASE Longer(c2, e2, c1, e1, d)
      <4>1. c2 = c1 * T /\ e2 = e1 - d
        BY <2>5, <3>2 DEF Longer
      <4>2. (c1 * T) * c = (c1 * c) * T
        BY <1>1
      <4>3. M = N * ten[d] /\ q = p - d
        BY <1>1, <2>5, <2>6, <4>1, <4>2
      <4> QED BY <4>3 DEF Longer
    <3> QED BY <2>4, <3>1, <3>2
  <2> QED BY <2>1, <2>2, <2>6, <2>7, LeastCutsAreSame
<1> QED BY <1>3, <1>4

(***************************************************************************)
(* Equal floats have equal sums with any float.                            *)
(***************************************************************************)
LEMMA SameAdds ==
  ASSUME NEW c1 \in Packed, NEW c2 \in Packed, NEW c, NEW e1 \in PackExp, NEW e2 \in PackExp,
         NEW e, SameNumber(c1, e1, c2, e2),
         NEW r1, r1 = Packed224(Add(c1, e1, c, e)), r1.status = "ok", r1.c \in Packed, r1.e \in PackExp,
         NEW r2, r2 = Packed224(Add(c2, e2, c, e)), r2.status = "ok"
  PROVE  SameNumber(r1.c, r1.e, r2.c, r2.e)
<1>1. c1 \in Coef /\ c2 \in Coef
  BY PackedIsRoomy
<1>2. c1 = 0 <=> c2 = 0
  BY SameZero
<1>3. CASE c1 = 0
  <2>1. Add(c1, e1, c, e) = Num(c, e) /\ Add(c2, e2, c, e) = Num(c, e)
    BY <1>2, <1>3 DEF Add
  <2> QED BY <2>1, SameAsPacked
<1>4. CASE c1 # 0 /\ c # 0
  <2>1. Maximize(c1, e1) = Maximize(c2, e2)
    BY <1>4, SameMaximizes
  <2>2. Add(c1, e1, c, e) = Add(c2, e2, c, e)
    BY <1>2, <1>4, <2>1, SameSums
  <2> QED BY <2>2, SameAsPacked
<1>5. CASE c1 # 0 /\ c = 0
  <2>1. Add(c1, e1, c, e) = Num(c1, e1) /\ Add(c2, e2, c, e) = Num(c2, e2)
    BY <1>2, <1>5 DEF Add
  <2>2. r1 = Packed224(Num(c1, e1)) /\ r2 = Packed224(Num(c2, e2))
    BY <2>1
  <2> QED BY <1>1, <2>2, SamePacks
<1> QED BY <1>3, <1>4, <1>5

(***************************************************************************)
(* add, sub, mul and div of equal floats are equal.                        *)
(***************************************************************************)
LEMMA SameResults ==
  ASSUME NEW f \in {"add", "sub", "mul", "div"}, NEW x \in PackedFloat, NEW y \in PackedFloat, NEW z \in PackedFloat,
         Eq(x, y), NEW r1, r1 = BinaryResult(f, x, z), r1.status = "ok",
         NEW r2, r2 = BinaryResult(f, y, z), r2.status = "ok"
  PROVE  SameNumber(r1.c, r1.e, r2.c, r2.e)
<1>1. PICK c1 \in Packed, e1 \in PackExp, c2 \in Packed, e2 \in PackExp, c \in Packed, e \in PackExp :
        c1 = x.c /\ e1 = x.e /\ c2 = y.c /\ e2 = y.e /\ c = z.c /\ e = z.e
  BY DEF PackedFloat
<1>2. SameNumber(c1, e1, c2, e2)
  BY <1>1, OrdersCompare
<1>3. CASE f = "mul"
  <2>1. r1 = Packed224(Mul(c1, e1, c, e)) /\ r2 = Packed224(Mul(c2, e2, c, e))
    BY <1>1, <1>3 DEF BinaryResult
  <2> QED BY <1>2, <2>1, SameProducts
<1>4. CASE f \in {"add", "sub"}
  <2>1. r1.c \in Packed /\ r1.e \in PackExp
    BY <1>1, <1>4, SumAnswer
  <2>2. PICK v : v = IF f = "sub" THEN -c ELSE c
    OBVIOUS
  <2>3. r1 = Packed224(Add(c1, e1, v, e)) /\ r2 = Packed224(Add(c2, e2, v, e))
    <3>1. CASE f = "add"
      BY <1>1, <2>2, <3>1 DEF BinaryResult
    <3>2. CASE f = "sub"
      <4>1. Minus(c, e) = Num(-c, e)
        BY PackedIsRoomy DEF Minus
      <4>2. Sub(c1, e1, c, e) = Add(c1, e1, v, e) /\ Sub(c2, e2, c, e) = Add(c2, e2, v, e)
        BY <2>2, <3>2, <4>1 DEF Sub, Num
      <4>3. r1 = Packed224(Sub(c1, e1, c, e)) /\ r2 = Packed224(Sub(c2, e2, c, e))
        BY <1>1, <3>2 DEF BinaryResult
      <4> QED BY <4>2, <4>3
    <3> QED BY <1>4, <3>1, <3>2
  <2> QED BY <1>2, <2>1, <2>3, SameAdds
<1>5. CASE f = "div"
  <2>1. r1 = Packed224(Div(c1, e1, c, e)) /\ r2 = Packed224(Div(c2, e2, c, e))
    BY <1>1, <1>5 DEF BinaryResult
  <2>2. c # 0
    <3>1. ASSUME c = 0 PROVE FALSE
      <4>1. Div(c1, e1, c, e).status = "DivisionByZero"
        BY <3>1 DEF Div, Fail
      <4>2. Div(c1, e1, c, e).status = "ok"
        BY <2>1, PackedFrom
      <4> QED BY <4>1, <4>2
    <3> QED BY <3>1
  <2>3. r1.c \in Packed /\ r1.e \in PackExp
    BY <2>1, <2>2, QuotientIsPacked
  <2>4. c1 = 0 <=> c2 = 0
    BY <1>2, SameZero
  <2>5. Div(c1, e1, c, e) = Div(c2, e2, c, e)
    <3>1. CASE c1 = 0
      BY <2>2, <2>4, <3>1 DEF Div
    <3>2. CASE c1 # 0
      <4>1. Maximize(c1, e1) = Maximize(c2, e2)
        BY <1>2, <3>2, SameMaximizes
      <4> QED BY <2>4, <3>2, <4>1, SameSums
    <3> QED BY <3>1, <3>2
  <2> QED BY <2>1, <2>3, <2>5, SameAsPacked
<1> QED BY <1>3, <1>4, <1>5

(***************************************************************************)
(* There is one way to write a number without zeros at its end.            *)
(***************************************************************************)
LEMMA DigitsAreUnique ==
  ASSUME NEW n \in Nat, NEW m \in Nat, NEW k \in Nat, NEW l \in Nat,
         n % 10 # 0, m % 10 # 0, n * ten[k] = m * ten[l]
  PROVE  n = m /\ k = l
<1>1. ASSUME NEW x \in Nat, NEW y \in Nat, NEW i \in Nat, NEW j \in Nat,
             x * ten[i] = y * ten[j], y % 10 # 0, i <= j
      PROVE  x % 10 # 0 => i = j /\ x = y
  <2>1. ten[j] = ten[i] * ten[j - i] /\ j - i \in Nat
    BY <1>1, TenGrows
  <2>2. PICK I \in Nat, T \in Nat : I = ten[i] /\ T = ten[j - i] /\ I >= 1
    BY <1>1, <2>1, TenType
  <2>3. x = y * T
    <3>1. PICK w \in Nat : w = y * T
      BY <2>2
    <3>2. x * I = w * I
      <4>1. y * (I * T) = (y * T) * I
        BY <2>2
      <4> QED BY <1>1, <2>1, <2>2, <3>1, <4>1
    <3>3. x = w
      <4>1. x < w => x * I < w * I
        BY <2>2, <3>1
      <4>2. w < x => w * I < x * I
        BY <2>2, <3>1
      <4> QED BY <3>2, <3>1, <4>1, <4>2
    <3> QED BY <3>1, <3>3
  <2>4. CASE i = j
    <3>1. T = 1
      BY <2>2, <2>4, TenUnfolds
    <3> QED BY <2>3, <2>4, <3>1
  <2>5. CASE i < j
    <3>1. PICK h \in Nat : h + 1 = j - i
      <4>1. j - i - 1 \in Nat /\ (j - i - 1) + 1 = j - i
        BY <2>5
      <4> QED BY <4>1
    <3>2. PICK H \in Nat : H = ten[h] /\ T = 10 * H
      BY <2>2, <3>1, TenUnfolds, TenType
    <3>3. PICK g \in Nat : g = y * H
      BY <3>2
    <3>4. x = 10 * g
      BY <2>3, <3>2, <3>3
    <3>5. x % 10 = 0
      BY <3>3, <3>4
    <3> QED BY <3>5
  <2> QED BY <1>1, <2>4, <2>5
<1>2. CASE k <= l
  BY <1>1, <1>2
<1>3. CASE l <= k
  BY <1>1, <1>3
<1> QED BY <1>2, <1>3

(***************************************************************************)
(* Shown without exponent, a number has the same digits however it is      *)
(* written.                                                                *)
(***************************************************************************)
LEMMA LongerIsShown ==
  ASSUME NEW c1 \in Packed, NEW c2 \in Packed, c1 # 0, c2 # 0, NEW e1 \in PackExp, NEW e2 \in PackExp,
         NEW d \in Nat, Longer(c2, e2, c1, e1, d), PlainFits(c1, e1), PlainFits(c2, e2)
  PROVE  ToPlain(c1, e1) = ToPlain(c2, e2)
<1>1. /\ c1 \in Int /\ c2 \in Int /\ e1 \in Int /\ e2 \in Int
      /\ PackMax \in Nat /\ PackMin = -PackMax - 1
  BY PackedIsRoomy, WidthsAreInts DEF PackMin
<1>2. PICK T \in Nat : T = ten[d] /\ T >= 1 /\ c2 = c1 * T /\ e2 = e1 - d
  BY TenType DEF Longer
<1>3. PICK v1 \in 1..(PackMax + 1), v2 \in 1..(PackMax + 1) : v1 = Abs(c1) /\ v2 = Abs(c2)
  BY <1>1 DEF Packed, Abs
<1>4. v2 = v1 * T
  BY <1>1, <1>2, <1>3, TimesMagnitude
<1>5. (c1 < 0) <=> (c2 < 0)
  BY <1>1, <1>2
<1>6. PICK k1, n1 : k1 = TrailingZeros(WholeDigits(v1)) /\ n1 = v1 \div ten[k1]
  OBVIOUS
<1>7. PICK k2, n2 : k2 = TrailingZeros(WholeDigits(v2)) /\ n2 = v2 \div ten[k2]
  OBVIOUS
<1>8. k1 \in Nat /\ n1 \in Nat /\ n1 % 10 # 0 /\ v1 = n1 * ten[k1]
  BY <1>6, ZerosOf
<1>9. k2 \in Nat /\ n2 \in Nat /\ n2 % 10 # 0 /\ v2 = n2 * ten[k2]
  BY <1>7, ZerosOf
<1>10. n1 = n2 /\ k2 = k1 + d
  <2>1. k1 \in Nat /\ k2 \in Nat /\ n1 \in Nat /\ n2 \in Nat /\ n1 % 10 # 0 /\ n2 % 10 # 0
    BY <1>8, <1>9
  <2>2. ten[k1 + d] = ten[k1] * ten[d]
    BY <2>1, TenAdds
  <2>3. PICK X \in Nat : X = ten[k1]
    BY <2>1, TenType
  <2>4. n1 * (X * T) = (n1 * X) * T
    BY <1>2, <2>1, <2>3
  <2>5. n2 * ten[k2] = n1 * ten[k1 + d]
    BY <1>2, <1>4, <1>8, <1>9, <2>2, <2>3, <2>4
  <2>6. PICK l \in Nat : l = k1 + d
    BY <2>1
  <2>7. n2 = n1 /\ k2 = l
    BY <2>1, <2>5, <2>6, DigitsAreUnique
  <2> QED BY <2>6, <2>7
<1>11. e1 + k1 = e2 + k2
  BY <1>1, <1>2, <1>8, <1>10
<1>12. PICK q \in BOOLEAN : q = (c1 < 0) /\ q = (c2 < 0)
  <2>1. (c1 < 0) \in BOOLEAN /\ (c2 < 0) \in BOOLEAN
    BY <1>1
  <2>2. (c1 < 0) = (c2 < 0)
    BY <1>5, <2>1
  <2> QED BY <2>1, <2>2, Zenon
<1>13. ToPlain(c1, e1) = ShowPlain(q, n1, e1 + k1)
  <2>1. ToPlain(c1, e1) = ShowPlain(c1 < 0, n1, e1 + k1)
    BY <1>3, <1>6 DEF ToPlain
  <2> QED BY <1>12, <2>1
<1>14. ToPlain(c2, e2) = ShowPlain(q, n2, e2 + k2)
  <2>1. ToPlain(c2, e2) = ShowPlain(c2 < 0, n2, e2 + k2)
    BY <1>3, <1>7 DEF ToPlain
  <2> QED BY <1>12, <2>1
<1> QED BY <1>10, <1>11, <1>13, <1>14

(***************************************************************************)
(* Equal floats have the same text in a layout, if both have one.          *)
(***************************************************************************)
LEMMA SameStrings ==
  ASSUME NEW x \in PackedFloat, NEW y \in PackedFloat, SameNumber(x.c, x.e, y.c, y.e), NEW s \in BOOLEAN,
         NEW r1, r1 = ToDecimalString(x, s), r1.status = "ok",
         NEW r2, r2 = ToDecimalString(y, s), r2.status = "ok"
  PROVE  r1 = r2
<1>1. PICK c1 \in Packed, e1 \in PackExp, c2 \in Packed, e2 \in PackExp :
        c1 = x.c /\ e1 = x.e /\ c2 = y.c /\ e2 = y.e
  BY DEF PackedFloat
<1>2. SameNumber(c1, e1, c2, e2)
  BY <1>1
<1>3. c1 = 0 <=> c2 = 0
  BY <1>2, SameZero
<1>4. CASE c1 = 0
  BY <1>1, <1>3, <1>4 DEF ToDecimalString
<1>5. CASE c1 # 0 /\ s
  <2>1. r1 = ToScientific(Maximize(c1, e1)) /\ r2 = ToScientific(Maximize(c2, e2))
    BY <1>1, <1>3, <1>5 DEF ToDecimalString
  <2>2. Maximize(c1, e1) = Maximize(c2, e2)
    BY <1>2, <1>5, SameMaximizes
  <2> QED BY <2>1, <2>2
<1>6. CASE c1 # 0 /\ ~s
  <2>1. r1 = ToPlain(c1, e1) /\ r2 = ToPlain(c2, e2)
    BY <1>1, <1>3, <1>6 DEF ToDecimalString
  <2>2. PlainFits(c1, e1) /\ PlainFits(c2, e2)
    <3>1. Unformatable.status # "ok"
      BY DEF Unformatable, Fail
    <3>2. ASSUME NEW c, NEW e, ToPlain(c, e).status = "ok" PROVE PlainFits(c, e)
      BY <3>1, <3>2 DEF ToPlain
    <3> QED BY <2>1, <3>2
  <2>3. c1 \in Int /\ c2 \in Int /\ e1 \in Int /\ e2 \in Int
    BY PackedIsRoomy
  <2>4. PICK d \in Nat : Longer(c1, e1, c2, e2, d) \/ Longer(c2, e2, c1, e1, d)
    BY <1>2, <1>6, <2>3, SameIsLonger
  <2>5. CASE Longer(c1, e1, c2, e2, d)
    <3>1. ToPlain(c2, e2) = ToPlain(c1, e1)
      BY <1>3, <1>6, <2>2, <2>5, LongerIsShown
    <3> QED BY <2>1, <3>1
  <2>6. CASE Longer(c2, e2, c1, e1, d)
    <3>1. ToPlain(c1, e1) = ToPlain(c2, e2)
      BY <1>3, <1>6, <2>2, <2>6, LongerIsShown
    <3> QED BY <2>1, <3>1
  <2> QED BY <2>4, <2>5, <2>6
<1> QED BY <1>4, <1>5, <1>6

(***************************************************************************)
(* Equal numbers are on the same side of any float.                        *)
(***************************************************************************)
LEMMA SameOrder ==
  ASSUME NEW x, x.c \in Packed, x.e \in PackExp, NEW y, y.c \in Packed, y.e \in PackExp,
         SameNumber(x.c, x.e, y.c, y.e), NEW z, z.c \in Packed, z.e \in PackExp
  PROVE  (Lt(x, z) <=> Lt(y, z)) /\ (Gt(x, z) <=> Gt(y, z))
<1>1. PICK c1 \in Packed, e1 \in PackExp, c2 \in Packed, e2 \in PackExp, c \in Packed, e \in PackExp :
        c1 = x.c /\ e1 = x.e /\ c2 = y.c /\ e2 = y.e /\ c = z.c /\ e = z.e
  OBVIOUS
<1>2. /\ c1 \in Int /\ c2 \in Int /\ c \in Int /\ e1 \in Int /\ e2 \in Int /\ e \in Int
      /\ c1 \in Coef /\ c2 \in Coef
  BY PackedIsRoomy
<1>3. PICK w \in Int : w <= e1 /\ w <= e2 /\ w <= e
  BY <1>2
<1>4. PICK u1, u2, u : u1 = InUnits(c1, e1, w) /\ u2 = InUnits(c2, e2, w) /\ u = InUnits(c, e, w)
  OBVIOUS
<1>5. u1 = u2
  BY <1>1, <1>2, <1>3, <1>4, SameCompares
<1>6. /\ u1 \in Int /\ u \in Int
      /\ LessNumber(c1, e1, c, e) <=> u1 < u
      /\ LessNumber(c, e, c1, e1) <=> u < u1
  BY <1>2, <1>3, <1>4, LessCompares
<1>7. /\ LessNumber(c2, e2, c, e) <=> u2 < u
      /\ LessNumber(c, e, c2, e2) <=> u < u2
  BY <1>2, <1>3, <1>4, LessCompares
<1>8. /\ Lt(x, z) <=> LessNumber(x.c, x.e, z.c, z.e)
      /\ Gt(x, z) <=> LessNumber(z.c, z.e, x.c, x.e)
  BY OrdersCompare
<1>9. /\ Lt(y, z) <=> LessNumber(y.c, y.e, z.c, z.e)
      /\ Gt(y, z) <=> LessNumber(z.c, z.e, y.c, y.e)
  BY OrdersCompare
<1> QED BY <1>1, <1>5, <1>6, <1>7, <1>8, <1>9

(***************************************************************************)
(* Equal floats have equal magnitudes, if both can be packed.              *)
(***************************************************************************)
LEMMA SameMagnitudes ==
  ASSUME NEW c1 \in Packed, NEW c2 \in Packed, NEW e1 \in PackExp, NEW e2 \in PackExp, SameNumber(c1, e1, c2, e2),
         NEW r1, r1 = Packed224(AbsOf(c1, e1)), r1.status = "ok",
         NEW r2, r2 = Packed224(AbsOf(c2, e2)), r2.status = "ok"
  PROVE  /\ SameNumber(r1.c, r1.e, r2.c, r2.e)
         /\ r1.c \in Packed /\ r1.e \in PackExp /\ r2.c \in Packed /\ r2.e \in PackExp
<1>1. ASSUME NEW c \in Packed, NEW e \in PackExp
      PROVE  AbsOf(c, e) = Num(Abs(c), e) /\ Abs(c) \in Coef
  <2>1. /\ c \in Int /\ Minus(c, e) = Num(-c, e) /\ -c \in Coef /\ c \in Coef
    BY PackedIsRoomy DEF Minus
  <2> QED BY <2>1 DEF AbsOf, Abs
<1>2. /\ c1 \in Int /\ c2 \in Int /\ e1 \in Int /\ e2 \in Int
  BY PackedIsRoomy
<1>3. SameNumber(Abs(c1), e1, Abs(c2), e2)
  <2>1. CASE c1 = 0
    <3>1. Abs(c1) = 0 /\ Abs(c2) = 0
      BY <2>1, SameZero DEF Abs
    <3> QED BY <3>1 DEF SameNumber
  <2>2. CASE c1 # 0
    <3>1. PICK d \in Nat : Longer(c1, e1, c2, e2, d) \/ Longer(c2, e2, c1, e1, d)
      BY <1>2, <2>2, SameIsLonger
    <3>2. PICK i \in Nat : i = 0 /\ ten[i] = 1
      BY TenUnfolds
    <3>3. PICK m1, m2 : m1 = Abs(c1) /\ m2 = Abs(c2)
      OBVIOUS
    <3>4. m1 \in Coef /\ m2 \in Coef /\ m1 \in Int /\ m2 \in Int
      BY <1>1, <3>3, CoefIsInt
    <3>5. ten[d] \in Nat /\ ten[d] >= 1
      BY TenType
    <3>6. CASE Longer(c1, e1, c2, e2, d)
      <4>1. m1 = m2 * ten[d] /\ e1 = e2 - d
        BY <1>2, <3>3, <3>5, <3>6, TimesMagnitude DEF Longer
      <4>2. m1 * ten[i] = m2 * ten[d] /\ e1 - i = e2 - d
        BY <1>2, <3>2, <3>4, <4>1
      <4> QED BY <1>2, <3>2, <3>3, <3>4, <4>2, SameWithZeros
    <3>7. CASE Longer(c2, e2, c1, e1, d)
      <4>1. m2 = m1 * ten[d] /\ e2 = e1 - d
        BY <1>2, <3>3, <3>5, <3>7, TimesMagnitude DEF Longer
      <4>2. m1 * ten[d] = m2 * ten[i] /\ e1 - d = e2 - i
        BY <1>2, <3>2, <3>4, <4>1
      <4> QED BY <1>2, <3>2, <3>3, <3>4, <4>2, SameWithZeros
    <3> QED BY <3>1, <3>6, <3>7
  <2> QED BY <2>1, <2>2
<1>4. r1 = Packed224(Num(Abs(c1), e1)) /\ r2 = Packed224(Num(Abs(c2), e2))
  BY <1>1
<1> QED BY <1>1, <1>3, <1>4, SamePacks

(***************************************************************************)
(* format chooses the same layout for equal floats, and writes the same.   *)
(***************************************************************************)
LEMMA SameTexts ==
  ASSUME NEW x \in PackedFloat, NEW y \in PackedFloat, SameNumber(x.c, x.e, y.c, y.e), NEW limits \in FormatLimits,
         NEW r1, r1 = FormatWithin(x, limits), r1.status = "ok",
         NEW r2, r2 = FormatWithin(y, limits), r2.status = "ok"
  PROVE  r1 = r2
<1>1. PICK m1, m2 : m1 = Packed224(AbsOf(x.c, x.e)) /\ m2 = Packed224(AbsOf(y.c, y.e))
  OBVIOUS
<1>2. Lt(limits.min, limits.max)
  BY DEF FormatWithin, Fail
<1>3. r1 = FormatByMagnitude(x, m1, limits) /\ r2 = FormatByMagnitude(y, m2, limits)
  BY <1>1, <1>2 DEF FormatWithin
<1>4. m1.status = "ok" /\ m2.status = "ok"
  BY <1>3 DEF FormatByMagnitude
<1>5. /\ x.c \in Packed /\ x.e \in PackExp /\ y.c \in Packed /\ y.e \in PackExp
      /\ limits.min.c \in Packed /\ limits.min.e \in PackExp
      /\ limits.max.c \in Packed /\ limits.max.e \in PackExp
  BY DEF FormatLimits, PackedFloat
<1>6. /\ SameNumber(m1.c, m1.e, m2.c, m2.e)
      /\ m1.c \in Packed /\ m1.e \in PackExp /\ m2.c \in Packed /\ m2.e \in PackExp
  BY <1>1, <1>4, <1>5, SameMagnitudes
<1>7. Lt(m1, limits.min) <=> Lt(m2, limits.min)
  BY <1>5, <1>6, SameOrder
<1>8. Gt(m1, limits.max) <=> Gt(m2, limits.max)
  BY <1>5, <1>6, SameOrder
<1>9. PICK s1 \in BOOLEAN, s2 \in BOOLEAN : /\ s1 = (Lt(m1, limits.min) \/ Gt(m1, limits.max))
                                            /\ s2 = (Lt(m2, limits.min) \/ Gt(m2, limits.max))
  <2>1. /\ (Lt(m1, limits.min) \/ Gt(m1, limits.max)) \in BOOLEAN
        /\ (Lt(m2, limits.min) \/ Gt(m2, limits.max)) \in BOOLEAN
    OBVIOUS
  <2> QED BY <2>1, Zenon
<1>10. s1 = s2
  BY <1>7, <1>8, <1>9, Zenon
<1>11. r1 = ToDecimalString(x, s1) /\ r2 = ToDecimalString(y, s1)
  <2>1. r1 = ToDecimalString(x, s1)
    BY <1>3, <1>4, <1>9 DEF FormatByMagnitude
  <2>2. r2 = ToDecimalString(y, s2)
    BY <1>3, <1>4, <1>9 DEF FormatByMagnitude
  <2> QED BY <1>10, <2>1, <2>2
<1> QED BY <1>11, SameStrings
=============================================================================
