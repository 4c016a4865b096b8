--------------------- MODULE FloatImplementationProofs ---------------------
(***************************************************************************)
(* Powers of ten, truncating division, wrap-around and the digits packing  *)
(* drops; and what the functions of the implementation return, for every   *)
(* width that satisfies the assumptions of DecimalWidths and every         *)
(* argument: comparison, the maximized number, sums, products, quotients.  *)
(* All theorems but those of the log tables rest on these lemmas.          *)
(***************************************************************************)
EXTENDS FloatImplementation, PackContract, ExactNumbers, FiniteSetTheorems, TLAPS

-----------------------------------------------------------------------------
(***************************************************************************)
(* Powers of ten and widths.                                               *)
(***************************************************************************)

(***************************************************************************)
(* The powers of ten are positive and grow.                                *)
(***************************************************************************)
LEMMA Pow10Grows ==
  ASSUME NEW m \in 0..(D + 1), NEW n \in 0..(D + 1), m <= n
  PROVE  /\ Pow10[m] \in Nat /\ Pow10[m] >= 1
         /\ Pow10[n] \in Nat
         /\ Pow10[m] <= Pow10[n]
<1>0. D \in Nat
  BY WidthsAreInts
<1>1. Pow10[m] \in Nat \ {0} /\ Pow10[n] \in Nat \ {0} /\ Pow10[n - m] \in Nat \ {0}
  <2>1. n - m \in 0..(D + 1)
    BY <1>0
  <2> QED BY <2>1, Pow10Def
<1>2. Pow10[n] = Pow10[m] * Pow10[n - m]
  <2>1. n - m \in 0..(D + 1) /\ m + (n - m) <= D + 1 /\ m + (n - m) = n
    BY <1>0
  <2> QED BY <2>1, Pow10Def
<1>3. \A x, y \in Nat \ {0} : x <= x * y
  OBVIOUS
<1> QED BY <1>1, <1>2, <1>3

(***************************************************************************)
(* How the limits lie to each other.                                       *)
(***************************************************************************)
LEMMA Widths ==
  /\ CoefMax \in Nat /\ PackMax \in Nat /\ ExpMax \in Nat /\ PackExpMax \in Nat
  /\ PackMax >= 10 /\ PackMax < CoefMax /\ PackExpMax < ExpMax
  /\ Jump \in 0..(D + 1) /\ PackD + Jump \in 0..(D + 1)
<1>1. /\ 0 \in 0..(D + 1) /\ 1 \in 0..(D + 1) /\ PackD \in 0..(D + 1)
      /\ PackD + 1 \in 0..(D + 1) /\ D \in 0..(D + 1)
      /\ 1 <= PackD /\ PackD + 1 <= D
  BY WidthsAreInts, WidthsFitDecimals
<1>2. Pow10[1] <= Pow10[PackD] /\ Pow10[PackD + 1] <= Pow10[D]
  BY <1>1, Pow10Grows
<1>3. PackMax >= 10
  BY <1>1, <1>2, Pow10Grows, Pow10Def, WidthsFitDecimals, WidthsAreInts
<1>4. PackMax < CoefMax
  <2>1. Pow10[PackD + 1] \in Nat /\ Pow10[D] \in Nat
    BY <1>1, Pow10Grows
  <2> QED BY <2>1, <1>2, WidthsFitDecimals, WidthsAreInts
<1> QED BY <1>1, <1>3, <1>4, WidthsAreInts, WidthsFitDecimals, ExponentsFit

(***************************************************************************)
(* The next power of ten is ten times the last.                            *)
(***************************************************************************)
LEMMA NextPower ==
  ASSUME NEW k \in 0..(D + 1), k + 1 \in 0..(D + 1)
  PROVE  Pow10[k + 1] = Pow10[k] * 10 /\ Pow10[k] \in Nat /\ Pow10[k] >= 1
<1>1. k + 1 <= D + 1 /\ 1 \in 0..(D + 1)
  BY WidthsAreInts
<1>2. Pow10[k + 1] = Pow10[k] * Pow10[1] /\ Pow10[1] = 10
  BY <1>1, Pow10Def
<1>3. Pow10[k] \in Nat /\ Pow10[k] >= 1
  BY Pow10Grows
<1> QED BY <1>2, <1>3

-----------------------------------------------------------------------------
(***************************************************************************)
(* Division.                                                               *)
(***************************************************************************)

(***************************************************************************)
(* Multiplication is monotone.                                             *)
(***************************************************************************)
LEMMA TimesGrows ==
  ASSUME NEW a \in Nat, NEW x \in Int, NEW y \in Int, x <= y
  PROVE  a * x <= a * y
<1>1. y - x \in Nat /\ y = x + (y - x)
  OBVIOUS
<1>2. \A d \in Nat : a * (x + d) = a * x + a * d /\ a * d >= 0
  OBVIOUS
<1> QED BY <1>1, <1>2

(***************************************************************************)
(* The quotient is the number whose multiple is next below.                *)
(***************************************************************************)
LEMMA DivBounds ==
  ASSUME NEW m \in Nat, NEW y \in Nat, y >= 1
  PROVE  m \div y \in Nat /\ y * (m \div y) <= m /\ m < y * (m \div y + 1)
<1>1. /\ m \div y \in Nat /\ m % y \in 0..(y - 1)
      /\ m = y * (m \div y) + (m % y)
  OBVIOUS
<1>2. \A q \in Nat : y * (q + 1) = y * q + y
  OBVIOUS
<1> QED BY <1>1, <1>2

(***************************************************************************)
(* Only one multiple is next below.                                        *)
(***************************************************************************)
LEMMA DivUnique ==
  ASSUME NEW m \in Nat, NEW y \in Nat, y >= 1, NEW q \in Nat, y * q <= m, m < y * (q + 1)
  PROVE  m \div y = q
<1>1. PICK p \in Nat : p = m \div y
  OBVIOUS
<1>2. y * p <= m /\ m < y * (p + 1)
  BY <1>1, DivBounds
<1>3. ~(p + 1 <= q)
  <2>1. p + 1 <= q => y * (p + 1) <= y * q
    BY TimesGrows
  <2> QED BY <1>2, <2>1
<1>4. ~(q + 1 <= p)
  <2>1. q + 1 <= p => y * (q + 1) <= y * p
    BY TimesGrows
  <2> QED BY <1>2, <2>1
<1> QED BY <1>1, <1>3, <1>4

(***************************************************************************)
(* A quotient is at least, or below, a number as its multiple says.        *)
(***************************************************************************)
LEMMA DivAtLeast ==
  ASSUME NEW m \in Nat, NEW y \in Nat, y >= 1, NEW q \in Nat
  PROVE  /\ y * q <= m <=> q <= m \div y
         /\ m < y * q <=> m \div y < q
<1>1. PICK p \in Nat : p = m \div y
  BY DivBounds
<1>2. y * p <= m /\ m < y * (p + 1) /\ y * p \in Nat /\ y * (p + 1) \in Nat /\ y * q \in Nat
  BY <1>1, DivBounds
<1>3. q <= p => y * q <= y * p
  BY TimesGrows
<1>4. p + 1 <= q => y * (p + 1) <= y * q
  BY TimesGrows
<1> QED BY <1>1, <1>2, <1>3, <1>4

(***************************************************************************)
(* Division is monotone.                                                   *)
(***************************************************************************)
LEMMA DivGrows ==
  ASSUME NEW m \in Nat, NEW n \in Nat, m <= n, NEW y \in Nat, y >= 1
  PROVE  m \div y <= n \div y
<1>1. PICK q \in Nat : q = m \div y
  BY DivBounds
<1>2. y * q <= m
  BY <1>1, DivBounds
<1>3. y * q <= n
  <2>1. y * q \in Nat
    OBVIOUS
  <2> QED BY <1>2, <2>1
<1> QED BY <1>1, <1>3, DivAtLeast

(***************************************************************************)
(* Dividing twice is dividing by the product.                              *)
(***************************************************************************)
LEMMA DivTwice ==
  ASSUME NEW m \in Nat, NEW a \in Nat, NEW b \in Nat, a >= 1, b >= 1
  PROVE  (m \div a) \div b = m \div (a * b)
<1>1. PICK q \in Nat : q = m \div a
  OBVIOUS
<1>2. PICK p \in Nat : p = q \div b
  OBVIOUS
<1>3. a * q <= m /\ m < a * (q + 1) /\ b * p <= q /\ q + 1 <= b * (p + 1)
  BY <1>1, <1>2, DivBounds
<1>4. a * (b * p) <= a * q /\ a * (q + 1) <= a * (b * (p + 1))
  BY <1>3, TimesGrows
<1>5. a * (b * p) = (a * b) * p /\ a * (b * (p + 1)) = (a * b) * (p + 1) /\ a * b \in Nat /\ a * b >= 1
  OBVIOUS
<1>6. (a * b) * p <= m /\ m < (a * b) * (p + 1)
  BY <1>3, <1>4, <1>5
<1> QED BY <1>1, <1>2, <1>5, <1>6, DivUnique

(***************************************************************************)
(* A common factor of dividend and divisor does not matter.                *)
(***************************************************************************)
LEMMA DivCancels ==
  ASSUME NEW x \in Nat, NEW y \in Nat, y >= 1, NEW z \in Nat, z >= 1
  PROVE  (x * z) \div (y * z) = x \div y
<1>1. PICK q \in Nat : q = x \div y
  BY DivBounds
<1>2. y * q <= x /\ x + 1 <= y * (q + 1) /\ y * q \in Nat /\ y * (q + 1) \in Nat
  BY <1>1, DivBounds
<1>3. z * (y * q) <= z * x /\ z * (x + 1) <= z * (y * (q + 1))
  BY <1>2, TimesGrows
<1>4. /\ z * (y * q) = (y * z) * q /\ z * (y * (q + 1)) = (y * z) * (q + 1)
      /\ z * x = x * z /\ z * (x + 1) = x * z + z /\ x * z \in Nat
      /\ y * z \in Nat /\ y * z >= 1
  OBVIOUS
<1>5. (y * z) * q <= x * z /\ x * z < (y * z) * (q + 1)
  <2>1. (y * z) * (q + 1) \in Nat /\ (y * z) * q \in Nat
    BY <1>4
  <2> QED BY <1>3, <1>4, <2>1
<1> QED BY <1>1, <1>4, <1>5, DivUnique

(***************************************************************************)
(* Powers of ten on both sides of a division leave their difference.       *)
(***************************************************************************)
LEMMA PowersCancel ==
  ASSUME NEW x \in Nat, NEW y \in Nat, y >= 1, NEW n \in 0..(D + 1), NEW w \in 0..(D + 1)
  PROVE  (x * Pow10[n]) \div (y * Pow10[w]) =
           IF w <= n THEN (x * Pow10[n - w]) \div y ELSE x \div (y * Pow10[w - n])
<1>1. /\ D \in Nat /\ Pow10[n] \in Nat /\ Pow10[w] \in Nat /\ Pow10[n] >= 1 /\ Pow10[w] >= 1
      /\ n \in Int /\ w \in Int
  BY WidthsAreInts, Pow10Grows
<1>2. CASE w <= n
  <2>1. n - w \in 0..(D + 1) /\ (n - w) + w = n /\ (n - w) + w <= D + 1
    BY <1>1, <1>2
  <2>2. Pow10[n - w] \in Nat /\ Pow10[n] = Pow10[n - w] * Pow10[w]
    BY <2>1, Pow10Def, Pow10Grows
  <2>3. x * Pow10[n] = (x * Pow10[n - w]) * Pow10[w] /\ x * Pow10[n - w] \in Nat
    BY <1>1, <2>2
  <2> QED BY <1>1, <1>2, <2>3, DivCancels
<1>3. CASE ~(w <= n)
  <2>1. w - n \in 0..(D + 1) /\ (w - n) + n = w /\ (w - n) + n <= D + 1
    BY <1>1, <1>3
  <2>2. Pow10[w - n] \in Nat /\ Pow10[w - n] >= 1 /\ Pow10[w] = Pow10[w - n] * Pow10[n]
    BY <2>1, Pow10Def, Pow10Grows
  <2>3. y * Pow10[w] = (y * Pow10[w - n]) * Pow10[n] /\ y * Pow10[w - n] \in Nat
        /\ y * Pow10[w - n] >= 1
    BY <1>1, <2>2
  <2> QED BY <1>1, <1>3, <2>3, DivCancels
<1> QED BY <1>2, <1>3

(***************************************************************************)
(* Solidity's division by a positive number rounds towards zero: it does   *)
(* not grow the magnitude, and is zero only below the divisor.             *)
(***************************************************************************)
LEMMA QuotShrinks ==
  ASSUME NEW x \in Int, NEW y \in Nat, y >= 1
  PROVE  /\ Quot(x, y) \in Int
         /\ x >= 0 => Quot(x, y) \in 0..x
         /\ x < 0 => Quot(x, y) \in x..0
         /\ Quot(x, y) = 0 <=> Abs(x) < y
<1>1. PICK m \in Nat : m = Abs(x)
  BY DEF Abs
<1>2. /\ m \div y \in Nat /\ m % y \in 0..(y - 1)
      /\ m = y * (m \div y) + (m % y)
  OBVIOUS
<1>3. \A q \in Nat : q <= y * q /\ (q >= 1 => y <= y * q)
  OBVIOUS
<1>4. m \div y <= m
  BY <1>2, <1>3
<1>5. m \div y = 0 <=> m < y
  BY <1>2, <1>3
<1>6. Quot(x, y) = IF x < 0 THEN -(m \div y) ELSE m \div y
  <2>1. y >= 0 /\ ~(y < 0) /\ Abs(y) = y
    BY DEF Abs
  <2> QED BY <2>1, <1>1 DEF Quot
<1> QED BY <1>1, <1>2, <1>4, <1>5, <1>6 DEF Abs

(***************************************************************************)
(* Solidity's division by a positive number: that of the magnitudes, with  *)
(* the sign of the dividend.                                               *)
(***************************************************************************)
LEMMA QuotForm ==
  ASSUME NEW x \in Int, NEW y \in Nat, y >= 1
  PROVE  /\ Abs(x) \in Nat /\ Abs(x) \div y \in Nat
         /\ Quot(x, y) = IF x < 0 THEN -(Abs(x) \div y) ELSE Abs(x) \div y
         /\ Abs(Quot(x, y)) = Abs(x) \div y
<1>1. PICK m \in Nat : m = Abs(x)
  BY DEF Abs
<1>2. m \div y \in Nat
  BY DivBounds
<1>3. y >= 0 /\ ~(y < 0) /\ Abs(y) = y
  BY DEF Abs
<1>4. Quot(x, y) = IF x < 0 THEN -(m \div y) ELSE m \div y
  BY <1>1, <1>3 DEF Quot
<1>5. PICK q \in Nat : q = m \div y
  BY <1>2
<1> QED BY <1>1, <1>4, <1>5 DEF Abs

(***************************************************************************)
(* Dividing by one changes nothing.                                        *)
(***************************************************************************)
LEMMA QuotByOne ==
  ASSUME NEW x \in Int
  PROVE  Quot(x, 1) = x
<1>1. PICK m \in Nat : m = Abs(x)
  BY QuotForm
<1>2. m \div 1 = m
  OBVIOUS
<1> QED BY <1>1, <1>2, QuotForm DEF Abs

(***************************************************************************)
(* Solidity's division twice is that by the product: dropping digits one   *)
(* by one is dropping them at once.                                        *)
(***************************************************************************)
LEMMA QuotTwice ==
  ASSUME NEW x \in Int, NEW a \in Nat, NEW b \in Nat, a >= 1, b >= 1
  PROVE  Quot(Quot(x, a), b) = Quot(x, a * b)
<1>1. PICK m \in Nat : m = Abs(x)
  BY QuotForm
<1>2. PICK q \in Nat : q = m \div a
  BY DivBounds
<1>3. PICK p \in Nat : p = q \div b
  BY DivBounds
<1>4. a * b \in Nat /\ a * b >= 1
  OBVIOUS
<1>5. m \div (a * b) = p
  <2>1. (m \div a) \div b = m \div (a * b)
    BY DivTwice
  <2> QED BY <1>2, <1>3, <2>1
<1>6. Quot(x, a * b) = IF x < 0 THEN -p ELSE p
  BY <1>1, <1>4, <1>5, QuotForm
<1>7. Quot(x, a) = (IF x < 0 THEN -q ELSE q) /\ Quot(x, a) \in Int /\ Abs(Quot(x, a)) = q
  BY <1>1, <1>2, QuotForm
<1>8. Quot(Quot(x, a), b) = IF Quot(x, a) < 0 THEN -p ELSE p
  BY <1>3, <1>7, QuotForm
<1>9. q = 0 => p = 0
  BY <1>3, DivBounds
<1> QED BY <1>6, <1>7, <1>8, <1>9

(***************************************************************************)
(* A number of at least y times p leaves at least p.                       *)
(***************************************************************************)
LEMMA QuotIsLarge ==
  ASSUME NEW x \in Int, NEW y \in Nat, y >= 1, NEW p \in Nat, y * p <= Abs(x)
  PROVE  p <= Abs(Quot(x, y))
<1>1. PICK m \in Nat : m = Abs(x)
  BY QuotForm
<1>2. PICK q \in Nat : q = m \div y
  BY DivBounds
<1>3. m < y * (q + 1)
  BY <1>2, DivBounds
<1>4. ~(q + 1 <= p)
  <2>1. q + 1 <= p => y * (q + 1) <= y * p
    BY TimesGrows
  <2> QED BY <1>1, <1>3, <2>1
<1> QED BY <1>1, <1>2, <1>4, QuotForm

(***************************************************************************)
(* Dropping k digits truncates: less than one unit of the last place is    *)
(* lost, and the sign is kept.                                             *)
(***************************************************************************)
LEMMA QuotTruncates ==
  ASSUME NEW x \in Int, NEW y \in Nat, y >= 1, Quot(x, y) # 0
  PROVE  /\ (Quot(x, y) < 0) = (x < 0)
         /\ Abs(Quot(x, y)) * y <= Abs(x)
         /\ Abs(x) < (Abs(Quot(x, y)) + 1) * y
<1>1. PICK m \in Nat : m = Abs(x)
  BY QuotForm
<1>2. PICK q \in Nat : q = m \div y
  BY DivBounds
<1>3. Abs(Quot(x, y)) = q /\ Quot(x, y) = IF x < 0 THEN -q ELSE q
  BY <1>1, <1>2, QuotForm
<1>4. y * q <= m /\ m < y * (q + 1)
  BY <1>2, DivBounds
<1>5. q * y = y * q /\ (q + 1) * y = y * (q + 1)
  OBVIOUS
<1>6. (Quot(x, y) < 0) <=> (x < 0)
  BY <1>3
<1> QED BY <1>1, <1>3, <1>4, <1>5, <1>6

-----------------------------------------------------------------------------
(***************************************************************************)
(* Wrapping.                                                               *)
(***************************************************************************)

(***************************************************************************)
(* Wrapped numbers are of the type.                                        *)
(***************************************************************************)
LEMMA WrapType ==
  ASSUME NEW max \in Nat, NEW x \in Int
  PROVE  WrapTo(x, max) \in (-max - 1)..max
<1> DEFINE n == 2 * (max + 1)
<1>1. n \in Nat /\ n >= 1
  OBVIOUS
<1>2. (x + max + 1) % n \in 0..(n - 1)
  BY <1>1
<1> HIDE DEF n
<1>3. WrapTo(x, max) = ((x + max + 1) % n) - max - 1
  BY DEF WrapTo, n
<1>4. n = 2 * (max + 1)
  BY DEF n
<1> QED BY <1>1, <1>2, <1>3, <1>4

(***************************************************************************)
(* The wrapped number differs by a multiple of the type's size.            *)
(***************************************************************************)
LEMMA WrapIsCongruent ==
  ASSUME NEW max \in Nat, NEW x \in Int
  PROVE  \E q \in Int : x = WrapTo(x, max) + q * (2 * (max + 1))
<1> DEFINE n == 2 * (max + 1)
           y == x + max + 1
<1>1. n \in Nat /\ n >= 1 /\ y \in Int
  OBVIOUS
<1>2. WrapTo(x, max) = (y % n) - max - 1
  BY DEF WrapTo
<1>3. x = y - max - 1
  BY <1>1
<1> HIDE DEF n, y
<1>4. y \div n \in Int /\ y = n * (y \div n) + (y % n) /\ y % n \in Int
  BY <1>1
<1>5. n * (y \div n) = (y \div n) * n
  BY <1>1, <1>4
<1>6. x = WrapTo(x, max) + (y \div n) * n
  BY <1>1, <1>2, <1>3, <1>4, <1>5
<1> QED BY <1>4, <1>6 DEF n

(***************************************************************************)
(* Numbers that differ by a multiple of n and by less than n are equal.    *)
(***************************************************************************)
LEMMA CongruentAndNear ==
  ASSUME NEW n \in Nat, n >= 1, NEW x \in Int, NEW y \in Int, NEW q \in Int, x = y + q * n,
         x - y < n, y - x < n
  PROVE  x = y
<1>1. x - y = n * q
  <2>1. q * n = n * q
    OBVIOUS
  <2> QED BY <2>1
<1>2. ~(1 <= q)
  <2>1. 1 <= q => n * 1 <= n * q
    BY TimesGrows
  <2> QED BY <1>1, <2>1
<1>3. ~(q <= -1)
  <2>1. q <= -1 => n * q <= n * (-1)
    BY TimesGrows
  <2> QED BY <1>1, <2>1
<1>4. q = 0
  BY <1>2, <1>3
<1> QED BY <1>1, <1>4

(***************************************************************************)
(* A number of the type is not wrapped.                                    *)
(***************************************************************************)
LEMMA WrapKeepsType ==
  ASSUME NEW max \in Nat, NEW x \in (-max - 1)..max
  PROVE  WrapTo(x, max) = x
<1> DEFINE n == 2 * (max + 1)
           w == WrapTo(x, max)
<1>1. x \in Int /\ n \in Nat /\ n >= 1
  OBVIOUS
<1>2. w \in (-max - 1)..max
  BY <1>1, WrapType
<1>3. PICK q \in Int : x = w + q * n
  BY <1>1, WrapIsCongruent
<1>4. w \in Int /\ x - w < n /\ w - x < n
  BY <1>2
<1> HIDE DEF n, w
<1>5. x = w
  BY <1>1, <1>3, <1>4, CongruentAndNear
<1> QED BY <1>5 DEF w

(***************************************************************************)
(* The same of exponents.                                                  *)
(***************************************************************************)
LEMMA WrapExpType ==
  ASSUME NEW x \in Int
  PROVE  WrapExp(x) \in Exp
BY Widths, WrapType DEF WrapExp, Exp, ExpMin

(***************************************************************************)
(* An exponent that fits does not wrap.                                    *)
(***************************************************************************)
LEMMA WrapExpKeepsType ==
  ASSUME NEW x \in Exp
  PROVE  WrapExp(x) = x
BY Widths, WrapKeepsType DEF WrapExp, Exp, ExpMin

(***************************************************************************)
(* An exponent that wraps is off by whole turns.                           *)
(***************************************************************************)
LEMMA ExpCongruent ==
  ASSUME NEW x \in Int
  PROVE  \E q \in Int : x = WrapExp(x) + q * (2 * (ExpMax + 1))
BY Widths, WrapIsCongruent DEF WrapExp

-----------------------------------------------------------------------------
(***************************************************************************)
(* Coefficients.                                                           *)
(***************************************************************************)

(***************************************************************************)
(* The powers of ten around the largest coefficient.                       *)
(***************************************************************************)
LEMMA PowersOfCoef ==
  /\ D \in Nat /\ D >= 2
  /\ D - 2 \in 0..(D + 1) /\ D - 1 \in 0..(D + 1) /\ D \in 0..(D + 1) /\ D + 1 \in 0..(D + 1)
  /\ Pow10[D - 2] \in Nat /\ Pow10[D - 2] >= 1
  /\ Pow10[D - 1] = Pow10[D - 2] * 10 /\ Pow10[D] = Pow10[D - 1] * 10
  /\ Pow10[D + 1] = Pow10[D] * 10
  /\ Pow10[D] <= CoefMax /\ CoefMax + 1 < Pow10[D + 1] /\ CoefMax \in Nat /\ CoefMax >= 10
<1>1. D \in Nat /\ D >= 2
  BY WidthsAreInts, WidthsFitDecimals
<1>2. /\ D - 2 \in 0..(D + 1) /\ D - 1 \in 0..(D + 1) /\ D \in 0..(D + 1) /\ D + 1 \in 0..(D + 1)
      /\ D - 2 + 1 = D - 1 /\ D - 1 + 1 = D
  BY <1>1
<1>3. Pow10[D - 2] \in Nat /\ Pow10[D - 2] >= 1 /\ Pow10[D] \in Nat /\ Pow10[D + 1] \in Nat
  BY <1>2, Pow10Grows
<1>4. Pow10[D - 1] = Pow10[D - 2] * 10
  BY <1>2, NextPower
<1>5. Pow10[D] = Pow10[D - 1] * 10
  BY <1>2, NextPower
<1>6. Pow10[D + 1] = Pow10[D] * 10
  BY <1>2, NextPower
<1>7. Pow10[D] <= CoefMax /\ CoefMax + 1 < Pow10[D + 1] /\ CoefMax \in Nat
  BY <1>3, WidthsAreInts, WidthsFitDecimals
<1> QED BY <1>1, <1>2, <1>3, <1>4, <1>5, <1>6, <1>7

(***************************************************************************)
(* The magnitude of a coefficient of the type, and what is surely one.     *)
(***************************************************************************)
LEMMA CoefMagnitude ==
  ASSUME NEW x \in Int
  PROVE  /\ Abs(x) \in Nat
         /\ Abs(x) <= CoefMax => x \in Coef
         /\ x \in Coef => Abs(x) <= CoefMax + 1
BY Widths DEF Coef, CoefMin, Abs

(***************************************************************************)
(* Multiplying by a positive number multiplies the magnitude.              *)
(***************************************************************************)
LEMMA TimesMagnitude ==
  ASSUME NEW x \in Int, NEW y \in Nat, y >= 1
  PROVE  x * y \in Int /\ Abs(x * y) = Abs(x) * y
<1>1. PICK m \in Nat : m = Abs(x) /\ (x = m \/ x = -m)
  BY DEF Abs
<1>2. m * y \in Nat /\ (-m) * y = -(m * y)
  OBVIOUS
<1>3. x * y = m * y \/ x * y = -(m * y)
  BY <1>1, <1>2
<1>4. PICK p \in Nat : p = m * y
  BY <1>2
<1>5. Abs(x * y) = p
  BY <1>3, <1>4 DEF Abs
<1> QED BY <1>1, <1>3, <1>4, <1>5

(***************************************************************************)
(* The magnitude and the sign of any product.                              *)
(***************************************************************************)
LEMMA ProductMagnitude ==
  ASSUME NEW x \in Int, NEW y \in Int
  PROVE  /\ x * y \in Int /\ Abs(x) \in Nat /\ Abs(y) \in Nat
         /\ Abs(x * y) = Abs(x) * Abs(y)
         /\ x * y = 0 <=> x = 0 \/ y = 0
<1>1. PICK m \in Nat : m = Abs(x) /\ (x = m \/ x = -m)
  BY DEF Abs
<1>2. PICK n \in Nat : n = Abs(y) /\ (y = n \/ y = -n)
  BY DEF Abs
<1>3. PICK p \in Nat : p = m * n
  OBVIOUS
<1>4. (-m) * n = -(m * n) /\ m * (-n) = -(m * n) /\ (-m) * (-n) = m * n
  OBVIOUS
<1>5. x * y = p \/ x * y = -p
  BY <1>1, <1>2, <1>3, <1>4
<1>6. p = 0 <=> m = 0 \/ n = 0
  BY <1>3
<1> QED BY <1>1, <1>2, <1>3, <1>5, <1>6 DEF Abs

(***************************************************************************)
(* Signs of products.                                                      *)
(***************************************************************************)
LEMMA SignOfProduct ==
  ASSUME NEW x \in Int, NEW y \in Int, NEW z \in Int,
         z = 0 <=> (x = 0 \/ y = 0), z # 0 => (z < 0 <=> (x < 0) # (y < 0))
  PROVE  Sign(z) = Sign(x) * Sign(y)
<1>1. CASE x = 0 \/ y = 0
  BY <1>1 DEF Sign
<1>2. CASE x > 0 /\ y > 0
  BY <1>2 DEF Sign
<1>3. CASE x > 0 /\ y < 0
  BY <1>3 DEF Sign
<1>4. CASE x < 0 /\ y > 0
  BY <1>4 DEF Sign
<1>5. CASE x < 0 /\ y < 0
  BY <1>5 DEF Sign
<1> QED BY <1>1, <1>2, <1>3, <1>4, <1>5

(***************************************************************************)
(* A product computed unchecked and divided back gives the factor just     *)
(* where it fits: a wrapped one is off by a multiple of 2^256, and the     *)
(* division loses less than the divisor.                                   *)
(***************************************************************************)
LEMMA DividingBackFindsWrap ==
  ASSUME NEW x \in Int, NEW y \in Nat, y >= 1, y <= CoefMax
  PROVE  /\ x * y \in Coef => WrapCoef(x * y) = x * y
         /\ x = Quot(WrapCoef(x * y), y) <=> x * y \in Coef
<1> DEFINE p == x * y
           w == WrapCoef(p)
           n == 2 * (CoefMax + 1)
<1>1. CoefMax \in Nat /\ p \in Int /\ n \in Nat /\ n >= y /\ n >= 1
  BY WidthsAreInts
<1>2. w \in Coef /\ w \in Int
  BY <1>1, WrapType DEF WrapCoef, Coef, CoefMin
<1>3. p \in Coef => w = p
  BY <1>1, WrapKeepsType DEF WrapCoef, Coef, CoefMin
<1>4. PICK q \in Int : p = w + q * n
  BY <1>1, WrapIsCongruent DEF WrapCoef
<1>5. /\ \A z \in Nat : y * (z + 1) = y * z + y /\ y * (-z) = -(y * z)
      /\ p = y * x
  OBVIOUS
<1> HIDE DEF p, w, n
<1>6. PICK m \in Nat : m = Abs(w) /\ (w >= 0 => w = m) /\ (w < 0 => w = -m)
  BY <1>2 DEF Abs
<1>7. PICK z \in Nat : z = m \div y
  BY DivBounds
<1>8. Quot(w, y) = (IF w < 0 THEN -z ELSE z) /\ y * z <= m /\ m < y * z + y
  <2>1. Quot(w, y) = IF w < 0 THEN -z ELSE z
    BY <1>2, <1>6, <1>7, QuotForm
  <2>2. y * z <= m /\ m < y * (z + 1)
    BY <1>7, DivBounds
  <2> QED BY <1>5, <2>1, <2>2
<1>9. PICK u \in Nat : u = y * z
  OBVIOUS
<1>10. p = w => x = Quot(w, y)
  <2>1. Abs(x * y) = Abs(x) * y /\ Abs(x) \in Nat
    BY TimesMagnitude, QuotForm
  <2>2. SUFFICES ASSUME p = w PROVE x = Quot(w, y)
    OBVIOUS
  <2>3. m = y * Abs(x)
    BY <1>6, <2>1, <2>2 DEF p
  <2>4. m < y * (Abs(x) + 1)
    <3>1. y * (Abs(x) + 1) = y * Abs(x) + y
      BY <2>1
    <3> QED BY <2>3, <3>1
  <2>5. m \div y = Abs(x)
    BY <2>1, <2>3, <2>4, DivUnique
  <2>6. x < 0 <=> w < 0
    BY <1>2, <1>5, <2>2
  <2> QED BY <1>7, <1>8, <2>5, <2>6 DEF Abs
<1>11. ASSUME x = Quot(w, y) PROVE p = w
  <2>1. p = IF w < 0 THEN -u ELSE u
    BY <1>2, <1>5, <1>8, <1>9, <1>11
  <2>2. p - w < n /\ w - p < n
    BY <1>1, <1>2, <1>6, <1>8, <1>9, <2>1
  <2> QED BY <1>1, <1>2, <1>4, <2>2, CongruentAndNear
<1>12. x = Quot(w, y) <=> p \in Coef
  BY <1>2, <1>3, <1>10, <1>11
<1> QED BY <1>3, <1>12 DEF w, p

-----------------------------------------------------------------------------
(***************************************************************************)
(* Raised exponents.                                                       *)
(***************************************************************************)

(***************************************************************************)
(* An exponent that packs after being raised was not wrapped: it is 2^255  *)
(* away from the packed range.                                             *)
(***************************************************************************)
LEMMA PackedIsNotWrapped ==
  ASSUME NEW x \in Exp, NEW k \in 0..(D + 1), WrapExp(x + k) \in PackExp
  PROVE  WrapExp(x + k) = x + k
<1> DEFINE w == WrapExp(x + k)
<1>1. /\ x + k \in Int /\ w \in Int
      /\ (x + k) - w < 2 * (ExpMax + 1) /\ w - (x + k) < 2 * (ExpMax + 1)
      /\ 2 * (ExpMax + 1) \in Nat /\ 2 * (ExpMax + 1) >= 1
  BY Widths, ExponentsFit, WidthsAreInts DEF Exp, ExpMin, PackExp, PackExpMin
<1>2. PICK q \in Int : x + k = w + q * (2 * (ExpMax + 1))
  BY <1>1, ExpCongruent
<1> HIDE DEF w
<1>3. x + k = w
  BY <1>1, <1>2, CongruentAndNear
<1> QED BY <1>3 DEF w

(***************************************************************************)
(* Raising an exponent step by step, wrapping at each, wraps as raising it *)
(* at once.                                                                *)
(***************************************************************************)
LEMMA WrapTwice ==
  ASSUME NEW x \in Int, NEW k \in Int
  PROVE  WrapExp(WrapExp(x) + k) = WrapExp(x + k)
<1> DEFINE n == 2 * (ExpMax + 1)
           w == WrapExp(x)
           u == WrapExp(w + k)
           v == WrapExp(x + k)
<1>1. n \in Nat /\ n >= 1 /\ n \in Int
  BY Widths
<1>2. w \in Exp /\ w \in Int
  BY Widths, WrapExpType DEF Exp, ExpMin
<1>3. u \in Exp /\ v \in Exp /\ u \in Int /\ v \in Int
  BY <1>2, Widths, WrapExpType DEF Exp, ExpMin
<1>4. PICK p \in Int : x = w + p * n
  BY ExpCongruent
<1>5. PICK q \in Int : w + k = u + q * n
  BY <1>2, ExpCongruent
<1>6. PICK r \in Int : x + k = v + r * n
  BY ExpCongruent
<1> HIDE DEF n, w, u, v
<1>7. v = u + (q + p - r) * n
  <2>1. (q + p - r) * n = q * n + p * n - r * n
    BY <1>1
  <2>2. q * n \in Int /\ p * n \in Int /\ r * n \in Int
    BY <1>1
  <2> QED BY <1>1, <1>2, <1>3, <1>4, <1>5, <1>6, <2>1, <2>2
<1>8. v - u < n /\ u - v < n
  BY <1>3, Widths DEF Exp, ExpMin, n
<1>9. v = u
  BY <1>1, <1>3, <1>6, <1>7, <1>8, CongruentAndNear
<1> QED BY <1>9 DEF u, v, w

-----------------------------------------------------------------------------
(***************************************************************************)
(* Dropped digits.                                                         *)
(***************************************************************************)

(***************************************************************************)
(* A coefficient of the type has at most D + 1 digits.                     *)
(***************************************************************************)
LEMMA CoefIsInt ==
  ASSUME NEW x \in Coef
  PROVE  x \in Int /\ Abs(x) \in Nat /\ Abs(x) <= Pow10[D + 1]
<1>1. D + 1 \in 0..(D + 1)
  BY WidthsAreInts
<1>2. Pow10[D + 1] \in Nat /\ CoefMax < Pow10[D + 1]
  BY <1>1, Pow10Grows, WidthsAreInts, WidthsFitDecimals
<1> QED BY <1>1, <1>2, Widths DEF Coef, CoefMin, Abs

(***************************************************************************)
(* 10^(PackD + 1) and whatever is larger does not fit; whatever does not   *)
(* fit has two digits.                                                     *)
(***************************************************************************)
LEMMA TooManyDigits ==
  ASSUME NEW x \in Int
  PROVE  /\ Pow10[PackD + 1] <= Abs(x) => ~Fits(x)
         /\ ~Fits(x) => 10 <= Abs(x)
<1>1. PackD + 1 \in 0..(D + 1) /\ PackMax \in Nat /\ PackMax >= 10
  BY WidthsAreInts, WidthsFitDecimals, Widths
<1>2. Pow10[PackD + 1] \in Nat /\ PackMax + 1 < Pow10[PackD + 1]
  BY <1>1, Pow10Grows, WidthsFitDecimals
<1> QED BY <1>1, <1>2 DEF Fits, Packed, PackMin, Abs

(***************************************************************************)
(* A coefficient that still does not fit has another digit to drop.        *)
(***************************************************************************)
LEMMA DigitsLeft ==
  ASSUME NEW x \in Coef, NEW k \in 0..(D + 1), ~Fits(Quot(x, Pow10[k]))
  PROVE  k + 1 \in 0..(D + 1)
<1>1. x \in Int /\ Abs(x) \in Nat /\ Abs(x) <= Pow10[D + 1] /\ D \in Nat
  BY CoefIsInt, WidthsAreInts
<1>2. Pow10[k] \in Nat /\ Pow10[k] >= 1
  BY Pow10Grows
<1>3. 10 <= Abs(Quot(x, Pow10[k])) /\ Abs(Quot(x, Pow10[k])) = Abs(x) \div Pow10[k]
  <2>1. Quot(x, Pow10[k]) \in Int
    BY <1>1, <1>2, QuotShrinks
  <2>2. Abs(Quot(x, Pow10[k])) = Abs(x) \div Pow10[k]
    BY <1>1, <1>2, QuotForm
  <2> QED BY <2>1, <2>2, TooManyDigits
<1>4. ASSUME k = D + 1 PROVE FALSE
  <2>1. PICK q \in Nat : q = Abs(x) \div Pow10[k]
    BY <1>1, <1>2, DivBounds
  <2>2. Pow10[k] * q <= Abs(x) /\ 10 <= q
    BY <1>1, <1>2, <1>3, <2>1, DivBounds
  <2>3. Pow10[k] * 10 <= Pow10[k] * q
    BY <1>2, <2>2, TimesGrows
  <2> QED BY <1>1, <1>2, <1>4, <2>2, <2>3
<1> QED BY <1>1, <1>4

(***************************************************************************)
(* The jump is taken only where all its digits have to go.                 *)
(***************************************************************************)
LEMMA JumpIsNeeded ==
  ASSUME NEW x \in Coef, Quot(x, Pow10[PackD + Jump]) # 0, NEW j \in 0..(Jump - 1)
  PROVE  ~Fits(Quot(x, Pow10[j]))
<1> DEFINE p == PackD + Jump - j
<1>1. /\ x \in Int /\ Abs(x) \in Nat /\ D \in Nat /\ PackD \in Nat /\ Jump \in Nat
      /\ j \in 0..(D + 1) /\ p \in 0..(D + 1) /\ PackD + 1 \in 0..(D + 1) /\ PackD + 1 <= p
      /\ j + p = PackD + Jump /\ PackD + Jump \in 0..(D + 1)
  BY CoefIsInt, WidthsAreInts, WidthsFitDecimals
<1> HIDE DEF p
<1>2. /\ Pow10[j] \in Nat /\ Pow10[j] >= 1 /\ Pow10[p] \in Nat
      /\ Pow10[PackD + 1] \in Nat /\ Pow10[PackD + 1] <= Pow10[p]
      /\ Pow10[PackD + Jump] \in Nat /\ Pow10[PackD + Jump] >= 1
  BY <1>1, Pow10Grows
<1>3. Pow10[j] * Pow10[p] <= Abs(x)
  <2>1. Pow10[j + p] = Pow10[j] * Pow10[p]
    <3>1. j + p <= D + 1
      BY <1>1
    <3> QED BY <1>1, <3>1, Pow10Def
  <2>2. ~(Abs(x) < Pow10[PackD + Jump])
    BY <1>1, <1>2, QuotShrinks
  <2> QED BY <1>1, <1>2, <2>1, <2>2
<1>4. Pow10[p] <= Abs(Quot(x, Pow10[j]))
  BY <1>1, <1>2, <1>3, QuotIsLarge
<1>5. Quot(x, Pow10[j]) \in Int /\ Abs(Quot(x, Pow10[j])) \in Nat
  BY <1>1, <1>2, QuotShrinks, QuotForm
<1> QED BY <1>2, <1>4, <1>5, TooManyDigits

(***************************************************************************)
(* The contract's number of digits is the only one there is.               *)
(***************************************************************************)
LEMMA DropsAreUnique ==
  ASSUME NEW x, NEW k \in 0..(D + 1), Drops(x, k)
  PROVE  DigitsToDrop(x) = k
<1>1. D \in Nat
  BY WidthsAreInts
<1>2. ASSUME NEW i \in 0..(D + 1), Drops(x, i) PROVE i = k
  <2>1. ~(i < k) /\ ~(k < i)
    BY <1>1, <1>2 DEF Drops
  <2> QED BY <1>1, <2>1
<1> QED BY <1>2 DEF DigitsToDrop

(***************************************************************************)
(* What the contract says of a number whose raised exponent packs.         *)
(***************************************************************************)
LEMMA LossyInRange ==
  ASSUME NEW x, NEW y, x # 0, WrapExp(y + DigitsToDrop(x)) \in PackExp
  PROVE  PackLossy(x, y) =
           Float(Quot(x, Pow10[DigitsToDrop(x)]), WrapExp(y + DigitsToDrop(x)), DigitsToDrop(x) = 0)
<1>1. PICK flag \in BOOLEAN : flag = (DigitsToDrop(x) = 0)
  BY Zenon
<1>2. ~(WrapExp(y + DigitsToDrop(x)) < PackExpMin)
  BY Widths DEF PackExp, PackExpMin
<1> QED BY <1>1, <1>2 DEF PackLossy

(***************************************************************************)
(* A fixed point value that loses its last digit before it is packed still *)
(* loses at most D + 1 digits, and loses them as if at once.               *)
(***************************************************************************)
LEMMA LastDigitGoesFirst ==
  ASSUME NEW v \in (CoefMax + 1)..UintMax, NEW k \in 0..(D + 1), Quot(v \div 10, Pow10[k]) # 0
  PROVE  /\ k + 1 \in 0..(D + 1)
         /\ Quot(v \div 10, Pow10[k]) = Quot(v, Pow10[k + 1])
<1>1. v \in Nat /\ v <= 2 * CoefMax + 1 /\ CoefMax \in Nat /\ D \in Nat /\ D + 1 \in 0..(D + 1)
  BY Widths, WidthsAreInts DEF UintMax
<1>2. PICK w \in Nat : w = v \div 10
  BY <1>1
<1>3. 10 * w <= v
  BY <1>1, <1>2, DivBounds
<1>4. Pow10[k] \in Nat /\ Pow10[k] >= 1
  BY Pow10Grows
<1>5. Pow10[k] <= w
  BY <1>2, <1>4, QuotShrinks DEF Abs
<1>6. k # D + 1
  <2>1. CoefMax < Pow10[D + 1] /\ Pow10[D + 1] \in Nat
    BY <1>1, WidthsAreInts, WidthsFitDecimals, Pow10Grows
  <2> QED BY <1>1, <1>3, <1>5, <2>1
<1>7. k + 1 \in 0..(D + 1)
  BY <1>1, <1>6
<1>8. Pow10[k + 1] = Pow10[k] * 10
  BY <1>7, NextPower
<1>9. Pow10[k] * 10 = 10 * Pow10[k]
  BY <1>4
<1>10. Quot(v, 10) = w
  BY <1>1, <1>2, QuotForm DEF Abs
<1>11. Quot(Quot(v, 10), Pow10[k]) = Quot(v, 10 * Pow10[k])
  <2>1. 10 \in Nat /\ 10 >= 1 /\ v \in Int
    BY <1>1
  <2> QED BY <1>4, <2>1, QuotTwice, Zenon
<1> QED BY <1>2, <1>7, <1>8, <1>9, <1>10, <1>11

-----------------------------------------------------------------------------
(***************************************************************************)
(* Powers of ten.  The library proves induction only for operators given   *)
(* as parameters; here a claim about all numbers holds because there is no *)
(* least number it fails for.                                              *)
(***************************************************************************)

(***************************************************************************)
(* A nonempty set of naturals has a least element.                         *)
(***************************************************************************)
LEMMA LeastNumber ==
  ASSUME NEW B \in SUBSET Nat, NEW b \in B
  PROVE  \E n \in B : \A m \in B : n <= m
<1> DEFINE T == {0..n : n \in B}
<1>1. T \subseteq FiniteSubsetsOf(Nat) /\ T # {}
  <2>1. ASSUME NEW n \in B PROVE 0..n \in FiniteSubsetsOf(Nat)
    BY FS_Interval DEF FiniteSubsetsOf
  <2> QED BY <2>1
<1> HIDE DEF T
<1>2. IsWellFoundedOn(StrictSubsetOrdering(Nat), FiniteSubsetsOf(Nat))
  BY FS_StrictSubsetOrderingWellFounded
<1>3. PICK x \in T : \A y \in T : ~(<<y, x>> \in StrictSubsetOrdering(Nat))
  BY <1>1, <1>2, WFMin, Zenon
<1>4. PICK n \in B : x = 0..n
  BY DEF T
<1>5. ASSUME NEW m \in B, m < n PROVE FALSE
  <2>1. /\ 0..m \in T /\ 0..m \subseteq 0..n /\ n \in 0..n /\ n \notin 0..m
        /\ 0..m \subseteq Nat /\ 0..n \subseteq Nat
    BY <1>5 DEF T
  <2>2. <<0..m, x>> \in StrictSubsetOrdering(Nat)
    BY <1>4, <2>1 DEF StrictSubsetOrdering
  <2> QED BY <1>3, <2>1, <2>2
<1> QED BY <1>5

(***************************************************************************)
(* The recursion of the powers of r, and their first values up to n.       *)
(***************************************************************************)
PowersFrom(r, f) == [n \in Nat |-> IF n = 0 THEN 1 ELSE r * f[n - 1]]

PowersUpTo(r, f, n) == f \in [0..n -> Nat] /\ f[0] = 1 /\ \A i \in 1..n : f[i] = r * f[i - 1]

(***************************************************************************)
(* The first values exist.                                                 *)
(***************************************************************************)
LEMMA FirstPowersExist ==
  ASSUME NEW r \in Nat, NEW n \in Nat
  PROVE  \E f : PowersUpTo(r, f, n)
<1> DEFINE Bad == {m \in Nat : ~\E f : PowersUpTo(r, f, m)}
<1>1. ASSUME NEW b \in Bad PROVE FALSE
  <2>1. PICK m \in Bad : \A l \in Bad : m <= l
    BY <1>1, LeastNumber
  <2>2. CASE m = 0
    <3>1. PICK f : f = [i \in 0..0 |-> 1]
      OBVIOUS
    <3>2. PowersUpTo(r, f, 0)
      BY <3>1 DEF PowersUpTo
    <3> QED BY <2>1, <2>2, <3>2
  <2>3. CASE m # 0
    <3>1. m - 1 \in Nat /\ m - 1 \notin Bad
      BY <2>1, <2>3
    <3>2. PICK f : PowersUpTo(r, f, m - 1)
      BY <3>1
    <3>3. PICK p : p = r * f[m - 1]
      OBVIOUS
    <3>4. p \in Nat
      BY <3>1, <3>2, <3>3 DEF PowersUpTo
    <3>5. PICK g : g = [i \in 0..m |-> IF i = m THEN p ELSE f[i]]
      OBVIOUS
    <3>6. g \in [0..m -> Nat] /\ g[0] = 1
      BY <2>3, <3>1, <3>2, <3>4, <3>5 DEF PowersUpTo
    <3>7. ASSUME NEW i \in 1..m PROVE g[i] = r * g[i - 1]
      <4>1. i - 1 \in 0..m /\ i - 1 # m /\ g[i - 1] = f[i - 1]
        BY <3>1, <3>5
      <4>2. CASE i = m
        BY <3>3, <3>5, <4>1, <4>2
      <4>3. CASE i # m
        <5>1. i \in 1..(m - 1) /\ g[i] = f[i]
          BY <3>1, <3>5, <4>3
        <5> QED BY <3>2, <4>1, <5>1 DEF PowersUpTo
      <4> QED BY <4>2, <4>3
    <3>8. PowersUpTo(r, g, m)
      BY <3>6, <3>7 DEF PowersUpTo
    <3> QED BY <2>1, <3>8
  <2> QED BY <2>2, <2>3
<1> QED BY <1>1

(***************************************************************************)
(* So there is a function that satisfies the recursion.                    *)
(***************************************************************************)
LEMMA PowersExist ==
  ASSUME NEW r \in Nat
  PROVE  \E f : f = PowersFrom(r, f)
<1>1. PICK F : F = [n \in Nat |-> CHOOSE f : PowersUpTo(r, f, n)]
  OBVIOUS
<1>2. ASSUME NEW n \in Nat PROVE PowersUpTo(r, F[n], n)
  BY <1>1, FirstPowersExist
<1>3. \A n \in Nat : /\ F[n] \in [0..n -> Nat] /\ F[n][0] = 1
                     /\ \A i \in 1..n : F[n][i] = r * F[n][i - 1]
  BY <1>2 DEF PowersUpTo
<1>4. \A n \in Nat : \A i \in 0..n : F[n][i] = F[i][i]
  <2> DEFINE Differ == {i \in Nat : \E n \in Nat : i <= n /\ F[n][i] # F[i][i]}
  <2>1. ASSUME NEW b \in Differ PROVE FALSE
    <3>1. PICK i \in Differ : \A m \in Differ : i <= m
      BY <2>1, LeastNumber
    <3>2. PICK n \in Nat : i <= n /\ F[n][i] # F[i][i]
      BY <3>1
    <3>3. CASE i = 0
      BY <1>3, <3>2, <3>3
    <3>4. CASE i # 0
      <4>1. i - 1 \in Nat /\ i - 1 \notin Differ /\ i \in 1..n /\ i \in 1..i
        BY <3>1, <3>2, <3>4
      <4>2. F[n][i - 1] = F[i - 1][i - 1] /\ F[i][i - 1] = F[i - 1][i - 1]
        BY <3>2, <4>1
      <4>3. F[n][i] = r * F[n][i - 1] /\ F[i][i] = r * F[i][i - 1]
        BY <1>3, <3>1, <3>2, <4>1
      <4> QED BY <3>2, <4>2, <4>3
    <3> QED BY <3>3, <3>4
  <2> QED BY <2>1
<1>5. PICK g : g = [n \in Nat |-> F[n][n]]
  OBVIOUS
<1>6. ASSUME NEW n \in Nat PROVE g[n] = IF n = 0 THEN 1 ELSE r * g[n - 1]
  <2>1. CASE n = 0
    BY <1>3, <1>5, <2>1
  <2>2. CASE n # 0
    <3>1. n - 1 \in Nat /\ n - 1 \in 0..n /\ n \in 1..n
      BY <2>2
    <3>2. F[n][n] = r * F[n][n - 1] /\ F[n][n - 1] = F[n - 1][n - 1]
      BY <1>3, <1>4, <3>1
    <3> QED BY <1>5, <2>2, <3>1, <3>2
  <2> QED BY <2>1, <2>2
<1>7. g = PowersFrom(r, g)
  BY <1>5, <1>6 DEF PowersFrom
<1> QED BY <1>7

(***************************************************************************)
(* What such a function computes.                                          *)
(***************************************************************************)
LEMMA PowersUnfold ==
  ASSUME NEW r \in Nat, NEW f, f = PowersFrom(r, f)
  PROVE  f[0] = 1 /\ \A n \in Nat : f[n + 1] = r * f[n]
<1>1. f[0] = 1
  BY DEF PowersFrom
<1>2. ASSUME NEW n \in Nat PROVE f[n + 1] = r * f[n]
  <2>1. n + 1 \in Nat /\ n + 1 # 0 /\ (n + 1) - 1 = n
    OBVIOUS
  <2> QED BY <2>1 DEF PowersFrom
<1> QED BY <1>1, <1>2

(***************************************************************************)
(* What ten computes.                                                      *)
(***************************************************************************)
LEMMA TenUnfolds ==
  /\ ten[0] = 1
  /\ \A n \in Nat : ten[n + 1] = 10 * ten[n]
<1>1. PICK f : f = PowersFrom(10, f)
  BY PowersExist
<1>2. ten = PowersFrom(10, ten)
  BY <1>1, Zenon DEF ten, PowersFrom
<1> QED BY <1>2, PowersUnfold

(***************************************************************************)
(* The powers of ten are positive integers.                                *)
(***************************************************************************)
LEMMA TenType ==
  ASSUME NEW n \in Nat
  PROVE  ten[n] \in Nat /\ ten[n] >= 1
<1> DEFINE Bad == {m \in Nat : ~(ten[m] \in Nat /\ ten[m] >= 1)}
<1>1. ASSUME NEW b \in Bad PROVE FALSE
  <2>1. PICK m \in Bad : \A l \in Bad : m <= l
    BY <1>1, LeastNumber
  <2>2. m # 0
    BY <2>1, TenUnfolds
  <2>3. m - 1 \in Nat /\ m - 1 \notin Bad /\ (m - 1) + 1 = m
    BY <2>1, <2>2
  <2>4. ten[m] = 10 * ten[m - 1]
    BY <2>3, TenUnfolds
  <2> QED BY <2>1, <2>3, <2>4
<1> QED BY <1>1

(***************************************************************************)
(* Exponents add.                                                          *)
(***************************************************************************)
LEMMA TenAdds ==
  ASSUME NEW m \in Nat, NEW n \in Nat
  PROVE  ten[m + n] = ten[m] * ten[n]
<1> DEFINE Bad == {k \in Nat : ten[m + k] # ten[m] * ten[k]}
<1>1. ASSUME NEW b \in Bad PROVE FALSE
  <2>1. PICK k \in Bad : \A l \in Bad : k <= l
    BY <1>1, LeastNumber
  <2>2. k # 0
    BY <2>1, TenUnfolds, TenType
  <2>3. k - 1 \in Nat /\ k - 1 \notin Bad /\ (k - 1) + 1 = k /\ m + (k - 1) \in Nat
        /\ (m + (k - 1)) + 1 = m + k
    BY <2>1, <2>2
  <2>4. ten[k] = 10 * ten[k - 1] /\ ten[m + k] = 10 * ten[m + (k - 1)]
    BY <2>3, TenUnfolds
  <2>5. ten[m + (k - 1)] = ten[m] * ten[k - 1]
    BY <2>3
  <2>6. ten[m] \in Nat /\ ten[k - 1] \in Nat
    BY <2>3, TenType
  <2>7. 10 * (ten[m] * ten[k - 1]) = ten[m] * (10 * ten[k - 1])
    BY <2>6
  <2> QED BY <2>1, <2>4, <2>5, <2>7
<1> QED BY <1>1

(***************************************************************************)
(* Pow10 holds these powers.                                               *)
(***************************************************************************)
LEMMA PowersAreTens ==
  ASSUME NEW n \in 0..(D + 1)
  PROVE  Pow10[n] = ten[n]
<1> DEFINE Bad == {m \in Nat : m <= D + 1 /\ Pow10[m] # ten[m]}
<1>1. ASSUME NEW b \in Bad PROVE FALSE
  <2>1. PICK m \in Bad : \A l \in Bad : m <= l
    BY <1>1, LeastNumber
  <2>2. m # 0
    BY <2>1, TenUnfolds, Pow10Def
  <2>3. m - 1 \in Nat /\ m - 1 \notin Bad /\ (m - 1) + 1 = m /\ m - 1 \in 0..(D + 1)
        /\ (m - 1) + 1 \in 0..(D + 1) /\ m - 1 <= D + 1
    BY <2>1, <2>2, WidthsAreInts
  <2>4. ten[m] = 10 * ten[m - 1] /\ Pow10[m] = Pow10[m - 1] * 10 /\ Pow10[m - 1] = ten[m - 1]
    BY <2>3, TenUnfolds, NextPower
  <2>5. ten[m - 1] \in Nat
    BY <2>3, TenType
  <2> QED BY <2>1, <2>4, <2>5
<1>2. n \in Nat /\ n <= D + 1
  BY WidthsAreInts
<1> QED BY <1>1, <1>2

(***************************************************************************)
(* Larger exponents, larger powers: ten times as large at least.           *)
(***************************************************************************)
LEMMA TenGrows ==
  ASSUME NEW m \in Nat, NEW n \in Nat, m <= n
  PROVE  /\ ten[n] = ten[m] * ten[n - m] /\ n - m \in Nat
         /\ ten[m] <= ten[n]
         /\ m < n => 10 * ten[m] <= ten[n]
<1>1. n - m \in Nat /\ m + (n - m) = n
  OBVIOUS
<1>2. ten[n] = ten[m] * ten[n - m]
  BY <1>1, TenAdds
<1>3. ten[m] \in Nat /\ ten[n - m] \in Nat /\ ten[n - m] >= 1
  BY <1>1, TenType
<1>4. ten[m] * 1 <= ten[m] * ten[n - m]
  BY <1>3, TimesGrows
<1>5. ASSUME m < n PROVE 10 * ten[m] <= ten[n]
  <2>1. (n - m) - 1 \in Nat /\ ((n - m) - 1) + 1 = n - m
    BY <1>5
  <2>2. ten[n - m] = 10 * ten[(n - m) - 1] /\ ten[(n - m) - 1] \in Nat /\ ten[(n - m) - 1] >= 1
    BY <2>1, TenUnfolds, TenType
  <2>3. ten[m] * 10 <= ten[m] * ten[n - m]
    BY <1>3, <2>2, TimesGrows
  <2> QED BY <1>2, <1>3, <2>3
<1> QED BY <1>1, <1>2, <1>3, <1>4, <1>5

-----------------------------------------------------------------------------
(***************************************************************************)
(* Exact numbers: in units of 10^z, for any z below both exponents, the    *)
(* orders compare integers.                                                *)
(***************************************************************************)
InUnits(c, e, z) == c * ten[e - z]

(***************************************************************************)
(* A common positive factor does not matter to an order.                   *)
(***************************************************************************)
LEMMA FactorCompares ==
  ASSUME NEW x \in Int, NEW y \in Int, NEW u \in Nat, u >= 1
  PROVE  /\ x * u \in Int /\ y * u \in Int
         /\ x * u < y * u <=> x < y
         /\ x * u = y * u <=> x = y
<1>1. x * u = u * x /\ y * u = u * y /\ u * x \in Int /\ u * y \in Int
  OBVIOUS
<1>2. ASSUME x < y PROVE u * x < u * y
  <2>1. u * (x + 1) <= u * y
    BY <1>2, TimesGrows
  <2>2. u * (x + 1) = u * x + u
    OBVIOUS
  <2> QED BY <1>1, <2>1, <2>2
<1>3. ASSUME y < x PROVE u * y < u * x
  <2>1. u * (y + 1) <= u * x
    BY <1>3, TimesGrows
  <2>2. u * (y + 1) = u * y + u
    OBVIOUS
  <2> QED BY <1>1, <2>1, <2>2
<1> QED BY <1>1, <1>2, <1>3

(***************************************************************************)
(* Digits are cut off by dividing.                                         *)
(***************************************************************************)
LEMMA CutToDivides ==
  ASSUME NEW n \in Nat, NEW x \in Nat
  PROVE  CutTo(n, x) = n \div ten[x]
<1>1. ten[x] \in Nat /\ ten[x] >= 1 /\ ten[9] \in Nat
  BY TenType
<1>2. CASE x > 9 /\ n < ten[9]
  <2>1. ten[9] <= ten[x]
    BY <1>2, TenGrows
  <2>2. ten[x] * 0 <= n /\ n < ten[x] * (0 + 1)
    BY <1>1, <1>2, <2>1
  <2>3. n \div ten[x] = 0
    BY <1>1, <2>2, DivUnique
  <2> QED BY <1>2, <2>3 DEF CutTo
<1>3. CASE ~(x > 9 /\ n < ten[9])
  BY <1>3 DEF CutTo
<1> QED BY <1>2, <1>3

(***************************************************************************)
(* What is left of an integer compares as the numbers do.                  *)
(***************************************************************************)
LEMMA BelowCompares ==
  ASSUME NEW m \in Nat, NEW n \in Int, NEW p \in Int, NEW q \in Int,
         NEW z \in Int, z <= p, z <= q
  PROVE  Below(m, p, n, q) <=> InUnits(m, p, z) < InUnits(n, q, z)
<1>1. p - z \in Nat /\ q - z \in Nat
  OBVIOUS
<1>2. PICK u \in Nat, v \in Nat : u = ten[p - z] /\ v = ten[q - z] /\ u >= 1 /\ v >= 1
  BY <1>1, TenType
<1>3. (InUnits(m, p, z) < InUnits(n, q, z)) <=> m * u < n * v
  BY <1>2 DEF InUnits
<1>4. m * u \in Nat /\ (n <= 0 => n * v <= 0)
  <2>1. n <= 0 => v * n <= v * 0
    BY TimesGrows
  <2> QED BY <2>1
<1>5. CASE p >= q
  <2>1. p - q \in Nat /\ (q - z) + (p - q) = p - z
    BY <1>5
  <2>2. PICK t \in Nat : t = ten[p - q] /\ t >= 1
    BY <2>1, TenType
  <2>3. u = v * t
    BY <1>1, <1>2, <2>1, <2>2, TenAdds
  <2>4. CASE n <= 0
    <3>1. ~Below(m, p, n, q)
      BY <1>5, <2>4 DEF Below
    <3> QED BY <1>3, <1>4, <2>4, <3>1
  <2>5. CASE n > 0
    <3>1. n - 1 \in Nat
      BY <2>5
    <3>2. Below(m, p, n, q) <=> m <= (n - 1) \div t
      BY <1>5, <2>1, <2>2, <2>5, <3>1, CutToDivides DEF Below
    <3>3. t * m <= n - 1 <=> m <= (n - 1) \div t
      BY <2>2, <3>1, DivAtLeast
    <3>4. m * t \in Int /\ t * m = m * t
      OBVIOUS
    <3>5. (m * t) * v < n * v <=> m * t < n
      BY <1>2, <3>4, FactorCompares
    <3>6. m * u = (m * t) * v
      BY <2>3
    <3> QED BY <1>3, <3>2, <3>3, <3>4, <3>5, <3>6
  <2> QED BY <2>4, <2>5
<1>6. CASE p < q
  <2>1. q - p \in Nat /\ (p - z) + (q - p) = q - z
    BY <1>6
  <2>2. PICK t \in Nat : t = ten[q - p] /\ t >= 1
    BY <2>1, TenType
  <2>3. v = u * t
    BY <1>1, <1>2, <2>1, <2>2, TenAdds
  <2>4. Below(m, p, n, q) <=> m \div t < n
    BY <1>6, <2>1, <2>2, CutToDivides DEF Below
  <2>5. m \div t \in Nat
    BY <2>2, DivBounds
  <2>6. CASE n <= 0
    BY <1>3, <1>4, <2>4, <2>5, <2>6
  <2>7. CASE n > 0
    <3>1. n \in Nat
      BY <2>7
    <3>2. m < t * n <=> m \div t < n
      BY <2>2, <3>1, DivAtLeast
    <3>3. n * t \in Int /\ t * n = n * t
      OBVIOUS
    <3>4. m * u < (n * t) * u <=> m < n * t
      BY <1>2, <3>3, FactorCompares
    <3>5. n * v = (n * t) * u
      BY <2>3
    <3> QED BY <1>3, <2>4, <3>2, <3>3, <3>4, <3>5
  <2> QED BY <2>6, <2>7
<1> QED BY <1>5, <1>6

(***************************************************************************)
(* LessNumber is the order of the numbers.                                 *)
(***************************************************************************)
LEMMA LessCompares ==
  ASSUME NEW c1 \in Int, NEW c2 \in Int, NEW e1 \in Int, NEW e2 \in Int,
         NEW z \in Int, z <= e1, z <= e2
  PROVE  /\ InUnits(c1, e1, z) \in Int /\ InUnits(c2, e2, z) \in Int
         /\ LessNumber(c1, e1, c2, e2) <=> InUnits(c1, e1, z) < InUnits(c2, e2, z)
<1>1. e1 - z \in Nat /\ e2 - z \in Nat
  OBVIOUS
<1>2. PICK u \in Nat, v \in Nat : u = ten[e1 - z] /\ v = ten[e2 - z] /\ u >= 1 /\ v >= 1
  BY <1>1, TenType
<1>3. InUnits(c1, e1, z) = c1 * u /\ InUnits(c2, e2, z) = c2 * v /\ c1 * u \in Int /\ c2 * v \in Int
  BY <1>2 DEF InUnits
<1>4. \A c \in Int, w \in Nat : w >= 1 => (c * w < 0 <=> c < 0) /\ (c * w = 0 <=> c = 0)
  <2>1. TAKE c \in Int, w \in Nat
  <2>2. HAVE w >= 1
  <2>3. 0 * w = 0
    OBVIOUS
  <2> QED BY <2>2, <2>3, FactorCompares
<1>5. (c1 * u < 0 <=> c1 < 0) /\ (c1 * u = 0 <=> c1 = 0) /\ (c2 * v < 0 <=> c2 < 0) /\ (c2 * v = 0 <=> c2 = 0)
  BY <1>2, <1>4
<1>6. CASE Sign(c1) # Sign(c2)
  <2>1. LessNumber(c1, e1, c2, e2) <=> Sign(c1) < Sign(c2)
    BY <1>6 DEF LessNumber, Sign
  <2> QED BY <1>3, <1>5, <1>6, <2>1 DEF Sign
<1>7. CASE Sign(c1) = Sign(c2) /\ c1 > 0
  <2>1. LessNumber(c1, e1, c2, e2) <=> Below(c1, e1, c2, e2)
    <3>1. Sign(c1) = Sign(c2) /\ c1 > 0 /\ ~(c1 < 0) /\ c1 # 0
      BY <1>7
    <3> QED BY <3>1, Zenon DEF LessNumber
  <2>2. c1 \in Nat
    BY <1>7
  <2> QED BY <1>3, <2>1, <2>2, BelowCompares
<1>8. CASE Sign(c1) = Sign(c2) /\ c1 < 0
  <2>1. LessNumber(c1, e1, c2, e2) <=> Below(-c2, e2, -c1, e1)
    <3>1. Sign(c1) = Sign(c2) /\ c1 < 0 /\ ~(c1 > 0) /\ c1 # 0
      BY <1>8
    <3> QED BY <3>1, Zenon DEF LessNumber
  <2>2. PICK m \in Nat, n \in Int : m = -c2 /\ n = -c1
    BY <1>8 DEF Sign
  <2>3. Below(m, e2, n, e1) <=> InUnits(m, e2, z) < InUnits(n, e1, z)
    BY BelowCompares
  <2>4. InUnits(m, e2, z) = -(c2 * v) /\ InUnits(n, e1, z) = -(c1 * u)
    <3>1. (-c2) * v = -(c2 * v) /\ (-c1) * u = -(c1 * u)
      OBVIOUS
    <3> QED BY <1>2, <2>2, <3>1 DEF InUnits
  <2> QED BY <1>3, <2>1, <2>2, <2>3, <2>4
<1>9. CASE c1 = 0 /\ c2 = 0
  <2>1. ~LessNumber(c1, e1, c2, e2)
    BY <1>9 DEF LessNumber, Sign
  <2> QED BY <1>3, <1>5, <1>9, <2>1
<1> QED BY <1>3, <1>6, <1>7, <1>8, <1>9 DEF Sign

-----------------------------------------------------------------------------
(***************************************************************************)
(* Comparison.                                                             *)
(***************************************************************************)

(***************************************************************************)
(* A number whose exponent is larger by Reach is beyond all coefficients.  *)
(***************************************************************************)
LEMMA BeyondAll ==
  ASSUME NEW x \in Coef, NEW y \in Coef, x # 0
  PROVE  /\ x > 0 => x * Pow10[D + 1] > y
         /\ x < 0 => x * Pow10[D + 1] < y
<1>1. /\ x \in Int /\ y \in Int /\ y <= CoefMax /\ y >= -CoefMax - 1 /\ CoefMax \in Nat
      /\ Pow10[D + 1] \in Nat /\ CoefMax + 1 < Pow10[D + 1]
  BY PowersOfCoef DEF Coef, CoefMin
<1>2. x > 0 => Pow10[D + 1] * 1 <= Pow10[D + 1] * x
  BY <1>1, TimesGrows
<1>3. x < 0 => Pow10[D + 1] * x <= Pow10[D + 1] * (-1)
  BY <1>1, TimesGrows
<1> QED BY <1>1, <1>2, <1>3

(***************************************************************************)
(* Smaller units, more of them.                                            *)
(***************************************************************************)
LEMMA SmallerUnits ==
  ASSUME NEW c \in Int, NEW e \in Int, NEW y \in Int, NEW z \in Int, z <= y, y <= e
  PROVE  /\ InUnits(c, e, y) \in Int /\ ten[y - z] \in Nat /\ ten[y - z] >= 1
         /\ InUnits(c, e, z) = InUnits(c, e, y) * ten[y - z]
<1>1. e - y \in Nat /\ y - z \in Nat /\ (e - y) + (y - z) = e - z
  OBVIOUS
<1>2. PICK u \in Nat, v \in Nat : u = ten[e - y] /\ v = ten[y - z] /\ u >= 1 /\ v >= 1
  BY <1>1, TenType
<1>3. ten[e - z] = u * v
  BY <1>1, <1>2, TenAdds
<1>4. c * (u * v) = (c * u) * v /\ c * u \in Int
  OBVIOUS
<1> QED BY <1>2, <1>3, <1>4 DEF InUnits

(***************************************************************************)
(* Of two coefficients the relations of DecimalWidths say the same, a      *)
(* number further than Reach away being beyond all coefficients.           *)
(***************************************************************************)
LEMMA CoefUnits ==
  ASSUME NEW c1 \in Coef, NEW c2 \in Coef, NEW e1 \in Int, NEW e2 \in Int, e1 >= e2,
         NEW a, a = InUnits(c1, e1, e2)
  PROVE  /\ a \in Int
         /\ SmallerNumber(c1, e1, c2, e2) <=> a < c2
         /\ SmallerNumber(c2, e2, c1, e1) <=> c2 < a
         /\ SameNumber(c1, e1, c2, e2) <=> a = c2
         /\ SameNumber(c2, e2, c1, e1) <=> a = c2
<1>1. c1 \in Int /\ c2 \in Int /\ Reach = D + 1 /\ D \in Nat /\ D + 1 \in 0..(D + 1)
  BY CoefIsInt, WidthsAreInts DEF Reach
<1>2. PICK d \in Nat : d = e1 - e2
  OBVIOUS
<1>3. PICK t \in Nat : t = ten[d] /\ t >= 1
  BY TenType
<1>4. a = c1 * t /\ a \in Int
  BY <1>1, <1>2, <1>3 DEF InUnits
<1>5. CASE d <= Reach
  <2>1. d \in 0..(D + 1) /\ e2 - e1 = -d /\ e1 - e2 = d /\ ~(d > Reach) /\ ~(e2 - e1 > Reach)
    BY <1>1, <1>2, <1>5
  <2>2. Pow10[d] = t
    BY <1>3, <2>1, PowersAreTens
  <2>3. c1 * Pow10[d] = a
    BY <1>4, <2>2
  <2>4. CASE d = 0
    <3>1. t = 1 /\ a = c1 /\ e2 = e1 /\ e2 - e1 = 0 /\ e1 - e2 = 0 /\ Pow10[0] = 1 /\ 0 <= Reach
      <4>1. t = 1 /\ Pow10[0] = 1
        BY <1>3, <2>4, Pow10Def, TenUnfolds
      <4>2. a = c1 * 1 /\ c1 * 1 = c1
        BY <1>1, <1>4, <4>1
      <4> QED BY <1>1, <1>2, <2>4, <4>1, <4>2
    <3>2. c1 * 1 = c1 /\ c2 * 1 = c2
      BY <1>1
    <3> QED BY <1>1, <3>1, <3>2 DEF SmallerNumber, SameNumber
  <2>5. CASE d # 0
    <3>1. ~(e2 >= e1) /\ ~(e2 - e1 > Reach)
      BY <1>1, <1>2, <2>1, <2>5
    <3>2. (c1 = 0 /\ c2 = 0) => a = c2
      BY <1>4
    <3> QED BY <1>1, <1>4, <1>5, <2>1, <2>3, <3>1, <3>2 DEF SmallerNumber, SameNumber
  <2> QED BY <2>4, <2>5
<1>6. CASE d > Reach
  <2>1. e2 - e1 = -d /\ e1 - e2 = d /\ ~(d <= Reach) /\ ~(e2 >= e1) /\ ~(e2 - e1 > Reach)
    BY <1>1, <1>2, <1>6
  <2>2. PICK w \in Nat : w = Pow10[D + 1] /\ w >= 1 /\ w <= t
    <3>1. Pow10[D + 1] = ten[D + 1] /\ ten[D + 1] \in Nat /\ ten[D + 1] >= 1
      BY <1>1, PowersAreTens, TenType
    <3>2. ten[D + 1] <= ten[d]
      BY <1>1, <1>6, TenGrows
    <3> QED BY <1>3, <3>1, <3>2
  <2>3. CASE c1 = 0
    BY <1>1, <1>4, <1>6, <2>1, <2>3 DEF SmallerNumber, SameNumber
  <2>4. CASE c1 > 0
    <3>1. c1 * w > c2
      BY <1>1, <2>2, <2>4, BeyondAll
    <3>2. c1 * w <= c1 * t
      BY <1>1, <2>2, <2>4, TimesGrows
    <3>3. a > c2
      BY <1>1, <1>4, <2>2, <3>1, <3>2
    <3> QED BY <1>1, <1>4, <1>6, <2>1, <2>4, <3>3 DEF SmallerNumber, SameNumber
  <2>5. CASE c1 < 0
    <3>1. c1 * w < c2
      BY <1>1, <2>2, <2>5, BeyondAll
    <3>2. PICK m \in Nat : m = -c1 /\ c1 = -m
      BY <1>1, <2>5
    <3>3. m * w <= m * t
      BY <2>2, TimesGrows
    <3>4. m * w = -(c1 * w) /\ m * t = -(c1 * t)
      BY <3>2
    <3>5. c1 * t <= c1 * w
      BY <1>1, <3>3, <3>4
    <3>6. a < c2
      BY <1>1, <1>4, <2>2, <3>1, <3>5
    <3> QED BY <1>1, <1>4, <1>6, <2>1, <2>5, <3>6 DEF SmallerNumber, SameNumber
  <2> QED BY <1>1, <2>3, <2>4, <2>5
<1> QED BY <1>4, <1>5, <1>6, <1>1

(***************************************************************************)
(* Therefore the smaller of two numbers is the one LessNumber says, and    *)
(* the same number is the same integer in the same units.                  *)
(***************************************************************************)
LEMMA SameCompares ==
  ASSUME NEW c1 \in Coef, NEW c2 \in Coef, NEW e1 \in Int, NEW e2 \in Int,
         NEW z \in Int, z <= e1, z <= e2
  PROVE  /\ SameNumber(c1, e1, c2, e2) <=> InUnits(c1, e1, z) = InUnits(c2, e2, z)
         /\ SmallerNumber(c1, e1, c2, e2) <=> LessNumber(c1, e1, c2, e2)
<1>1. c1 \in Int /\ c2 \in Int
  BY CoefIsInt
<1>2. /\ InUnits(c1, e1, z) \in Int /\ InUnits(c2, e2, z) \in Int
      /\ LessNumber(c1, e1, c2, e2) <=> InUnits(c1, e1, z) < InUnits(c2, e2, z)
  BY <1>1, LessCompares
<1>3. CASE e1 >= e2
  <2>1. PICK a \in Int : a = InUnits(c1, e1, e2)
    BY <1>3, CoefUnits
  <2>2. PICK u \in Nat : u = ten[e2 - z] /\ u >= 1 /\ InUnits(c1, e1, z) = a * u
    BY <1>1, <1>3, <2>1, SmallerUnits
  <2>3. InUnits(c2, e2, z) = c2 * u
    BY <2>2 DEF InUnits
  <2>4. /\ SmallerNumber(c1, e1, c2, e2) <=> a < c2
        /\ SameNumber(c1, e1, c2, e2) <=> a = c2
    BY <1>3, <2>1, CoefUnits
  <2>5. /\ a * u < c2 * u <=> a < c2
        /\ a * u = c2 * u <=> a = c2
    BY <1>1, <2>2, FactorCompares
  <2> QED BY <1>2, <2>2, <2>3, <2>4, <2>5
<1>4. CASE e2 >= e1
  <2>1. PICK a \in Int : a = InUnits(c2, e2, e1)
    BY <1>4, CoefUnits
  <2>2. PICK u \in Nat : u = ten[e1 - z] /\ u >= 1 /\ InUnits(c2, e2, z) = a * u
    BY <1>1, <1>4, <2>1, SmallerUnits
  <2>3. InUnits(c1, e1, z) = c1 * u
    BY <2>2 DEF InUnits
  <2>4. /\ SmallerNumber(c1, e1, c2, e2) <=> c1 < a
        /\ SameNumber(c1, e1, c2, e2) <=> a = c1
    BY <1>4, <2>1, CoefUnits
  <2>5. /\ c1 * u < a * u <=> c1 < a
        /\ c1 * u = a * u <=> c1 = a
    BY <1>1, <2>2, FactorCompares
  <2> QED BY <1>2, <2>2, <2>3, <2>4, <2>5
<1> QED BY <1>3, <1>4

(***************************************************************************)
(* A difference of exponents above int256 wraps to a negative number; one  *)
(* that is near does not wrap.                                             *)
(***************************************************************************)
LEMMA DifferenceWraps ==
  ASSUME NEW d \in 1..(2 * ExpMax + 1)
  PROVE  /\ WrapExp(d) \in Int
         /\ d <= ExpMax => WrapExp(d) = d
         /\ d > ExpMax => WrapExp(d) < 0
<1> DEFINE w == WrapExp(d)
           n == 2 * (ExpMax + 1)
<1>1. ExpMax \in Nat /\ d \in Int /\ n \in Nat /\ n >= 1
  BY Widths
<1>2. w \in Exp /\ w \in Int /\ w <= ExpMax
  BY <1>1, WrapExpType DEF Exp, ExpMin
<1>3. d <= ExpMax => w = d
  BY <1>1, WrapExpKeepsType DEF Exp, ExpMin
<1>4. PICK q \in Int : d = w + q * n
  BY <1>1, ExpCongruent
<1>5. d > ExpMax /\ w >= 0 => d - w < n /\ w - d < n
  BY <1>1, <1>2
<1> HIDE DEF w, n
<1>6. d > ExpMax /\ w >= 0 => d = w
  BY <1>1, <1>2, <1>4, <1>5, CongruentAndNear
<1>7. d > ExpMax => w < 0
  BY <1>1, <1>2, <1>6
<1> QED BY <1>2, <1>3, <1>7 DEF w

(***************************************************************************)
(* The pair compares as x * 10^d and y do, for numbers of one sign.        *)
(***************************************************************************)
LEMMA RescaledPairCompares ==
  ASSUME NEW x \in Coef, NEW y \in Coef, x # 0, y # 0, x < 0 <=> y < 0,
         NEW d \in 1..(2 * ExpMax + 1), NEW p, p = RescaledPair(x, WrapExp(d), y)
  PROVE  /\ p[1] \in Int /\ p[2] \in Int
         /\ d <= Reach => /\ p[1] < p[2] <=> x * Pow10[d] < y
                          /\ p[2] < p[1] <=> y < x * Pow10[d]
         /\ d > Reach  => /\ p[1] < p[2] <=> x < 0
                          /\ p[2] < p[1] <=> x > 0
<1>1. /\ x \in Int /\ y \in Int /\ d \in Int /\ D \in Nat /\ ExpMax \in Nat /\ CoefMax \in Nat
      /\ D + 1 <= ExpMax /\ Pow10[D] <= CoefMax
      /\ x <= CoefMax /\ x >= -CoefMax - 1 /\ y <= CoefMax /\ y >= -CoefMax - 1
  BY PowersOfCoef, Widths, ExponentsFit DEF Coef, CoefMin
<1> DEFINE w == WrapExp(d)
<1>2. w \in Int /\ (d <= ExpMax => w = d) /\ (d > ExpMax => w < 0)
  BY DifferenceWraps
<1> HIDE DEF w
<1>3. p = RescaledPair(x, w, y)
  BY DEF w
<1>4. CASE d > D
  <2>1. w < 0 \/ w > D
    BY <1>1, <1>2, <1>4
  <2>2. p = <<x, 0>>
    BY <1>3, <2>1 DEF RescaledPair
  <2>3. CASE d = Reach
    <3>1. x * Pow10[d] \in Int
      BY <1>1, <2>3, PowersOfCoef DEF Reach
    <3> QED BY <1>1, <2>2, <2>3, <3>1, BeyondAll DEF Reach
  <2>4. CASE d # Reach
    BY <1>1, <1>4, <2>2, <2>4 DEF Reach
  <2> QED BY <2>3, <2>4
<1>5. CASE ~(d > D)
  <2>1. w = d /\ ~(w < 0 \/ w > D) /\ d \in 0..(D + 1) /\ D \in 0..(D + 1) /\ d <= D
        /\ ~(d > Reach)
    BY <1>1, <1>2, <1>5 DEF Reach
  <2>2. Pow10[d] \in Nat /\ Pow10[d] >= 1 /\ Pow10[d] <= CoefMax
    <3>1. Pow10[d] \in Nat /\ Pow10[d] >= 1 /\ Pow10[d] <= Pow10[D] /\ Pow10[D] \in Nat
      BY <2>1, Pow10Grows
    <3> QED BY <1>1, <3>1
  <2>3. PICK z \in Int : z = x * Pow10[d]
    BY <1>1, <2>2
  <2>4. /\ z \in Coef => WrapCoef(z) = z
        /\ x = Quot(WrapCoef(z), Pow10[d]) <=> z \in Coef
    BY <1>1, <2>2, <2>3, DividingBackFindsWrap
  <2>5. p = IF Quot(WrapCoef(z), Pow10[d]) # x THEN <<x, 0>> ELSE <<WrapCoef(z), y>>
    BY <1>3, <2>1, <2>3 DEF RescaledPair
  <2>6. CASE z \in Coef
    <3>1. p = <<z, y>>
      BY <2>4, <2>5, <2>6
    <3> QED BY <1>1, <2>1, <2>3, <3>1
  <2>7. CASE z \notin Coef
    <3>1. p = <<x, 0>>
      BY <2>4, <2>5, <2>7
    <3>2. (x > 0 => z > 0) /\ (x < 0 => z < 0)
      <4>1. x > 0 => Pow10[d] * 1 <= Pow10[d] * x
        BY <1>1, <2>2, TimesGrows
      <4>2. x < 0 => Pow10[d] * x <= Pow10[d] * (-1)
        BY <1>1, <2>2, TimesGrows
      <4>3. z = Pow10[d] * x
        BY <1>1, <2>2, <2>3
      <4> QED BY <1>1, <2>2, <2>3, <4>1, <4>2, <4>3
    <3>3. z > CoefMax \/ z < -CoefMax - 1
      BY <1>1, <2>7 DEF Coef, CoefMin
    <3> QED BY <1>1, <2>1, <2>3, <3>1, <3>2, <3>3
  <2> QED BY <2>6, <2>7
<1> QED BY <1>4, <1>5

(***************************************************************************)
(* Scaling keeps the sign.                                                 *)
(***************************************************************************)
LEMMA ScalingKeepsSign ==
  ASSUME NEW x \in Int, NEW k \in 0..(D + 1)
  PROVE  /\ x * Pow10[k] \in Int
         /\ x > 0 <=> x * Pow10[k] > 0
         /\ x < 0 <=> x * Pow10[k] < 0
<1>1. Pow10[k] \in Nat /\ Pow10[k] >= 1
  BY Pow10Grows
<1>2. x > 0 => Pow10[k] * 1 <= Pow10[k] * x
  BY <1>1, TimesGrows
<1>3. x < 0 => Pow10[k] * x <= Pow10[k] * (-1)
  BY <1>1, TimesGrows
<1>4. Pow10[k] * x = x * Pow10[k] /\ 0 * Pow10[k] = 0 /\ x * Pow10[k] \in Int
  BY <1>1
<1> QED BY <1>1, <1>2, <1>3, <1>4

(***************************************************************************)
(* compareRescale's two coefficients compare as the numbers do.            *)
(***************************************************************************)
LEMMA RescalingComparesExactly ==
  ASSUME NEW c1 \in Coef, NEW c2 \in Coef, NEW e1 \in Exp, NEW e2 \in Exp,
         NEW r, r = CompareRescale(c1, e1, c2, e2)
  PROVE  /\ r[1] < r[2] <=> SmallerNumber(c1, e1, c2, e2)
         /\ r[1] = r[2] <=> SameNumber(c1, e1, c2, e2)
<1>1. /\ c1 \in Int /\ c2 \in Int /\ e1 \in Int /\ e2 \in Int /\ D \in Nat /\ Reach \in Nat
      /\ Reach = D + 1 /\ ExpMax \in Nat /\ Pow10[0] = 1
      /\ (e1 > e2 => e1 - e2 \in 1..(2 * ExpMax + 1))
      /\ (e2 > e1 => e2 - e1 \in 1..(2 * ExpMax + 1))
  <2>1. c1 \in Int /\ c2 \in Int /\ D \in Nat /\ Reach \in Nat /\ Reach = D + 1
    BY Widths, WidthsAreInts DEF Coef, CoefMin, Reach
  <2>2. /\ ExpMax \in Nat /\ e1 \in Int /\ e2 \in Int
        /\ e1 <= ExpMax /\ e1 >= -ExpMax - 1 /\ e2 <= ExpMax /\ e2 >= -ExpMax - 1
    BY Widths DEF Exp, ExpMin
  <2>3. /\ (e1 > e2 => e1 - e2 \in 1..(2 * ExpMax + 1))
        /\ (e2 > e1 => e2 - e1 \in 1..(2 * ExpMax + 1))
    BY <2>2
  <2> QED BY <2>1, <2>2, <2>3, Pow10Def
<1> DEFINE simple == c1 = 0 \/ c2 = 0 \/ (c1 < 0) # (c2 < 0) \/ e1 = e2
<1>2. CASE simple
  <2>1. r = <<c1, c2>>
    BY <1>2 DEF CompareRescale
  <2>2. CASE e1 = e2
    BY <1>1, <2>1, <2>2 DEF SmallerNumber, SameNumber
  <2>3. CASE e1 # e2
    <3>1. c1 = 0 \/ c2 = 0 \/ (c1 < 0 /\ c2 > 0) \/ (c1 > 0 /\ c2 < 0)
      BY <1>1, <1>2, <2>3
    <3>2. CASE e1 > e2 /\ e1 - e2 <= Reach
      <4>1. e1 - e2 \in 0..(D + 1)
        BY <1>1, <3>2
      <4>2. PICK z \in Int : z = c1 * Pow10[e1 - e2]
        BY <1>1, <4>1, ScalingKeepsSign
      <4>3. (c1 > 0 <=> z > 0) /\ (c1 < 0 <=> z < 0)
        BY <1>1, <4>1, <4>2, ScalingKeepsSign
      <4>4. (SmallerNumber(c1, e1, c2, e2) <=> z < c2) /\ (z = c2 <=> SameNumber(c1, e1, c2, e2))
        BY <1>1, <3>1, <3>2, <4>2, <4>3 DEF SmallerNumber, SameNumber
      <4> QED BY <1>1, <2>1, <3>1, <4>3, <4>4
    <3>3. CASE e2 > e1 /\ e2 - e1 <= Reach
      <4>1. e2 - e1 \in 0..(D + 1)
        BY <1>1, <3>3
      <4>2. PICK z \in Int : z = c2 * Pow10[e2 - e1]
        BY <1>1, <4>1, ScalingKeepsSign
      <4>3. (c2 > 0 <=> z > 0) /\ (c2 < 0 <=> z < 0)
        BY <1>1, <4>1, <4>2, ScalingKeepsSign
      <4>4. (SmallerNumber(c1, e1, c2, e2) <=> c1 < z) /\ (z = c1 <=> SameNumber(c1, e1, c2, e2))
        BY <1>1, <3>1, <3>3, <4>2, <4>3 DEF SmallerNumber, SameNumber
      <4> QED BY <1>1, <2>1, <3>1, <4>3, <4>4
    <3>4. CASE e1 - e2 > Reach \/ e2 - e1 > Reach
      BY <1>1, <2>1, <3>1, <3>4 DEF SmallerNumber, SameNumber
    <3> QED BY <1>1, <2>3, <3>2, <3>3, <3>4
  <2> QED BY <2>2, <2>3
<1>3. CASE ~simple
  <2>1. c1 # 0 /\ c2 # 0 /\ (c1 < 0 <=> c2 < 0) /\ (c2 < 0 <=> c1 < 0) /\ e1 # e2
    BY <1>3
  <2>2. CASE e2 > e1
    <3> DEFINE p == RescaledPair(c2, WrapExp(e2 - e1), c1)
    <3>1. r = <<p[2], p[1]>>
      BY <1>3, <2>2 DEF CompareRescale
    <3> HIDE DEF p
    <3>2. p = RescaledPair(c2, WrapExp(e2 - e1), c1) /\ e2 - e1 \in 1..(2 * ExpMax + 1)
      BY <1>1, <2>2 DEF p
    <3>3. /\ p[1] \in Int /\ p[2] \in Int
          /\ e2 - e1 <= Reach => /\ p[1] < p[2] <=> c2 * Pow10[e2 - e1] < c1
                                 /\ p[2] < p[1] <=> c1 < c2 * Pow10[e2 - e1]
          /\ e2 - e1 > Reach  => /\ p[1] < p[2] <=> c2 < 0
                                 /\ p[2] < p[1] <=> c2 > 0
      BY <2>1, <3>2, RescaledPairCompares
    <3>4. CASE e2 - e1 <= Reach
      <4>1. c2 * Pow10[e2 - e1] \in Int
        BY <1>1, <2>2, <3>4, ScalingKeepsSign
      <4>2. /\ SmallerNumber(c1, e1, c2, e2) <=> c1 < c2 * Pow10[e2 - e1]
            /\ SameNumber(c1, e1, c2, e2) <=> c2 * Pow10[e2 - e1] = c1
        BY <1>1, <2>1, <2>2, <3>4 DEF SmallerNumber, SameNumber
      <4> QED BY <1>1, <3>1, <3>3, <3>4, <4>1, <4>2
    <3>5. CASE e2 - e1 > Reach
      BY <1>1, <2>1, <2>2, <3>1, <3>3, <3>5 DEF SmallerNumber, SameNumber
    <3> QED BY <1>1, <3>4, <3>5
  <2>3. CASE e1 > e2
    <3> DEFINE p == RescaledPair(c1, WrapExp(e1 - e2), c2)
    <3>1. r = p
      BY <1>1, <1>3, <2>3 DEF CompareRescale
    <3> HIDE DEF p
    <3>2. p = RescaledPair(c1, WrapExp(e1 - e2), c2) /\ e1 - e2 \in 1..(2 * ExpMax + 1)
      BY <1>1, <2>3 DEF p
    <3>3. /\ p[1] \in Int /\ p[2] \in Int
          /\ e1 - e2 <= Reach => /\ p[1] < p[2] <=> c1 * Pow10[e1 - e2] < c2
                                 /\ p[2] < p[1] <=> c2 < c1 * Pow10[e1 - e2]
          /\ e1 - e2 > Reach  => /\ p[1] < p[2] <=> c1 < 0
                                 /\ p[2] < p[1] <=> c1 > 0
      BY <2>1, <3>2, RescaledPairCompares
    <3>4. CASE e1 - e2 <= Reach
      <4>1. c1 * Pow10[e1 - e2] \in Int
        BY <1>1, <2>3, <3>4, ScalingKeepsSign
      <4>2. /\ SmallerNumber(c1, e1, c2, e2) <=> c1 * Pow10[e1 - e2] < c2
            /\ SameNumber(c1, e1, c2, e2) <=> c1 * Pow10[e1 - e2] = c2
        BY <1>1, <2>1, <2>3, <3>4 DEF SmallerNumber, SameNumber
      <4> QED BY <1>1, <3>1, <3>3, <3>4, <4>1, <4>2
    <3>5. CASE e1 - e2 > Reach
      BY <1>1, <2>1, <2>3, <3>1, <3>3, <3>5 DEF SmallerNumber, SameNumber
    <3> QED BY <1>1, <3>4, <3>5
  <2> QED BY <1>1, <2>1, <2>2, <2>3
<1> QED BY <1>2, <1>3

(***************************************************************************)
(* The rescaled coefficients are integers.                                 *)
(***************************************************************************)
LEMMA RescalingIsInteger ==
  ASSUME NEW c1 \in Coef, NEW c2 \in Coef, NEW e1 \in Exp, NEW e2 \in Exp,
         NEW r, r = CompareRescale(c1, e1, c2, e2)
  PROVE  r[1] \in Int /\ r[2] \in Int
<1>1. c1 \in Int /\ c2 \in Int
  BY CoefIsInt
<1>2. /\ (e1 > e2 => e1 - e2 \in 1..(2 * ExpMax + 1))
      /\ (e2 > e1 => e2 - e1 \in 1..(2 * ExpMax + 1))
      /\ e1 \in Int /\ e2 \in Int
  BY Widths DEF Exp, ExpMin
<1> DEFINE simple == c1 = 0 \/ c2 = 0 \/ (c1 < 0) # (c2 < 0) \/ e1 = e2
<1>3. CASE simple
  <2>1. r = <<c1, c2>>
    BY <1>3 DEF CompareRescale
  <2> QED BY <1>1, <2>1
<1>4. CASE ~simple
  <2>1. c1 # 0 /\ c2 # 0 /\ (c1 < 0 <=> c2 < 0) /\ (c2 < 0 <=> c1 < 0) /\ e1 # e2
    BY <1>4
  <2>2. CASE e2 > e1
    <3>1. PICK p : p = RescaledPair(c2, WrapExp(e2 - e1), c1)
      OBVIOUS
    <3>2. r = <<p[2], p[1]>>
      BY <1>4, <2>2, <3>1 DEF CompareRescale
    <3>3. p[1] \in Int /\ p[2] \in Int
      BY <1>2, <2>1, <2>2, <3>1, RescaledPairCompares
    <3> QED BY <3>2, <3>3
  <2>3. CASE e1 > e2
    <3>1. r = RescaledPair(c1, WrapExp(e1 - e2), c2)
      <4>1. ~(e2 > e1)
        BY <1>2, <2>3
      <4> QED BY <1>4, <4>1 DEF CompareRescale
    <3> QED BY <1>2, <2>1, <2>3, <3>1, RescaledPairCompares
  <2> QED BY <1>2, <2>1, <2>2, <2>3
<1> QED BY <1>3, <1>4

-----------------------------------------------------------------------------
(***************************************************************************)
(* Maximized operands.                                                     *)
(***************************************************************************)

(***************************************************************************)
(* There are always digits to gain, if only none.                          *)
(***************************************************************************)
LEMMA GainExists ==
  ASSUME NEW x \in Coef, x # 0, NEW y \in Exp
  PROVE  /\ DigitsToGain(x, y) \in 0..D /\ CanGain(x, y, DigitsToGain(x, y))
         /\ ~CanGain(x, y, DigitsToGain(x, y) + 1)
<1>1. x \in Int /\ y \in Int /\ y >= ExpMin /\ D \in Nat /\ Pow10[0] = 1 /\ ExpMin \in Int
  BY Widths, WidthsAreInts, Pow10Def DEF Coef, CoefMin, Exp, ExpMin
<1> DEFINE B == {k \in 0..D : ~CanGain(x, y, k + 1)}
<1>2. B \in SUBSET Nat
  OBVIOUS
<1>3. D \in B
  <2>1. x * Pow10[D + 1] \notin Coef
    <3>1. CoefMax \in Coef /\ CoefMin \in Coef
      BY PowersOfCoef DEF Coef, CoefMin
    <3>2. x * Pow10[D + 1] > CoefMax \/ x * Pow10[D + 1] < CoefMin
      BY <1>1, <3>1, BeyondAll
    <3>3. x * Pow10[D + 1] \in Int /\ CoefMax \in Int /\ CoefMin \in Int
      BY <1>1, PowersOfCoef DEF CoefMin
    <3> QED BY <3>2, <3>3 DEF Coef
  <2> QED BY <1>1, <2>1 DEF CanGain
<1>4. PICK n \in B : \A m \in B : n <= m
  BY <1>2, <1>3, LeastNumber
<1>5. CanGain(x, y, n)
  <2>1. CASE n = 0
    BY <1>1, <2>1 DEF CanGain
  <2>2. CASE n # 0
    <3>1. n - 1 \in 0..D /\ n - 1 \notin B /\ n - 1 + 1 = n
      BY <1>1, <1>4, <2>2
    <3> QED BY <3>1
  <2> QED BY <2>1, <2>2
<1>6. \E k \in 0..D : CanGain(x, y, k) /\ ~CanGain(x, y, k + 1)
  BY <1>4, <1>5
<1> QED BY <1>6 DEF DigitsToGain

(***************************************************************************)
(* A maximized number is in the type and the number it was.                *)
(***************************************************************************)
LEMMA MaximizedNumber ==
  ASSUME NEW x \in Coef, x # 0, NEW y \in Exp, NEW m, m = Maximize(x, y)
  PROVE  /\ m.c \in Coef /\ m.e \in Exp /\ m.c # 0
         /\ SameNumber(x, y, m.c, m.e)
<1> DEFINE k == DigitsToGain(x, y)
<1>1. k \in 0..D /\ CanGain(x, y, k)
  BY GainExists
<1> HIDE DEF k
<1>2. m.c = x * Pow10[k] /\ m.e = y - k
  BY DEF Maximize, k
<1>3. x \in Int /\ y \in Int /\ y >= ExpMin /\ y <= ExpMax /\ D \in Nat /\ ExpMin \in Int /\ ExpMax \in Int
  BY Widths, WidthsAreInts DEF Coef, CoefMin, Exp, ExpMin
<1>4. m.c \in Coef /\ m.e \in Exp
  BY <1>1, <1>2, <1>3 DEF CanGain, Exp
<1>5. m.c # 0
  <2>1. (x > 0 <=> m.c > 0) /\ (x < 0 <=> m.c < 0)
    BY <1>1, <1>2, <1>3, ScalingKeepsSign
  <2> QED BY <1>3, <2>1
<1>6. SameNumber(x, y, m.c, m.e)
  <2>1. y >= m.e /\ y - m.e = k /\ k <= Reach
    BY <1>1, <1>2, <1>3 DEF Reach
  <2> QED BY <1>2, <2>1 DEF SameNumber
<1> QED BY <1>4, <1>5, <1>6

-----------------------------------------------------------------------------
(***************************************************************************)
(* Sums.                                                                   *)
(***************************************************************************)

(***************************************************************************)
(* What division cuts off is below the divisor.                            *)
(***************************************************************************)
LEMMA QuotLeaves ==
  ASSUME NEW x \in Int, NEW y \in Nat, y >= 1
  PROVE  /\ Quot(x, y) \in Int
         /\ \E r \in Int : x = Quot(x, y) * y + r /\ -y < r /\ r < y
<1>1. PICK m \in Nat : m = Abs(x) /\ (x < 0 => x = -m) /\ (x >= 0 => x = m)
  BY DEF Abs
<1>2. PICK q \in Nat : q = m \div y
  BY DivBounds
<1>3. y * q <= m /\ m < y * (q + 1) /\ y * (q + 1) = y * q + y /\ q * y = y * q /\ (-q) * y = -(y * q)
  BY <1>2, DivBounds
<1>4. Quot(x, y) = IF x < 0 THEN -q ELSE q
  BY <1>1, <1>2, QuotForm
<1>5. PICK u \in Nat : u = y * q
  OBVIOUS
<1>6. Quot(x, y) * y = IF x < 0 THEN -u ELSE u
  BY <1>3, <1>4, <1>5
<1>7. x - (Quot(x, y) * y) \in Int /\ x = Quot(x, y) * y + (x - (Quot(x, y) * y))
  BY <1>5, <1>6
<1>8. -y < x - (Quot(x, y) * y) /\ x - (Quot(x, y) * y) < y
  BY <1>1, <1>3, <1>5, <1>6
<1> QED BY <1>4, <1>7, <1>8

(***************************************************************************)
(* Aligned operands: the smaller one is cut to the exponent of the larger, *)
(* and both lose a digit if the sum leaves int256.                         *)
(***************************************************************************)
LEMMA AlignedSumIsClose ==
  ASSUME NEW x \in Coef, NEW z \in Coef, NEW d \in 0..D, NEW e \in Exp, NEW f \in Int, e - f = d,
         NEW r, r = AddAligned(x, Quot(z, Pow10[d]), e), r.status = "ok"
  PROVE  /\ r.e - f \in 0..(D + 1)
         /\ Abs(x * Pow10[d] + z - r.c * Pow10[r.e - f]) < 2 * Pow10[r.e - f]
<1>1. /\ x \in Int /\ z \in Int /\ D \in Nat /\ CoefMax \in Nat /\ CoefMax >= 10 /\ e \in Int
      /\ d \in 0..(D + 1) /\ d + 1 \in 0..(D + 1)
      /\ x <= CoefMax /\ x >= -CoefMax - 1 /\ z <= CoefMax /\ z >= -CoefMax - 1
  BY PowersOfCoef, Widths DEF Coef, CoefMin, Exp, ExpMin
<1>2. Pow10[d + 1] = Pow10[d] * 10 /\ Pow10[d] \in Nat /\ Pow10[d] >= 1
  BY <1>1, NextPower
<1>3. PICK p \in Nat : p = Pow10[d]
  BY <1>2
<1>4. PICK s \in Int : s = Quot(z, p)
  BY <1>1, <1>2, <1>3, QuotLeaves
<1>5. PICK t \in Int : z = s * p + t /\ -p < t /\ t < p
  BY <1>1, <1>2, <1>3, <1>4, QuotLeaves
<1>6. PICK sp \in Int, xp \in Int : sp = s * p /\ xp = x * p
  BY <1>1
<1>7. CASE x + s \in Coef
  <2>1. r.c = x + s /\ r.e = e
    BY <1>3, <1>4, <1>7 DEF AddAligned, Num
  <2>2. (x + s) * p = xp + sp
    BY <1>1, <1>6
  <2>3. r.e - f = d
    BY <2>1
  <2>4. x * p + z - r.c * p = t
    BY <1>5, <1>6, <2>1, <2>2
  <2> QED BY <1>1, <1>2, <1>3, <1>5, <2>3, <2>4 DEF Abs
<1>8. CASE x + s \notin Coef
  <2>1. e < ExpMax /\ r = Num(WrapCoef(Quot(x, 10) + Quot(s, 10)), e + 1)
    <3>1. e <= ExpMax /\ ExpMax \in Int /\ e \in Int
      BY Widths DEF Exp, ExpMin
    <3>2. ASSUME e = ExpMax PROVE FALSE
      <4>1. r = Fail("ExponentOverflow")
        BY <1>3, <1>4, <1>8, <3>1, <3>2 DEF AddAligned
      <4> QED BY <4>1 DEF Fail
    <3> QED BY <1>3, <1>4, <1>8, <3>1, <3>2 DEF AddAligned
  <2>2. 10 \in Nat /\ 10 >= 1
    OBVIOUS
  <2>3. PICK q1 \in Int : q1 = Quot(x, 10)
    BY <1>1, <2>2, QuotLeaves, Zenon
  <2>4. PICK q2 \in Int : q2 = Quot(s, 10)
    BY <1>4, <2>2, QuotLeaves, Zenon
  <2>5. PICK r1 \in Int : x = q1 * 10 + r1 /\ -10 < r1 /\ r1 < 10
    BY <1>1, <2>2, <2>3, QuotLeaves, Zenon
  <2>6. PICK r2 \in Int : s = q2 * 10 + r2 /\ -10 < r2 /\ r2 < 10
    BY <1>4, <2>2, <2>4, QuotLeaves, Zenon
  <2>7. s <= CoefMax /\ s >= -CoefMax - 1
    <3>1. (z >= 0 => s \in 0..z) /\ (z < 0 => s \in z..0)
      BY <1>1, <1>2, <1>3, <1>4, QuotShrinks
    <3> QED BY <1>1, <3>1
  <2>8. q1 + q2 \in Coef
    BY <1>1, <2>5, <2>6, <2>7 DEF Coef, CoefMin
  <2>9. WrapCoef(q1 + q2) = q1 + q2
    BY <1>1, <2>8, WrapKeepsType DEF WrapCoef, Coef, CoefMin
  <2>10. r.c = q1 + q2 /\ r.e = e + 1
    BY <2>1, <2>3, <2>4, <2>9 DEF Num
  <2>11. r.e - f = d + 1 /\ Pow10[r.e - f] = p * 10
    BY <1>1, <1>2, <1>3, <2>10
  <2>12. PICK u1 \in Int, u2 \in Int, v1 \in Int, v2 \in Int :
           u1 = q1 * p /\ u2 = q2 * p /\ v1 = r1 * p /\ v2 = r2 * p
    OBVIOUS
  <2>13. xp = u1 * 10 + v1 /\ sp = u2 * 10 + v2 /\ (q1 + q2) * (p * 10) = u1 * 10 + u2 * 10
    <3>1. (q1 * 10 + r1) * p = (q1 * p) * 10 + r1 * p /\ (q2 * 10 + r2) * p = (q2 * p) * 10 + r2 * p
      OBVIOUS
    <3>2. (q1 + q2) * (p * 10) = (q1 * p) * 10 + (q2 * p) * 10
      OBVIOUS
    <3> QED BY <1>6, <2>5, <2>6, <2>12, <3>1, <3>2
  <2>14. v1 <= 9 * p /\ v1 >= -(9 * p) /\ v2 <= 9 * p /\ v2 >= -(9 * p)
    <3>1. p * r1 <= p * 9 /\ p * (-9) <= p * r1 /\ p * r2 <= p * 9 /\ p * (-9) <= p * r2
      <4>1. r1 <= 9 /\ -9 <= r1 /\ r2 <= 9 /\ -9 <= r2 /\ 9 \in Int /\ -9 \in Int
        BY <2>5, <2>6
      <4> QED BY <4>1, TimesGrows, Zenon
    <3>2. r1 * p = p * r1 /\ r2 * p = p * r2
      OBVIOUS
    <3> QED BY <2>12, <3>1, <3>2
  <2>15. x * p + z - r.c * (p * 10) = v1 + v2 + t
    <3>1. r.c * (p * 10) = u1 * 10 + u2 * 10
      BY <2>10, <2>13
    <3>2. x * p = u1 * 10 + v1 /\ z = (u2 * 10 + v2) + t
      BY <1>5, <1>6, <2>13
    <3> QED BY <1>1, <1>5, <2>12, <3>1, <3>2
  <2> QED BY <1>1, <1>2, <1>3, <1>5, <2>11, <2>14, <2>15 DEF Abs
<1> QED BY <1>7, <1>8

(***************************************************************************)
(* The sum of two maximized numbers: of numbers far apart it is the larger *)
(* one, otherwise it is close.                                             *)
(***************************************************************************)
LEMMA MaximizedSumIsClose ==
  ASSUME NEW A, NEW B, A.c \in Coef, B.c \in Coef, A.e \in Exp, B.e \in Exp,
         NEW large, large = (IF B.e > A.e THEN B ELSE A),
         NEW small, small = (IF B.e > A.e THEN A ELSE B),
         NEW r, r = AddMaximized(A, B), r.status = "ok",
         NEW diff, diff = large.e - small.e
  PROVE  /\ diff > D + 1 => SameNumber(r.c, r.e, large.c, large.e)
         /\ diff <= D + 1 => Abs(large.c * Pow10[diff] + small.c - r.c * Pow10[r.e - small.e])
                               < 2 * Pow10[r.e - small.e]
<1>1. /\ large.c \in Coef /\ small.c \in Coef /\ large.e \in Exp /\ small.e \in Exp
      /\ large.e >= small.e /\ large.e \in Int /\ small.e \in Int /\ diff \in Nat
      /\ large.c \in Int /\ small.c \in Int /\ D \in Nat
  <2>1. A.e \in Int /\ B.e \in Int /\ D \in Nat
    BY Widths, WidthsAreInts DEF Exp, ExpMin
  <2>2. large.e >= small.e /\ large.e \in Int /\ small.e \in Int
    BY <2>1
  <2> QED BY <2>1, <2>2, Widths DEF Coef, CoefMin
<1>2. r = IF diff > D THEN Num(large.c, large.e)
                      ELSE AddAligned(large.c, Quot(small.c, Pow10[diff]), large.e)
  BY DEF AddMaximized
<1>3. CASE diff > D
  <2>1. r.c = large.c /\ r.e = large.e
    BY <1>2, <1>3 DEF Num
  <2>2. SameNumber(r.c, r.e, large.c, large.e)
    <3>1. Pow10[0] = 1
      BY Pow10Def
    <3>2. 0 <= Reach /\ large.c * 1 = large.c /\ large.e - large.e = 0
      BY <1>1 DEF Reach
    <3> QED BY <1>1, <2>1, <3>1, <3>2 DEF SameNumber
  <2>3. ASSUME diff <= D + 1
        PROVE  Abs(large.c * Pow10[diff] + small.c - r.c * Pow10[r.e - small.e])
                 < 2 * Pow10[r.e - small.e]
    <3>1. diff = D + 1 /\ r.e - small.e = D + 1
      BY <1>1, <1>3, <2>1, <2>3
    <3>2. PICK p \in Nat : p = Pow10[D + 1] /\ CoefMax + 1 < p /\ CoefMax \in Nat
      <4>1. D + 1 \in 0..(D + 1)
        BY <1>1
      <4>2. Pow10[D + 1] \in Nat
        BY <4>1, Pow10Grows
      <4> QED BY <4>2, PowersOfCoef
    <3>3. small.c <= CoefMax /\ small.c >= -CoefMax - 1
      BY <1>1 DEF Coef, CoefMin
    <3>4. PICK u \in Int : u = large.c * p
      BY <1>1
    <3>5. u + small.c - u = small.c
      BY <1>1
    <3>6. Abs(small.c) < 2 * p
      BY <1>1, <3>2, <3>3 DEF Abs
    <3> QED BY <2>1, <3>1, <3>2, <3>4, <3>5, <3>6
  <2> QED BY <2>2, <2>3
<1>4. CASE ~(diff > D)
  <2>1. diff \in 0..D /\ ~(diff > D + 1)
    BY <1>1, <1>4
  <2>2. r = AddAligned(large.c, Quot(small.c, Pow10[diff]), large.e)
    BY <1>2, <1>4
  <2> QED BY <1>1, <2>1, <2>2, AlignedSumIsClose
<1> QED BY <1>3, <1>4

(***************************************************************************)
(* The sum of the coefficients as add computes it, maximized or not.       *)
(***************************************************************************)
SumIsClose(x, ex, y, ey, r) ==
  LET A == Maximize(x, ex)
      B == Maximize(y, ey)
      large == IF B.e > A.e THEN B ELSE A
      small == IF B.e > A.e THEN A ELSE B
      diff  == large.e - small.e
  IN  CASE x = 0 \/ y = 0 -> SameNumber(r.c, r.e, A.c + B.c, IF x = 0 THEN B.e ELSE A.e)
        [] x # 0 /\ y # 0 /\ diff > D + 1 -> SameNumber(r.c, r.e, large.c, large.e)
        [] x # 0 /\ y # 0 /\ diff <= D + 1 ->
             Abs(large.c * Pow10[diff] + small.c - r.c * Pow10[r.e - small.e])
               < 2 * Pow10[r.e - small.e]

(***************************************************************************)
(* The sum add answers, of coefficients it maximizes itself, is close.     *)
(***************************************************************************)
LEMMA AddIsClose ==
  ASSUME NEW x \in Coef, NEW y \in Coef, NEW ex \in Exp, NEW ey \in Exp,
         NEW r, r = Add(x, ex, y, ey), r.status = "ok"
  PROVE  SumIsClose(x, ex, y, ey, r)
<1> DEFINE A == Maximize(x, ex)
           B == Maximize(y, ey)
<1>1. 0 \in Coef /\ Coef \subseteq Int /\ x \in Int /\ y \in Int
  BY Widths DEF Coef, CoefMin
<1>2. CASE x = 0 /\ y = 0
  <2>1. A.c = 0 /\ B.c = 0
    BY <1>2 DEF Maximize
  <2>2. r.c = 0
    BY <1>2 DEF Add, Num
  <2>3. A.c + B.c = 0
    BY <2>1
  <2>4. SameNumber(r.c, r.e, A.c + B.c, IF x = 0 THEN B.e ELSE A.e)
    BY <2>2, <2>3 DEF SameNumber
  <2> QED BY <1>2, <2>4 DEF SumIsClose
<1>3. CASE x = 0 /\ y # 0
  <2>1. A.c = 0 /\ B.c \in Int /\ SameNumber(y, ey, B.c, B.e)
    BY <1>1, <1>3, MaximizedNumber DEF Maximize
  <2>2. r.c = y /\ r.e = ey
    BY <1>3 DEF Add, Num
  <2>3. A.c + B.c = B.c
    BY <2>1
  <2>4. SameNumber(r.c, r.e, A.c + B.c, IF x = 0 THEN B.e ELSE A.e)
    BY <1>3, <2>1, <2>2, <2>3
  <2> QED BY <1>3, <2>4 DEF SumIsClose
<1>4. CASE x # 0 /\ y = 0
  <2>1. B.c = 0 /\ A.c \in Int /\ SameNumber(x, ex, A.c, A.e)
    BY <1>1, <1>4, MaximizedNumber DEF Maximize
  <2>2. r.c = x /\ r.e = ex
    BY <1>4 DEF Add, Num
  <2>3. A.c + B.c = A.c
    BY <2>1
  <2>4. SameNumber(r.c, r.e, A.c + B.c, IF x = 0 THEN B.e ELSE A.e)
    BY <1>4, <2>1, <2>2, <2>3
  <2> QED BY <1>4, <2>4 DEF SumIsClose
<1>5. CASE x # 0 /\ y # 0
  <2>1. A.c \in Coef /\ A.e \in Exp /\ B.c \in Coef /\ B.e \in Exp
    BY <1>5, MaximizedNumber
  <2>2. r = AddMaximized(A, B)
    <3>1. A.full /\ B.full
      <4>1. ASSUME ~(A.full /\ B.full) PROVE FALSE
        <5>1. r = Fail("MaximizeOverflow")
          BY <1>5, <4>1 DEF Add
        <5> QED BY <5>1 DEF Fail
      <4> QED BY <4>1
    <3> QED BY <1>5, <3>1 DEF Add
  <2> DEFINE large == IF B.e > A.e THEN B ELSE A
             small == IF B.e > A.e THEN A ELSE B
             diff  == large.e - small.e
  <2>3. /\ diff > D + 1 => SameNumber(r.c, r.e, large.c, large.e)
        /\ diff <= D + 1 => Abs(large.c * Pow10[diff] + small.c - r.c * Pow10[r.e - small.e])
                              < 2 * Pow10[r.e - small.e]
    <3> HIDE DEF A, B
    <3> QED BY <2>1, <2>2, MaximizedSumIsClose
  <2>4. diff > D + 1 \/ diff <= D + 1
    <3>1. A.e \in Int /\ B.e \in Int /\ D \in Nat
      BY <2>1, Widths, WidthsAreInts DEF Exp, ExpMin
    <3> HIDE DEF A, B
    <3> QED BY <3>1
  <2>5. diff > D + 1 => ~(diff <= D + 1)
    <3>1. A.e \in Int /\ B.e \in Int /\ D \in Nat
      BY <2>1, Widths, WidthsAreInts DEF Exp, ExpMin
    <3> HIDE DEF A, B
    <3> QED BY <3>1
  <2> HIDE DEF large, small, diff, A, B
  <2> QED BY <1>5, <2>3, <2>4, <2>5, Zenon DEF SumIsClose, A, B, large, small, diff
<1> QED BY <1>2, <1>3, <1>4, <1>5

-----------------------------------------------------------------------------
(***************************************************************************)
(* Counted digits.                                                         *)
(***************************************************************************)

(***************************************************************************)
(* Powers of ten whose product is below 10^(D+1) are in the table.         *)
(***************************************************************************)
LEMMA PowerInTable ==
  ASSUME NEW m \in 0..(D + 1), NEW n \in 0..(D + 1), NEW h \in Nat, h < Pow10[D + 1],
         Pow10[m] * Pow10[n] <= h
  PROVE  m + n <= D /\ Pow10[m + n] = Pow10[m] * Pow10[n]
<1>1. D \in Nat /\ D + 1 \in 0..(D + 1) /\ D + 1 - m \in 0..(D + 1)
  BY WidthsAreInts
<1>2. Pow10[m] \in Nat /\ Pow10[n] \in Nat /\ Pow10[D + 1 - m] \in Nat /\ Pow10[D + 1] \in Nat
  BY <1>1, Pow10Grows
<1>3. Pow10[D + 1] = Pow10[m] * Pow10[D + 1 - m]
  <2>1. m + (D + 1 - m) = D + 1 /\ m + (D + 1 - m) <= D + 1
    BY <1>1
  <2> QED BY <1>1, <2>1, Pow10Def
<1>4. ~(D + 1 - m <= n)
  <2>1. D + 1 - m <= n => Pow10[D + 1 - m] <= Pow10[n]
    BY <1>1, Pow10Grows
  <2>2. Pow10[D + 1 - m] <= Pow10[n] => Pow10[m] * Pow10[D + 1 - m] <= Pow10[m] * Pow10[n]
    BY <1>2, TimesGrows
  <2>3. Pow10[m] * Pow10[n] \in Nat
    BY <1>2
  <2> QED BY <1>2, <1>3, <2>1, <2>2, <2>3
<1>5. m + n <= D
  BY <1>1, <1>4
<1> QED BY <1>1, <1>5, Pow10Def

(***************************************************************************)
(* After some digits have been counted: they are gone from the number, and *)
(* something is left of it.                                                *)
(***************************************************************************)
Counted(h, acc) ==
  /\ acc.count \in 0..(D + 1) /\ acc.high = h \div Pow10[acc.count]
  /\ acc.count = 0 \/ acc.high >= 1

(***************************************************************************)
(* A coarse step counts digits the number has, and never its last one.     *)
(***************************************************************************)
LEMMA CoarseStepCounts ==
  ASSUME NEW h \in Nat, h < Pow10[D + 1], NEW acc, Counted(h, acc), NEW n \in 1..D
  PROVE  Counted(h, CoarseStep(acc, n))
<1>1. D \in Nat /\ n \in 0..(D + 1) /\ n \in Nat /\ acc.count \in 0..(D + 1) /\ acc.count \in Nat
  BY WidthsAreInts DEF Counted
<1>2. /\ Pow10[n] \in Nat /\ Pow10[n] >= 1
      /\ Pow10[acc.count] \in Nat /\ Pow10[acc.count] >= 1
  BY <1>1, Pow10Grows
<1>3. PICK g \in Nat : g = acc.high /\ g = h \div Pow10[acc.count]
  BY <1>2, DivBounds DEF Counted
<1>4. CASE g > Pow10[n]
  <2>1. Pow10[acc.count] * Pow10[n] <= h
    <3>1. Pow10[acc.count] * Pow10[n] <= Pow10[acc.count] * g
      BY <1>2, <1>4, TimesGrows
    <3>2. Pow10[acc.count] * g <= h
      BY <1>2, <1>3, DivBounds
    <3>3. Pow10[acc.count] * Pow10[n] \in Nat /\ Pow10[acc.count] * g \in Nat
      BY <1>2
    <3> QED BY <3>1, <3>2, <3>3
  <2>2. acc.count + n <= D /\ Pow10[acc.count + n] = Pow10[acc.count] * Pow10[n]
    BY <1>1, <2>1, PowerInTable
  <2>3. CoarseStep(acc, n) = [high |-> g \div Pow10[n], count |-> acc.count + n]
    BY <1>3, <1>4 DEF CoarseStep
  <2>4. g \div Pow10[n] = h \div Pow10[acc.count + n]
    BY <1>2, <1>3, <2>2, DivTwice
  <2>5. g \div Pow10[n] >= 1
    <3>1. PICK q \in Nat : q = g \div Pow10[n]
      BY <1>2, DivBounds
    <3>2. g < Pow10[n] * (q + 1)
      BY <1>2, <3>1, DivBounds
    <3>3. q = 0 => g < Pow10[n]
      BY <1>2, <3>2
    <3> QED BY <1>2, <1>4, <3>1, <3>3
  <2> QED BY <1>1, <2>2, <2>3, <2>4, <2>5 DEF Counted
<1>5. CASE ~(g > Pow10[n])
  BY <1>3, <1>5 DEF CoarseStep
<1> QED BY <1>4, <1>5

(***************************************************************************)
(* adjustExponent is the number of decimal digits of the high word: not    *)
(* one more, not one less.                                                 *)
(***************************************************************************)
LEMMA DigitCountIsExact ==
  ASSUME NEW h \in Nat, h < Pow10[D + 1], NEW n, n = DigitCount(h)
  PROVE  n \in 0..(D + 1) /\ h < Pow10[n] /\ (n > 0 => Pow10[n - 1] <= h)
<1>1. D \in Nat /\ 0 \in 0..(D + 1) /\ D + 1 \in 0..(D + 1)
  BY WidthsAreInts
<1> DEFINE none == [high |-> h, count |-> 0]
           one  == CoarseStep(none, DigitSteps[1])
           two  == CoarseStep(one, DigitSteps[2])
           three == CoarseStep(two, DigitSteps[3])
           left == CoarseStep(three, DigitSteps[4])
<1>2. Counted(h, left)
  <2>1. \A i \in 1..4 : DigitSteps[i] \in 1..D
    BY DigitStepsAssumption
  <2>2. DigitSteps[1] \in 1..D /\ DigitSteps[2] \in 1..D /\ DigitSteps[3] \in 1..D /\ DigitSteps[4] \in 1..D
    BY <2>1
  <2>3. Counted(h, none)
    <3>1. h \div 1 = h /\ Pow10[0] = 1
      BY Pow10Def
    <3> QED BY <1>1, <3>1 DEF Counted
  <2> HIDE DEF none
  <2>4. Counted(h, one)
    BY <2>2, <2>3, CoarseStepCounts
  <2> HIDE DEF one
  <2>5. Counted(h, two)
    BY <2>2, <2>4, CoarseStepCounts
  <2> HIDE DEF two
  <2>6. Counted(h, three)
    BY <2>2, <2>5, CoarseStepCounts
  <2> HIDE DEF three
  <2> QED BY <2>2, <2>6, CoarseStepCounts
<1> HIDE DEF left
<1>3. PICK g \in Nat, k \in 0..(D + 1) : k = left.count /\ g = left.high /\ g = h \div Pow10[k]
  <2>1. Pow10[left.count] \in Nat /\ Pow10[left.count] >= 1 /\ left.count \in 0..(D + 1)
    BY <1>2, Pow10Grows DEF Counted
  <2> QED BY <1>2, <2>1, DivBounds DEF Counted
<1>4. Pow10[k] \in Nat /\ Pow10[k] >= 1 /\ k \in Nat
  BY Pow10Grows
<1> DEFINE Last(i) == /\ g \div Pow10[i] = 0
                      /\ \A m \in 0..(i - 1) : g \div Pow10[m] > 0
<1>5. \A i \in 0..(D + 1) : /\ Pow10[i] \in Nat /\ Pow10[i] >= 1 /\ g \div Pow10[i] \in Nat
                            /\ g \div Pow10[i] = 0 <=> g < Pow10[i]
  <2>1. ASSUME NEW i \in 0..(D + 1)
        PROVE  /\ Pow10[i] \in Nat /\ Pow10[i] >= 1 /\ g \div Pow10[i] \in Nat
               /\ g \div Pow10[i] = 0 <=> g < Pow10[i]
    <3>1. Pow10[i] \in Nat /\ Pow10[i] >= 1
      BY Pow10Grows
    <3>2. Abs(g) = g /\ g \div Pow10[i] \in Nat
      BY <3>1, DivBounds DEF Abs
    <3>3. Quot(g, Pow10[i]) = g \div Pow10[i]
      BY <3>1, <3>2, QuotForm
    <3>4. Quot(g, Pow10[i]) = 0 <=> Abs(g) < Pow10[i]
      BY <3>1, QuotShrinks
    <3> QED BY <3>1, <3>2, <3>3, <3>4
  <2> QED BY <2>1
<1>6. g < Pow10[D + 1]
  <2>1. Pow10[k] * g <= h
    BY <1>3, <1>4, DivBounds
  <2>2. g * 1 <= g * Pow10[k]
    BY <1>4, TimesGrows
  <2>3. Pow10[D + 1] \in Nat /\ g * Pow10[k] = Pow10[k] * g /\ Pow10[k] * g \in Nat
    BY <1>1, <1>4, Pow10Grows
  <2> QED BY <2>1, <2>2, <2>3
<1>7. \E i \in 0..(D + 1) : Last(i)
  <2> DEFINE B == {i \in 0..(D + 1) : g \div Pow10[i] = 0}
  <2>1. B \in SUBSET Nat /\ D + 1 \in B
    BY <1>1, <1>5, <1>6
  <2>2. PICK i \in B : \A m \in B : i <= m
    BY <2>1, LeastNumber
  <2>3. i \in 0..(D + 1) /\ \A m \in 0..(i - 1) : m \notin B /\ m \in 0..(D + 1)
    BY <1>1, <2>2
  <2>4. \A m \in 0..(i - 1) : g \div Pow10[m] > 0
    BY <1>5, <2>3
  <2> QED BY <2>2, <2>3, <2>4
<1>8. PICK i \in 0..(D + 1) : Last(i) /\ n = k + i
  <2>1. n = left.count + CHOOSE i \in 0..(D + 1) : /\ left.high \div Pow10[i] = 0
                                                   /\ \A m \in 0..(i - 1) : left.high \div Pow10[m] > 0
    BY DEF DigitCount, left
  <2> QED BY <1>3, <1>7, <2>1
<1>9. g < Pow10[i]
  BY <1>5, <1>8
<1>10. CASE i = 0
  <2>1. g = 0
    BY <1>9, <1>10, Pow10Def
  <2>2. k = 0
    BY <1>2, <1>3, <2>1 DEF Counted
  <2>3. h = 0
    <3>1. h \div 1 = h /\ Pow10[0] = 1
      BY Pow10Def
    <3> QED BY <1>3, <2>1, <2>2, <3>1
  <2>4. n = 0 /\ Pow10[0] = 1
    BY <1>8, <1>10, <2>2, Pow10Def
  <2> QED BY <1>1, <2>3, <2>4
<1>11. CASE i # 0
  <2>1. i - 1 \in 0..(D + 1) /\ i - 1 \in 0..(i - 1)
    BY <1>1, <1>11
  <2>2. g >= Pow10[i - 1] /\ Pow10[i - 1] \in Nat
    BY <1>5, <1>8, <2>1
  <2>3. Pow10[k] * Pow10[i - 1] <= h
    <3>1. Pow10[k] * Pow10[i - 1] <= Pow10[k] * g
      BY <1>4, <2>2, TimesGrows
    <3>2. Pow10[k] * g <= h
      BY <1>3, <1>4, DivBounds
    <3>3. Pow10[k] * Pow10[i - 1] \in Nat /\ Pow10[k] * g \in Nat
      BY <1>4, <2>2
    <3> QED BY <3>1, <3>2, <3>3
  <2>4. k + (i - 1) <= D /\ Pow10[k + (i - 1)] = Pow10[k] * Pow10[i - 1]
    BY <2>1, <2>3, PowerInTable
  <2>5. n \in 0..(D + 1) /\ n > 0 /\ n - 1 = k + (i - 1) /\ k + i <= D + 1
    BY <1>1, <1>4, <1>8, <2>4, <1>11
  <2>6. h < Pow10[n]
    <3>1. Pow10[n] = Pow10[k] * Pow10[i]
      BY <1>8, <2>5, Pow10Def
    <3>2. Pow10[k] * (g + 1) <= Pow10[k] * Pow10[i]
      <4>1. g + 1 <= Pow10[i] /\ Pow10[i] \in Int
        BY <1>5, <1>9
      <4> QED BY <1>4, <4>1, TimesGrows
    <3>3. h < Pow10[k] * (g + 1)
      BY <1>3, <1>4, DivBounds
    <3>4. Pow10[k] * (g + 1) \in Nat /\ Pow10[k] * Pow10[i] \in Nat
      BY <1>4, <1>5
    <3> QED BY <3>1, <3>2, <3>3, <3>4
  <2> QED BY <2>3, <2>4, <2>5, <2>6
<1> QED BY <1>10, <1>11

-----------------------------------------------------------------------------
(***************************************************************************)
(* Products.                                                               *)
(***************************************************************************)

(***************************************************************************)
(* A magnitude of 256 bits gets its sign at the price of one digit at most, *)
(* and loses none if it fits.                                              *)
(***************************************************************************)
LEMMA SignCostsOneDigit ==
  ASSUME NEW x \in Int, NEW y \in Int, NEW m \in Nat, m <= UintMax, NEW e \in Exp,
         NEW r, r = UnabsLossy(x, y, m, e)
  PROVE  /\ r.status \in {"ok", "Panic"} /\ (m <= CoefMax \/ e < ExpMax => r.status = "ok")
         /\ r.status = "ok" =>
              /\ r.c \in Coef /\ r.e \in Exp
              /\ r.c # 0 => (r.c < 0 <=> (x < 0) # (y < 0))
              /\ \/ Abs(r.c) = m /\ r.e = e
                 \/ Abs(r.c) = m \div 10 /\ r.e = e + 1 /\ m > CoefMax
<1>1. /\ CoefMax \in Nat /\ m <= 2 * CoefMax + 1 /\ ExpMax \in Nat
      /\ e \in Int /\ e <= ExpMax /\ e >= -ExpMax - 1
  BY Widths DEF UintMax, Exp, ExpMin
<1>2. PICK q \in Nat : q = m \div 10 /\ q <= CoefMax
  BY <1>1
<1>3. PICK opposite \in BOOLEAN : opposite <=> (x < 0) # (y < 0)
  OBVIOUS
<1> DEFINE sign == IF opposite THEN -1 ELSE 1
<1>4. CASE m <= CoefMax \/ (opposite /\ m = CoefMax + 1)
  <2>1. r = Num(sign * m, e)
    BY <1>3, <1>4 DEF UnabsLossy
  <2>2. sign * m = IF opposite THEN -m ELSE m
    OBVIOUS
  <2>3. r.status = "ok" /\ r.c = (IF opposite THEN -m ELSE m) /\ r.e = e
    BY <2>1, <2>2 DEF Num
  <2>4. r.c \in Coef /\ Abs(r.c) = m
    BY <1>1, <1>4, <2>3 DEF Coef, CoefMin, Abs
  <2>5. r.c # 0 => (r.c < 0 <=> opposite)
    BY <2>3
  <2> QED BY <1>3, <2>3, <2>4, <2>5
<1>5. CASE ~(m <= CoefMax \/ (opposite /\ m = CoefMax + 1))
  <2>1. r = Checked(sign * q, e + 1)
    BY <1>2, <1>3, <1>5 DEF UnabsLossy
  <2>2. sign * q = IF opposite THEN -q ELSE q
    OBVIOUS
  <2>3. CASE e = ExpMax
    <3>1. e + 1 \notin Exp
      BY <1>1, <2>3 DEF Exp
    <3>2. r.status = "Panic"
      BY <2>1, <3>1 DEF Checked, Fail
    <3> QED BY <1>1, <1>5, <2>3, <3>2
  <2>4. CASE e # ExpMax
    <3>1. e + 1 \in Exp
      BY <1>1, <2>4 DEF Exp, ExpMin
    <3>2. r.status = "ok" /\ r.c = (IF opposite THEN -q ELSE q) /\ r.e = e + 1
      BY <2>1, <2>2, <3>1 DEF Checked, Num
    <3>3. r.c \in Coef /\ Abs(r.c) = q
      BY <1>1, <1>2, <3>2 DEF Coef, CoefMin, Abs
    <3>4. r.c # 0 => (r.c < 0 <=> opposite)
      BY <3>2
    <3> QED BY <1>1, <1>2, <1>3, <1>5, <3>1, <3>2, <3>3, <3>4
  <2> QED BY <2>3, <2>4
<1> QED BY <1>4, <1>5

(***************************************************************************)
(* The high word of a product of two coefficients has at most D + 1 digits, *)
(* and with that many only int256.max is left after they are cut off.      *)
(***************************************************************************)
LEMMA HighWord ==
  ASSUME NEW x \in Coef, NEW y \in Coef, NEW p, p = Abs(x) * Abs(y)
  PROVE  /\ p \in Nat /\ High(p) \in Nat /\ High(p) < Pow10[D + 1]
         /\ p \div Pow10[D + 1] <= CoefMax
<1> DEFINE n == CoefMax + 1
<1>1. /\ n \in Nat /\ n >= 1 /\ UintMax + 1 = 2 * n /\ Pow10[D + 1] \in Nat
      /\ n < Pow10[D + 1] /\ Pow10[D + 1] >= 1
  BY PowersOfCoef DEF UintMax
<1>2. PICK k \in Nat, l \in Nat : k = Abs(x) /\ l = Abs(y) /\ k <= n /\ l <= n
  <2>1. x \in Int /\ y \in Int
    BY CoefIsInt
  <2> QED BY <2>1, CoefMagnitude
<1> HIDE DEF n
<1>3. p \in Nat /\ p <= n * n
  <2>1. k * l <= k * n /\ n * k <= n * n
    BY <1>1, <1>2, TimesGrows
  <2>2. k * n = n * k /\ k * l \in Nat /\ n * k \in Nat /\ n * n \in Nat
    BY <1>1
  <2> QED BY <1>2, <2>1, <2>2
<1>4. High(p) \in Nat /\ High(p) < n
  <2>1. (2 * n) * n = n * n + n * n /\ n * n >= 1 /\ n * n \in Nat
    BY <1>1
  <2>2. p < (2 * n) * n
    BY <1>3, <2>1
  <2>3. 2 * n \in Nat /\ 2 * n >= 1
    BY <1>1
  <2>4. p \div (2 * n) < n /\ p \div (2 * n) \in Nat
    BY <1>1, <1>3, <2>2, <2>3, DivAtLeast, DivBounds
  <2> QED BY <1>1, <2>4 DEF High
<1>5. p \div Pow10[D + 1] < n /\ p \div Pow10[D + 1] \in Nat
  <2>1. n * (n + 1) <= n * Pow10[D + 1]
    BY <1>1, TimesGrows
  <2>2. n * (n + 1) = n * n + n /\ n * Pow10[D + 1] = Pow10[D + 1] * n /\ n * n \in Nat
        /\ Pow10[D + 1] * n \in Nat
    BY <1>1
  <2>3. p < Pow10[D + 1] * n
    BY <1>1, <1>3, <2>1, <2>2
  <2> QED BY <1>1, <1>3, <2>3, DivAtLeast, DivBounds
<1>6. CoefMax \in Nat /\ n = CoefMax + 1
  BY Widths DEF n
<1> QED BY <1>1, <1>3, <1>4, <1>5, <1>6

(***************************************************************************)
(* The product of two numbers that are not zero loses at most D + 1 digits, *)
(* no more than its size demands, and keeps its sign.  mulDiv never        *)
(* overflows, and only an exponent beyond int256 makes mul fail.           *)
(***************************************************************************)
ProductInRange(e) == e \in Exp /\ e + D + 1 \in Exp

LEMMA MulTruncates ==
  ASSUME NEW x \in Coef, NEW y \in Coef, x # 0, y # 0, NEW ex \in Exp, NEW ey \in Exp,
         NEW r, r = Mul(x, ex, y, ey)
  PROVE  /\ r.status \in {"ok", "Panic"} /\ (ProductInRange(ex + ey) => r.status = "ok")
         /\ r.status = "ok" =>
              /\ r.c \in Coef /\ r.e \in Exp
              /\ r.c # 0 /\ (r.c < 0 <=> (x < 0) # (y < 0))
              /\ CutDigits(Abs(r.c), r.e, Abs(x * y), ex + ey)
              /\ IF Abs(x * y) > CoefMax THEN Abs(r.c) >= CoefMax \div 10 ELSE r.e = ex + ey
<1> DEFINE p == Abs(x) * Abs(y)
           n == DigitCount(High(p))
<1>1. /\ x \in Int /\ y \in Int /\ ex \in Int /\ ey \in Int /\ D \in Nat /\ CoefMax \in Nat
      /\ CoefMax >= 10 /\ ExpMax \in Nat
  BY PowersOfCoef, CoefIsInt, Widths DEF Exp, ExpMin
<1>2. /\ p \in Nat /\ High(p) \in Nat /\ High(p) < Pow10[D + 1]
      /\ p \div Pow10[D + 1] <= CoefMax
  BY HighWord
<1>3. Abs(x * y) = p
  BY <1>1, ProductMagnitude
<1> HIDE DEF p
<1>4. n \in 0..(D + 1) /\ High(p) < Pow10[n] /\ (n > 0 => Pow10[n - 1] <= High(p))
  BY <1>2, DigitCountIsExact
<1> HIDE DEF n
<1>5. Pow10[n] \in Nat /\ Pow10[n] >= 1
  BY <1>4, Pow10Grows
<1>6. PICK m \in Nat : m = p \div Pow10[n]
  BY <1>2, <1>5, DivBounds
<1>7. UintMax \in Nat /\ UintMax = 2 * CoefMax + 1
  BY <1>1 DEF UintMax
<1>8. m <= UintMax
  <2>1. PICK h \in Nat : h = High(p)
    BY <1>2
  <2>2. UintMax + 1 \in Nat /\ UintMax + 1 >= 1 /\ h + 1 <= Pow10[n]
    BY <1>4, <1>5, <1>7, <2>1
  <2>3. p < (UintMax + 1) * (h + 1)
    BY <1>2, <2>1, <2>2, DivBounds DEF High
  <2>4. (UintMax + 1) * (h + 1) <= (UintMax + 1) * Pow10[n]
    BY <1>5, <2>2, TimesGrows
  <2>5. (UintMax + 1) * (h + 1) \in Nat /\ (UintMax + 1) * Pow10[n] = Pow10[n] * (UintMax + 1)
        /\ Pow10[n] * (UintMax + 1) \in Nat
    BY <1>5, <1>7
  <2>6. p < Pow10[n] * (UintMax + 1)
    BY <1>2, <2>3, <2>4, <2>5
  <2>7. m < UintMax + 1
    BY <1>2, <1>5, <1>6, <2>2, <2>6, DivAtLeast
  <2> QED BY <1>7, <2>7
<1>9. n = D + 1 => m <= CoefMax
  BY <1>2, <1>6
<1>10. r = IF {ex + ey, ex + ey + n} \subseteq Exp THEN UnabsLossy(x, y, m, ex + ey + n)
                                                   ELSE Fail("Panic")
  <2>1. CASE {ex + ey, ex + ey + n} \subseteq Exp
    <3>1. r = MulDivLossy(x, y, Abs(x), Abs(y), Pow10[n], ex + ey + n)
      BY <2>1 DEF Mul, n, p
    <3>2. ~(High(p) >= Pow10[n])
      BY <1>2, <1>4, <1>5
    <3> QED BY <1>6, <2>1, <3>1, <3>2 DEF MulDivLossy, p
  <2>2. CASE ~({ex + ey, ex + ey + n} \subseteq Exp)
    BY <2>2 DEF Mul, n, p
  <2> QED BY <2>1, <2>2
<1>11. CASE ~({ex + ey, ex + ey + n} \subseteq Exp)
  <2>1. r.status = "Panic"
    BY <1>10, <1>11 DEF Fail
  <2>2. ~ProductInRange(ex + ey)
    <3>1. ASSUME ex + ey \in Exp, ex + ey + D + 1 \in Exp PROVE ex + ey + n \in Exp
      BY <1>1, <1>4, <3>1 DEF Exp, ExpMin
    <3> QED BY <1>11, <3>1 DEF ProductInRange
  <2> QED BY <2>1, <2>2
<1>12. CASE {ex + ey, ex + ey + n} \subseteq Exp
  <2>1. r = UnabsLossy(x, y, m, ex + ey + n) /\ ex + ey + n \in Exp
    BY <1>10, <1>12
  <2>2. /\ r.status \in {"ok", "Panic"}
        /\ (m <= CoefMax \/ ex + ey + n < ExpMax => r.status = "ok")
        /\ r.status = "ok" =>
             /\ r.c \in Coef /\ r.e \in Exp
             /\ r.c # 0 => (r.c < 0 <=> (x < 0) # (y < 0))
             /\ \/ Abs(r.c) = m /\ r.e = ex + ey + n
                \/ Abs(r.c) = m \div 10 /\ r.e = ex + ey + n + 1 /\ m > CoefMax
    <3>1. PICK f \in Exp : f = ex + ey + n
      BY <2>1
    <3>2. r = UnabsLossy(x, y, m, f)
      BY <2>1, <3>1
    <3>3. /\ r.status \in {"ok", "Panic"} /\ (m <= CoefMax \/ f < ExpMax => r.status = "ok")
          /\ r.status = "ok" =>
               /\ r.c \in Coef /\ r.e \in Exp
               /\ r.c # 0 => (r.c < 0 <=> (x < 0) # (y < 0))
               /\ \/ Abs(r.c) = m /\ r.e = f
                  \/ Abs(r.c) = m \div 10 /\ r.e = f + 1 /\ m > CoefMax
      <4>1. x \in Int /\ y \in Int /\ m \in Nat /\ m <= UintMax
        BY <1>1, <1>8
      <4> QED BY <3>2, <4>1, SignCostsOneDigit
    <3> QED BY <3>1, <3>3
  <2>3. ProductInRange(ex + ey) => r.status = "ok"
    <3>1. ex + ey + D + 1 \in Exp => ex + ey + D + 1 <= ExpMax
      BY DEF Exp
    <3>2. n # D + 1 => n < D + 1
      BY <1>1, <1>4
    <3> QED BY <1>1, <1>4, <1>9, <2>2, <3>1, <3>2 DEF ProductInRange
  <2>4. ASSUME r.status = "ok"
        PROVE  \E k \in 0..(D + 1) : Abs(r.c) = p \div Pow10[k] /\ r.e = ex + ey + k
    <3>1. CASE Abs(r.c) = m /\ r.e = ex + ey + n
      BY <1>4, <1>6, <3>1
    <3>2. CASE Abs(r.c) = m \div 10 /\ r.e = ex + ey + n + 1 /\ m > CoefMax
      <4>1. n + 1 \in 0..(D + 1)
        BY <1>1, <1>4, <1>9, <3>2
      <4>2. Pow10[n + 1] = Pow10[n] * 10
        BY <1>4, <4>1, NextPower
      <4>3. m \div 10 = p \div Pow10[n + 1]
        BY <1>2, <1>5, <1>6, <4>2, DivTwice
      <4>4. r.e = ex + ey + (n + 1)
        BY <1>1, <1>4, <3>2
      <4> QED BY <3>2, <4>1, <4>3, <4>4
    <3> QED BY <2>2, <2>4, <3>1, <3>2
  <2>5. ASSUME r.status = "ok", p > CoefMax PROVE Abs(r.c) >= CoefMax \div 10
    <3>1. PICK c \in Nat : c = CoefMax \div 10 /\ 10 * c <= CoefMax
      BY <1>1
    <3>2. m \in Nat /\ (m > CoefMax => m \div 10 >= c)
      BY <1>1, <3>1, DivGrows
    <3>3. m >= c
      <4>1. CASE n = 0
        <5>1. Pow10[n] = 1 /\ p \div 1 = p
          BY <1>2, <4>1, Pow10Def
        <5> QED BY <1>1, <1>2, <1>6, <2>5, <3>1, <5>1
      <4>2. CASE n # 0
        <5>1. n - 1 \in 0..(D + 1) /\ n - 1 + 1 = n /\ n - 1 + 1 \in 0..(D + 1)
          BY <1>1, <1>4, <4>2
        <5>2. Pow10[n] = Pow10[n - 1] * 10 /\ Pow10[n - 1] \in Nat
          BY <5>1, NextPower
        <5>3. PICK h \in Nat : h = High(p) /\ Pow10[n - 1] <= h
          BY <1>1, <1>2, <1>4, <4>2
        <5>4. (UintMax + 1) * h <= p
          <6>1. PICK U \in Nat : U = UintMax + 1 /\ U >= 1
            BY <1>7
          <6>2. h = p \div U
            BY <5>3, <6>1 DEF High
          <6>3. U * (p \div U) <= p
            BY <1>2, <6>1, DivBounds
          <6> QED BY <6>1, <6>2, <6>3
        <5>5. (UintMax + 1) * Pow10[n - 1] <= (UintMax + 1) * h
          BY <1>7, <5>2, <5>3, TimesGrows
        <5>6. Pow10[n - 1] * (10 * c) <= Pow10[n - 1] * (UintMax + 1)
          BY <1>1, <1>7, <3>1, <5>2, TimesGrows
        <5>7. /\ Pow10[n - 1] * (10 * c) = Pow10[n] * c
              /\ Pow10[n - 1] * (UintMax + 1) = (UintMax + 1) * Pow10[n - 1]
              /\ Pow10[n] * c \in Nat /\ (UintMax + 1) * Pow10[n - 1] \in Nat /\ (UintMax + 1) * h \in Nat
          BY <1>5, <1>7, <5>2
        <5>8. Pow10[n] * c <= p
          BY <1>2, <5>4, <5>5, <5>6, <5>7
        <5> QED BY <1>2, <1>5, <1>6, <3>1, <5>8, DivAtLeast
      <4> QED BY <4>1, <4>2
    <3> QED BY <2>2, <2>5, <3>1, <3>2, <3>3
  <2>6. ASSUME ~(p > CoefMax) PROVE n = 0 /\ m = p
    <3>1. High(p) = 0
      <4>1. p < (UintMax + 1) * 1 /\ UintMax + 1 \in Nat /\ UintMax + 1 >= 1
        BY <1>1, <1>2, <1>7, <2>6
      <4>2. p \div (UintMax + 1) < 1
        BY <1>2, <4>1, DivAtLeast
      <4> QED BY <1>2, <4>2 DEF High
    <3>2. n = 0
      <4>1. ASSUME n > 0 PROVE FALSE
        <5>1. n - 1 \in 0..(D + 1)
          BY <1>1, <1>4, <4>1
        <5>2. Pow10[n - 1] >= 1 /\ Pow10[n - 1] \in Nat
          BY <5>1, Pow10Grows
        <5> QED BY <1>4, <3>1, <4>1, <5>2
      <4> QED BY <1>4, <4>1
    <3>3. m = p
      <4>1. Pow10[n] = 1 /\ p \div 1 = p
        BY <1>2, <3>2, Pow10Def
      <4> QED BY <1>6, <4>1
    <3> QED BY <3>2, <3>3
  <2>7. ASSUME r.status = "ok" PROVE r.c # 0 /\ (~(p > CoefMax) => r.e = ex + ey)
    <3>1. CASE p > CoefMax
      <4>1. Abs(r.c) >= CoefMax \div 10 /\ CoefMax \div 10 >= 1
        BY <1>1, <2>5, <2>7, <3>1
      <4> QED BY <1>1, <3>1, <4>1 DEF Abs
    <3>2. CASE ~(p > CoefMax)
      <4>1. n = 0 /\ m = p
        BY <2>6, <3>2
      <4>2. p # 0
        BY <1>1, <1>3, ProductMagnitude DEF Abs
      <4>3. Abs(r.c) = p /\ r.e = ex + ey
        BY <1>1, <1>2, <2>2, <2>7, <3>2, <4>1
      <4> QED BY <4>2, <4>3 DEF Abs
    <3> QED BY <3>1, <3>2
  <2> QED BY <1>3, <2>2, <2>3, <2>4, <2>5, <2>7 DEF CutDigits, Reach
<1> QED BY <1>11, <1>12

-----------------------------------------------------------------------------
(***************************************************************************)
(* Quotients.                                                              *)
(***************************************************************************)

(***************************************************************************)
(* A maximized coefficient is full if it has D digits.                     *)
(***************************************************************************)
LEMMA FullHasDigits ==
  ASSUME NEW x \in Int
  PROVE  IsFull(x) <=> Pow10[D - 1] <= Abs(x)
<1>1. Pow10[D - 1] \in Nat /\ Pow10[D - 1] >= 1
  BY PowersOfCoef, Pow10Grows
<1>2. Quot(x, Pow10[D - 1]) = 0 <=> Abs(x) < Pow10[D - 1]
  BY <1>1, QuotShrinks
<1> QED BY <1>1, <1>2, QuotForm DEF IsFull

(***************************************************************************)
(* The dividend is scaled by the power of ten next below the divisor.      *)
(***************************************************************************)
LEMMA ScaleFitsDivisor ==
  ASSUME NEW b, b.c \in Coef, b.c # 0, b.full <=> IsFull(b.c),
         ~(Abs(b.c) < Pow10[D] /\ Abs(b.c) = 1), NEW n, n = DivScale(b)
  PROVE  n \in 0..D /\ Pow10[n] <= Abs(b.c) /\ Abs(b.c) <= Pow10[n + 1]
<1>1. PICK m \in Nat : m = Abs(b.c) /\ m >= 1 /\ m <= CoefMax + 1
  <2>1. b.c \in Int
    BY CoefIsInt
  <2>2. Abs(b.c) # 0
    BY <2>1 DEF Abs
  <2> QED BY <2>1, <2>2, CoefMagnitude
<1>2. /\ D \in Nat /\ D >= 2 /\ Pow10[D - 1] \in Nat /\ Pow10[D] \in Nat /\ Pow10[D + 1] \in Nat
      /\ CoefMax + 1 < Pow10[D + 1] /\ CoefMax \in Nat /\ D - 1 + 1 = D
      /\ Pow10[0] = 1 /\ Pow10[1] = 10 /\ Pow10[D] >= 1
  BY PowersOfCoef, Pow10Grows, Pow10Def
<1>3. b.full <=> Pow10[D - 1] <= m
  <2>1. b.c \in Int
    BY CoefIsInt
  <2> QED BY <1>1, <2>1, FullHasDigits
<1>4. CASE m >= Pow10[D]
  <2>1. n = D
    BY <1>1, <1>2, <1>4 DEF DivScale
  <2> QED BY <1>1, <1>2, <1>4, <2>1
<1>5. CASE m < Pow10[D] /\ b.full
  <2>1. n = D - 1
    BY <1>1, <1>2, <1>5 DEF DivScale
  <2> QED BY <1>1, <1>2, <1>3, <1>5, <2>1
<1>6. CASE m < Pow10[D] /\ ~b.full
  <2>1. PICK x \in Int : x = b.c /\ Abs(x) = m
    BY <1>1, CoefIsInt
  <2>2. PICK r \in DivRungs \cup {D} :
          m < Pow10[r] /\ \A s \in DivRungs : m < Pow10[s] => r <= s
    <3> DEFINE R == {r \in DivRungs \cup {D} : m < Pow10[r]}
    <3>1. R \in SUBSET Nat /\ D \in R
      <4>1. \A r \in R : r \in Nat
        BY <1>2, DivRungsAssumption
      <4>2. D \in R
        BY <1>6
      <4> QED BY <4>1, <4>2
    <3>2. PICK r \in R : \A s \in R : r <= s
      BY <3>1, LeastNumber
    <3> QED BY <3>2
  <2>3. PICK g : g = FirstRung(x)
    OBVIOUS
  <2>4. g \in DivRungs \cup {D} /\ m < Pow10[g]
    BY <2>1, <2>2, <2>3 DEF FirstRung
  <2>5. g \in 0..D
    BY <1>2, <2>4, DivRungsAssumption
  <2>6. PICK k \in 0..g : Pow10[k] < m /\ \A i \in (k + 1)..g : m <= Pow10[i]
    <3> DEFINE B == {i \in 0..g : \A j \in (i + 1)..g : m <= Pow10[j]}
    <3>1. B \in SUBSET Nat /\ g \in B
      BY <2>5
    <3>2. PICK k \in B : \A j \in B : k <= j
      BY <3>1, LeastNumber
    <3>3. m > 1
      BY <1>1, <1>2, <1>6
    <3>4. Pow10[k] < m
      <4>1. CASE k = 0
        BY <1>2, <3>3, <4>1
      <4>2. CASE k # 0
        <5>1. k - 1 \in 0..g /\ k - 1 \notin B
          BY <2>5, <3>2, <4>2
        <5>2. PICK j \in k..g : ~(m <= Pow10[j])
          BY <2>5, <5>1
        <5>3. j = k
          BY <2>5, <3>2, <5>2
        <5>4. k \in 0..(D + 1)
          BY <1>2, <2>5
        <5>5. Pow10[k] \in Nat
          BY <5>4, Pow10Grows
        <5> QED BY <1>1, <5>2, <5>3, <5>5
      <4> QED BY <4>1, <4>2
    <3> QED BY <3>2, <3>4
  <2>7. n = ScaleBelow(x, g)
    BY <1>1, <1>2, <1>6, <2>1, <2>3 DEF DivScale
  <2>8. n \in 0..g /\ Pow10[n] < m /\ \A i \in (n + 1)..g : m <= Pow10[i]
    BY <2>1, <2>6, <2>7 DEF ScaleBelow
  <2>9. n \in 0..(D + 1) /\ Pow10[n] \in Nat
    BY <1>2, <2>5, <2>8, Pow10Grows
  <2>10. n # g
    BY <1>1, <2>4, <2>8, <2>9
  <2>11. m <= Pow10[n + 1] /\ n \in 0..D
    BY <1>2, <2>5, <2>8, <2>10
  <2> QED BY <1>1, <2>8, <2>9, <2>11
<1> QED BY <1>1, <1>2, <1>4, <1>5, <1>6

(***************************************************************************)
(* mulDiv never overflows in div, and the quotient has at most one digit   *)
(* less than the dividend.                                                 *)
(***************************************************************************)
LEMMA ScaledQuotientFits ==
  ASSUME NEW x \in Coef, NEW y \in Coef, x # 0, y # 0, NEW n \in 0..D,
         Pow10[n] <= Abs(y), Abs(y) <= Pow10[n + 1],
         NEW p, p = Abs(x) * Pow10[n], NEW m, m = p \div Abs(y)
  PROVE  /\ p \in Nat /\ Abs(y) \in Nat /\ Abs(y) >= 1 /\ ~(High(p) >= Abs(y))
         /\ m \in Nat /\ m <= UintMax /\ m < Pow10[D + 1]
         /\ Abs(x) \div 10 <= m
<1>1. /\ D \in Nat /\ D >= 2 /\ n \in 0..(D + 1) /\ n + 1 \in 0..(D + 1)
      /\ CoefMax \in Nat /\ UintMax + 1 = 2 * (CoefMax + 1)
      /\ CoefMax + 1 < Pow10[D + 1] /\ Pow10[D + 1] \in Nat
      /\ Pow10[D - 2] \in Nat /\ Pow10[D - 1] = Pow10[D - 2] * 10
  BY PowersOfCoef DEF UintMax
<1>2. Pow10[n] \in Nat /\ Pow10[n] >= 1 /\ Pow10[n + 1] = Pow10[n] * 10
  BY <1>1, NextPower
<1>3. PICK u \in Nat, v \in Nat : u = Abs(x) /\ v = Abs(y) /\ u <= CoefMax + 1 /\ v >= 1
  <2>1. x \in Int /\ y \in Int
    BY CoefIsInt
  <2>2. Abs(y) # 0
    BY <2>1 DEF Abs
  <2> QED BY <2>1, <2>2, CoefMagnitude
<1>4. PICK w \in Nat : w = Pow10[n] /\ w >= 1 /\ w <= v /\ v <= w * 10
  BY <1>2, <1>3
<1>5. p \in Nat /\ p = u * w
  BY <1>3, <1>4
<1>6. p <= v * (CoefMax + 1) /\ v * (CoefMax + 1) \in Nat
  <2>1. w * u <= w * (CoefMax + 1) /\ (CoefMax + 1) * w <= (CoefMax + 1) * v
    BY <1>1, <1>3, <1>4, TimesGrows
  <2>2. /\ u * w = w * u /\ w * (CoefMax + 1) = (CoefMax + 1) * w
        /\ (CoefMax + 1) * v = v * (CoefMax + 1)
        /\ w * u \in Nat /\ (CoefMax + 1) * w \in Nat /\ v * (CoefMax + 1) \in Nat
    BY <1>1
  <2> QED BY <1>5, <2>1, <2>2
<1>7. ~(High(p) >= v)
  <2>1. (UintMax + 1) * v = v * (CoefMax + 1) + v * (CoefMax + 1)
    BY <1>1
  <2>2. v * (CoefMax + 1) >= 1
    BY <1>1, <1>3
  <2>3. p < (UintMax + 1) * v
    BY <1>5, <1>6, <2>1, <2>2
  <2>4. UintMax + 1 \in Nat /\ UintMax + 1 >= 1
    BY <1>1
  <2>5. p \div (UintMax + 1) < v /\ p \div (UintMax + 1) \in Nat
    BY <1>3, <1>5, <2>3, <2>4, DivAtLeast, DivBounds
  <2> QED BY <1>3, <2>5 DEF High
<1>8. m \in Nat /\ m = p \div v
  BY <1>3, <1>5, DivBounds
<1>9. m < CoefMax + 2
  <2>1. v * (CoefMax + 2) = v * (CoefMax + 1) + v
    BY <1>1
  <2>2. p < v * (CoefMax + 2)
    BY <1>3, <1>5, <1>6, <2>1
  <2>3. CoefMax + 2 \in Nat
    BY <1>1
  <2> QED BY <1>3, <1>5, <1>8, <2>2, <2>3, DivAtLeast
<1>10. u \div 10 <= m
  <2> DEFINE k == u \div 10
  <2>1. k \in Nat /\ 10 * k <= u
    BY <1>3
  <2> HIDE DEF k
  <2>2. w * (10 * k) <= w * u
    BY <1>3, <1>4, <2>1, TimesGrows
  <2>3. k * v <= k * (w * 10)
    BY <1>3, <1>4, <2>1, TimesGrows
  <2>4. /\ w * (10 * k) = k * (w * 10) /\ k * v = v * k /\ w * u = u * w
        /\ v * k \in Nat /\ k * (w * 10) \in Nat /\ u * w \in Nat
    BY <1>3, <1>4, <2>1
  <2>5. v * k <= p
    BY <1>5, <2>2, <2>3, <2>4
  <2>6. k <= m
    BY <1>3, <1>5, <1>8, <2>1, <2>5, DivAtLeast
  <2> QED BY <2>6 DEF k
<1>11. m <= UintMax /\ m < Pow10[D + 1]
  <2>1. UintMax = 2 * CoefMax + 1
    BY DEF UintMax
  <2> QED BY <1>1, <1>8, <1>9, <2>1
<1> QED BY <1>3, <1>5, <1>7, <1>8, <1>10, <1>11

(***************************************************************************)
(* The exponents div goes on with differ by that of the scaled quotient.   *)
(* If neither can give the scale, the quotient is far below the smallest.  *)
(***************************************************************************)
LEMMA ScaleIsShared ==
  ASSUME NEW ea \in Exp, NEW eb \in Exp, NEW n \in 0..D, NEW x, x = DivExponents(ea, eb, n)
  PROVE  /\ x.gone \in BOOLEAN
         /\ x.gone => ExpMin + 1 - (ea - eb) > Reach
         /\ ~x.gone => x.a \in Exp /\ x.b \in Exp /\ x.a - x.b = ea - eb - n
<1>1. /\ ea \in Int /\ eb \in Int /\ n \in Int /\ D \in Nat /\ ExpMax \in Nat /\ ExpMin = -ExpMax - 1
      /\ ea <= ExpMax /\ ea >= ExpMin /\ eb <= ExpMax /\ eb >= ExpMin /\ 2 * D + 2 <= ExpMax
      /\ n >= 0 /\ n <= D /\ Reach = D + 1
  BY Widths, WidthsAreInts, ExponentsFit DEF Exp, ExpMin, Reach
<1>2. PICK rest \in Int : rest = n - (ea - ExpMin)
  BY <1>1
<1>3. CASE rest <= 0
  <2>1. x = [a |-> ea - n, b |-> eb, gone |-> FALSE]
    BY <1>2, <1>3 DEF DivExponents
  <2> QED BY <1>1, <1>2, <1>3, <2>1 DEF Exp
<1>4. CASE rest > 0
  <2>1. PICK top \in Int : top = ExpMax - rest
    BY <1>1
  <2>2. x = [a |-> ExpMin, b |-> eb + rest, gone |-> eb > top]
    BY <1>1, <1>2, <1>4, <2>1 DEF DivExponents
  <2>3. x.gone \in BOOLEAN /\ (x.gone <=> eb > top) /\ x.a = ExpMin /\ x.b = eb + rest
    <3>1. x.a = ExpMin /\ x.b = eb + rest
      BY <2>2
    <3>2. x.gone = (eb > top)
      BY <2>2
    <3>3. CASE eb > top
      BY <3>1, <3>2, <3>3
    <3>4. CASE ~(eb > top)
      <4>1. (eb > top) = FALSE
        BY <3>4
      <4>2. x.gone = FALSE
        BY <3>2, <4>1, Zenon
      <4> QED BY <3>1, <3>4, <4>2
    <3> QED BY <3>3, <3>4
  <2>4. eb > top => ExpMin + 1 - (ea - eb) > Reach
    BY <1>1, <1>2, <2>1
  <2>5. ~(eb > top) => ExpMin \in Exp /\ eb + rest \in Exp /\ ExpMin - (eb + rest) = ea - eb - n
    BY <1>1, <1>2, <1>4, <2>1 DEF Exp
  <2> QED BY <2>3, <2>4, <2>5
<1> QED BY <1>2, <1>3, <1>4

(***************************************************************************)
(* Together with underflowBy they give an exponent of the type, the        *)
(* smallest one where it is needed.                                        *)
(***************************************************************************)
LEMMA QuotientExponent ==
  ASSUME NEW ea \in Exp, NEW eb \in Exp, ea - eb <= ExpMax - 1, NEW n \in 0..D,
         NEW x, x.a \in Exp, x.b \in Exp, x.a - x.b = ea - eb - n,
         NEW u, u = (IF x.a < 0 /\ x.b > x.a - ExpMin THEN x.b - (x.a - ExpMin) ELSE 0)
  PROVE  /\ u \in Nat /\ x.a + u - x.b = ea - eb - n + u
         /\ ea - eb - n + u \in Exp /\ ea - eb - n + u < ExpMax
         /\ u > 0 => ea - eb - n + u = ExpMin
<1>1. /\ ea \in Int /\ eb \in Int /\ n \in Int /\ ExpMax \in Nat /\ ExpMin = -ExpMax - 1
      /\ ea <= ExpMax /\ ea >= ExpMin /\ eb <= ExpMax /\ eb >= ExpMin
      /\ n >= 0
  BY Widths, WidthsAreInts DEF Exp, ExpMin
<1>2. /\ x.a \in Int /\ x.b \in Int /\ x.a <= ExpMax /\ x.a >= ExpMin
      /\ x.b <= ExpMax /\ x.b >= ExpMin
  BY <1>1 DEF Exp
<1> QED BY <1>1, <1>2 DEF Exp

(***************************************************************************)
(* A quotient of which w - 1 cut digits leave nothing is smaller than the  *)
(* power of ten they stand for.                                            *)
(***************************************************************************)
LEMMA NothingLeftIsSmall ==
  ASSUME NEW x \in Nat, NEW y \in Nat, y >= 1, NEW n \in 0..(D + 1), NEW w \in 0..(D + 1),
         NEW s, s = (x * Pow10[n]) \div y, s < Pow10[w], NEW p \in Int, NEW q \in Int, q - p >= w - n
  PROVE  SmallerNumber(x, p, y, q)
<1>1. /\ D \in Nat /\ Pow10[n] \in Nat /\ Pow10[w] \in Nat /\ Pow10[n] >= 1 /\ Pow10[w] >= 1
      /\ n \in Int /\ w \in Int /\ Reach = D + 1 /\ Pow10[0] = 1
  BY WidthsAreInts, Pow10Grows, Pow10Def DEF Reach
<1>2. x * Pow10[n] < y * Pow10[w]
  <2>1. x * Pow10[n] \in Nat
    BY <1>1
  <2> QED BY <1>1, <2>1, DivAtLeast
<1>3. (x * Pow10[n]) \div (y * Pow10[w]) = 0
  <2>1. /\ x * Pow10[n] \in Nat /\ y * Pow10[w] \in Nat /\ y * Pow10[w] >= 1
        /\ (y * Pow10[w]) * 1 = y * Pow10[w]
    BY <1>1
  <2>2. (x * Pow10[n]) \div (y * Pow10[w]) < 1
    BY <1>2, <2>1, DivAtLeast
  <2>3. (x * Pow10[n]) \div (y * Pow10[w]) \in Nat
    BY <2>1, DivBounds
  <2> QED BY <2>2, <2>3
<1>4. CASE w <= n
  <2>1. n - w \in 0..(D + 1)
    BY <1>1, <1>4
  <2>2. Pow10[n - w] \in Nat /\ Pow10[n - w] >= 1 /\ x * Pow10[n - w] \in Nat
    BY <2>1, Pow10Grows
  <2>3. x * Pow10[n - w] < y
    <3>1. (x * Pow10[n - w]) \div y = 0
      BY <1>3, <1>4, PowersCancel
    <3>2. (x * Pow10[n - w]) \div y < 1
      BY <3>1
    <3>3. y * 1 = y
      OBVIOUS
    <3> QED BY <2>2, <3>2, <3>3, DivAtLeast
  <2>4. CASE q < p
    <3>1. p - q \in 0..(D + 1) /\ p - q <= n - w /\ p - q <= Reach
      BY <1>1, <2>1, <2>4
    <3>2. Pow10[p - q] <= Pow10[n - w] /\ Pow10[p - q] \in Nat
      BY <2>1, <3>1, Pow10Grows
    <3>3. x * Pow10[p - q] <= x * Pow10[n - w]
      BY <2>2, <3>2, TimesGrows
    <3>4. x * Pow10[p - q] < y
      <4>1. x * Pow10[p - q] \in Nat
        BY <3>2
      <4> QED BY <2>2, <2>3, <3>3, <4>1
    <3> QED BY <2>4, <3>1, <3>4 DEF SmallerNumber
  <2>5. CASE ~(q < p)
    <3>1. x < y
      <4>1. x * 1 <= x * Pow10[n - w]
        BY <2>2, TimesGrows
      <4> QED BY <2>2, <2>3, <4>1
    <3>2. CASE q - p <= Reach
      <4>1. q - p \in 0..(D + 1)
        BY <1>1, <2>5, <3>2
      <4>2. Pow10[q - p] \in Nat /\ Pow10[q - p] >= 1
        BY <4>1, Pow10Grows
      <4>3. y * 1 <= y * Pow10[q - p]
        BY <4>2, TimesGrows
      <4>4. x < y * Pow10[q - p]
        <5>1. y * Pow10[q - p] \in Nat
          BY <4>2
        <5> QED BY <3>1, <4>3, <5>1
      <4> QED BY <2>5, <3>2, <4>4 DEF SmallerNumber
    <3>3. CASE q - p > Reach
      BY <3>3 DEF SmallerNumber
    <3> QED BY <1>1, <3>2, <3>3
  <2> QED BY <2>4, <2>5
<1>5. CASE ~(w <= n)
  <2>1. w - n \in 0..(D + 1) /\ q - p >= w - n /\ q >= p
    BY <1>1, <1>5
  <2>2. Pow10[w - n] \in Nat /\ Pow10[w - n] >= 1 /\ y * Pow10[w - n] \in Nat /\ y * Pow10[w - n] >= 1
    BY <2>1, Pow10Grows
  <2>3. x < y * Pow10[w - n]
    <3>1. x \div (y * Pow10[w - n]) = 0
      BY <1>3, <1>5, PowersCancel
    <3>2. x \div (y * Pow10[w - n]) < 1
      BY <3>1
    <3>3. (y * Pow10[w - n]) * 1 = y * Pow10[w - n]
      BY <2>2
    <3> QED BY <2>2, <3>2, <3>3, DivAtLeast
  <2>4. CASE q - p <= Reach
    <3>1. q - p \in 0..(D + 1)
      BY <1>1, <2>1, <2>4
    <3>2. Pow10[w - n] <= Pow10[q - p] /\ Pow10[q - p] \in Nat
      BY <2>1, <3>1, Pow10Grows
    <3>3. y * Pow10[w - n] <= y * Pow10[q - p]
      BY <2>2, <3>2, TimesGrows
    <3>4. x < y * Pow10[q - p]
      <4>1. y * Pow10[q - p] \in Nat
        BY <3>2
      <4> QED BY <2>2, <2>3, <3>3, <4>1
    <3> QED BY <2>1, <2>4, <3>4 DEF SmallerNumber
  <2>5. CASE q - p > Reach
    BY <2>5 DEF SmallerNumber
  <2> QED BY <1>1, <2>4, <2>5
<1> QED BY <1>4, <1>5

(***************************************************************************)
(* div of maximized operands: the quotient is cut off once, keeps the sign *)
(* and the digits unless its exponent is the smallest there is, and only   *)
(* a quotient below ten units of the smallest exponent becomes zero.       *)
(***************************************************************************)
QuotientIsCut(r, A, B) ==
  /\ r.c \in Coef /\ r.e \in Exp \cup {0}
  /\ r.c # 0 => /\ r.c < 0 <=> (A.c < 0) # (B.c < 0)
                /\ CutQuotient(Abs(r.c), r.e, Abs(A.c), Abs(B.c), A.e - B.e)
                /\ Abs(r.c) >= Abs(A.c) \div 10 \/ r.e <= ExpMin + 1
  /\ r.c = 0 => SmallerNumber(Abs(A.c), A.e - B.e, Abs(B.c), ExpMin + 1)

LEMMA DivMaximizedTruncates ==
  ASSUME NEW A, NEW B, A.c \in Coef, B.c \in Coef, A.e \in Exp, B.e \in Exp, A.c # 0, B.c # 0,
         Pow10[D - 1] <= Abs(A.c), NEW n \in 0..D, n = DivScale(B),
         Pow10[n] <= Abs(B.c), Abs(B.c) <= Pow10[n + 1],
         A.e - B.e <= ExpMax - 1,
         NEW r, r = DivMaximized(A, B)
  PROVE  r.status = "ok" /\ QuotientIsCut(r, A, B)
<1> DEFINE t == A.e - B.e
<1>1. /\ D \in Nat /\ D >= 2 /\ n \in 0..(D + 1) /\ n \in Int /\ ExpMax \in Nat /\ ExpMin = -ExpMax - 1
      /\ t \in Int /\ CoefMax \in Nat /\ Reach = D + 1 /\ A.c \in Int /\ B.c \in Int
      /\ Pow10[n] \in Nat /\ Pow10[n] >= 1 /\ Pow10[D - 2] \in Nat /\ Pow10[D - 2] >= 1
      /\ 10 * Pow10[D - 2] <= CoefMax
  <2>1. n \in 0..(D + 1)
    BY WidthsAreInts
  <2>2. Pow10[n] \in Nat /\ Pow10[n] >= 1
    BY <2>1, Pow10Grows
  <2>3. A.e \in Int /\ B.e \in Int
    BY Widths DEF Exp, ExpMin
  <2> QED BY <2>1, <2>2, <2>3, PowersOfCoef, Widths, CoefIsInt DEF ExpMin, Reach
<1>2. PICK x : x = DivExponents(A.e, B.e, n)
  OBVIOUS
<1>3. PICK u : u = IF x.a < 0 /\ x.b > x.a - ExpMin THEN x.b - (x.a - ExpMin) ELSE 0
  OBVIOUS
<1>4. /\ x.gone \in BOOLEAN
      /\ x.gone => ExpMin + 1 - t > Reach
      /\ ~x.gone => /\ u \in Nat /\ x.a + u - x.b = t - n + u
                    /\ t - n + u \in Exp /\ t - n + u < ExpMax
                    /\ u > 0 => t - n + u = ExpMin
  BY <1>2, <1>3, ScaleIsShared, QuotientExponent
<1> HIDE DEF t
<1>5. PICK k \in Nat, l \in Nat : k = Abs(A.c) /\ l = Abs(B.c) /\ l >= 1
  BY <1>1 DEF Abs
<1>6. PICK p \in Nat : p = k * Pow10[n]
  BY <1>1
<1>7. PICK m \in Nat : m = p \div l
  BY <1>5, DivBounds
<1> DEFINE Left(w) == m \div Pow10[w]
<1>8. ~(High(p) >= l) /\ m <= UintMax /\ m < Pow10[D + 1] /\ k \div 10 <= m
  BY <1>5, <1>6, <1>7, ScaledQuotientFits
<1>9. CASE x.gone
  <2>1. r = MaximizedZero
    BY <1>2, <1>9 DEF DivMaximized
  <2>2. r.status = "ok" /\ r.c = 0 /\ r.e = 0
    BY <2>1 DEF MaximizedZero, Num
  <2>3. SmallerNumber(k, t, l, ExpMin + 1)
    BY <1>1, <1>4, <1>5, <1>9 DEF SmallerNumber
  <2>4. 0 \in Coef
    BY <1>1 DEF Coef, CoefMin
  <2> QED BY <1>5, <2>2, <2>3, <2>4 DEF QuotientIsCut, t
<1>10. CASE ~x.gone
  <2>1. PICK f \in Exp : f = t - n + u /\ f < ExpMax
    BY <1>4, <1>10
  <2>2. WrapExp(x.a + u - x.b) = f
    BY <1>4, <1>10, <2>1, WrapExpKeepsType
  <2>3. PICK q : q = UnabsLossy(A.c, B.c, m, f)
    OBVIOUS
  <2>4. q = MulDivLossy(A.c, B.c, Abs(A.c), Pow10[n], Abs(B.c), WrapExp(x.a + u - x.b))
    BY <1>5, <1>6, <1>7, <1>8, <2>2, <2>3 DEF MulDivLossy
  <2>5. /\ q.status = "ok" /\ q.c \in Coef /\ q.e \in Exp
        /\ q.c # 0 => (q.c < 0 <=> (A.c < 0) # (B.c < 0))
        /\ \/ Abs(q.c) = m /\ q.e = f
           \/ Abs(q.c) = m \div 10 /\ q.e = f + 1 /\ m > CoefMax
    <3>1. A.c \in Int /\ B.c \in Int /\ m <= UintMax
      BY <1>1, <1>8
    <3> QED BY <2>1, <2>3, <3>1, SignCostsOneDigit
  <2>6. PICK j \in 0..1 : /\ Abs(q.c) = Left(j) /\ q.e = f + j
                          /\ j = 0 => Abs(q.c) = m
                          /\ j = 1 => Abs(q.c) = m \div 10 /\ m > CoefMax
    <3>1. Left(0) = m /\ Left(1) = m \div 10
      <4>1. m \div 1 = m /\ Pow10[0] = 1 /\ Pow10[1] = 10
        BY Pow10Def
      <4> QED BY <4>1 DEF Left
    <3>2. CASE Abs(q.c) = m /\ q.e = f
      <4>1. q.e = f + 0 /\ 0 \in 0..1 /\ 0 # 1
        BY <1>1, <2>1, <3>2
      <4> QED BY <3>1, <3>2, <4>1
    <3>3. CASE Abs(q.c) = m \div 10 /\ q.e = f + 1 /\ m > CoefMax
      <4>1. 1 \in 0..1 /\ 1 # 0
        OBVIOUS
      <4> QED BY <3>1, <3>3, <4>1
    <3> QED BY <2>5, <3>2, <3>3
  <2>7. Abs(q.c) \in Nat /\ Abs(q.c) >= k \div 10 /\ q.c # 0
    <3>1. k <= CoefMax + 1 /\ k \div 10 \in Nat /\ k \div 10 >= 1
      <4>1. k >= 10
        BY <1>5, PowersOfCoef
      <4>2. k <= CoefMax + 1
        BY <1>1, <1>5, CoefMagnitude
      <4> QED BY <4>1, <4>2
    <3>2. CASE j = 0
      BY <1>8, <2>6, <3>1, <3>2 DEF Abs
    <3>3. CASE j = 1
      <4>1. m > CoefMax /\ Abs(q.c) = m \div 10 /\ k <= m
        BY <1>1, <2>6, <3>1, <3>3
      <4>2. k \div 10 <= m \div 10 /\ m \div 10 \in Nat
        BY <4>1
      <4> QED BY <3>1, <4>1, <4>2 DEF Abs
    <3> QED BY <3>2, <3>3
  <2>8. r = CASE u = 0 -> q
              [] u \in Nat \ {0} /\ u > D -> MaximizedZero
              [] u \in 1..D -> IF Quot(q.c, Pow10[u]) = 0 THEN MaximizedZero
                                                        ELSE Num(Quot(q.c, Pow10[u]), q.e)
    <3> DEFINE shifted == Quot(q.c, Pow10[u])
               y == CASE x.gone -> MaximizedZero
                      [] ~x.gone /\ (u = 0 \/ q.status # "ok") -> q
                      [] ~x.gone /\ q.status = "ok" /\ u > D  -> MaximizedZero
                      [] ~x.gone /\ q.status = "ok" /\ u \in 1..D ->
                           IF shifted = 0 THEN MaximizedZero ELSE Num(shifted, q.e)
    <3>1. r = y
      BY <1>2, <1>3, <2>4, Zenon DEF DivMaximized
    <3> HIDE DEF shifted
    <3>2. CASE u = 0
      BY <1>1, <1>10, <3>1, <3>2
    <3>3. CASE u \in Nat \ {0} /\ u > D
      BY <1>1, <1>10, <2>5, <3>1, <3>3
    <3>4. CASE u \in 1..D
      BY <1>1, <1>10, <2>5, <3>1, <3>4 DEF shifted
    <3> QED BY <1>1, <1>4, <1>10, <3>2, <3>3, <3>4 DEF shifted
  <2>9. ASSUME NEW w \in 0..(D + 1)
        PROVE  CutQuotient(Left(w), t - n + w, k, l, t)
    <3>1. Pow10[w] \in Nat /\ Pow10[w] >= 1
      BY Pow10Grows
    <3>2. Left(w) = (k * Pow10[n]) \div (l * Pow10[w])
      BY <1>5, <1>6, <1>7, <3>1, DivTwice DEF Left
    <3>3. Left(w) = IF w <= n THEN (k * Pow10[n - w]) \div l ELSE k \div (l * Pow10[w - n])
      <4>1. n \in 0..(D + 1)
        BY <1>1
      <4>2. (k * Pow10[n]) \div (l * Pow10[w]) =
               IF w <= n THEN (k * Pow10[n - w]) \div l ELSE k \div (l * Pow10[w - n])
        BY <1>5, <4>1, PowersCancel
      <4> HIDE DEF Left
      <4> QED BY <3>2, <4>2
    <3> HIDE DEF Left
    <3>4. CASE w <= n
      <4>1. n - w \in 0..Reach /\ t - n + w = t - (n - w)
        BY <1>1, <3>4
      <4> QED BY <3>3, <3>4, <4>1 DEF CutQuotient
    <3>5. CASE ~(w <= n)
      <4>1. w - n \in 0..Reach /\ t - n + w = t + (w - n)
        BY <1>1, <3>5
      <4> QED BY <3>3, <3>5, <4>1 DEF CutQuotient
    <3> QED BY <3>4, <3>5
  <2> HIDE DEF Left
  <2>10. CASE u = 0
    <3>1. r = q
      BY <1>1, <2>8, <2>10
    <3>4. q.e = t - n + j /\ j \in 0..(D + 1)
      BY <1>1, <2>1, <2>6, <2>10
    <3>2. q.c # 0
      BY <2>7
    <3>3. CutQuotient(Abs(q.c), q.e, k, l, t)
      BY <2>6, <2>9, <3>4
    <3> QED BY <1>5, <2>5, <2>7, <3>1, <3>2, <3>3 DEF QuotientIsCut, t
  <2>11. CASE u \in Nat \ {0} /\ u > D
    <3>1. r.status = "ok" /\ r.c = 0 /\ r.e = 0
      BY <1>1, <2>8, <2>11 DEF MaximizedZero, Num
    <3>2. D + 1 \in 0..(D + 1) /\ ExpMin + 1 - t >= D + 1 - n
      BY <1>1, <1>4, <1>10, <2>11
    <3>3. SmallerNumber(k, t, l, ExpMin + 1)
      <4>1. m = (k * Pow10[n]) \div l /\ m < Pow10[D + 1]
        BY <1>6, <1>7, <1>8
      <4>2. n \in 0..(D + 1) /\ t \in Int /\ ExpMin + 1 \in Int
        BY <1>1
      <4>3. PICK z \in Int, w \in 0..(D + 1) : z = ExpMin + 1 /\ w = D + 1
        BY <3>2, <4>2
      <4>4. z - t >= w - n /\ m < Pow10[w]
        BY <1>1, <3>2, <4>1, <4>3
      <4>5. SmallerNumber(k, t, l, z)
        BY <1>5, <4>1, <4>2, <4>4, NothingLeftIsSmall
      <4> QED BY <4>3, <4>5
    <3>4. 0 \in Coef
      BY <1>1 DEF Coef, CoefMin
    <3> QED BY <1>5, <3>1, <3>3, <3>4 DEF QuotientIsCut, t
  <2>12. CASE u \in 1..D
    <3>1. PICK s : s = Quot(q.c, Pow10[u])
      OBVIOUS
    <3>2. /\ Pow10[u] \in Nat /\ Pow10[u] >= 1 /\ u \in 0..(D + 1) /\ u + j \in 0..(D + 1)
          /\ u + j <= D + 1 /\ u + 1 \in 0..(D + 1) /\ q.c \in Int
      <4>1. u \in 0..(D + 1) /\ u + 1 \in 0..(D + 1) /\ u + j \in 0..(D + 1) /\ u + j <= D + 1
        BY <1>1, <2>12
      <4>2. Pow10[u] \in Nat /\ Pow10[u] >= 1
        BY <4>1, Pow10Grows
      <4> QED BY <2>5, <4>1, <4>2, CoefIsInt
    <3>8. j \in 0..(D + 1) /\ Pow10[j] \in Nat /\ Pow10[j] >= 1
      <4>1. j \in 0..(D + 1)
        BY <1>1
      <4> QED BY <4>1, Pow10Grows
    <3>3. Pow10[u + j] = Pow10[j] * Pow10[u] /\ Pow10[u + j] \in Nat /\ Pow10[u + j] >= 1
      <4>1. j + u = u + j /\ j + u <= D + 1
        BY <1>1, <2>12
      <4> QED BY <3>2, <3>8, <4>1, Pow10Def, Pow10Grows
    <3>4. s \in Int /\ Abs(s) = Left(u + j) /\ Abs(s) \in Nat
      <4>1. s \in Int /\ Abs(s) = Abs(q.c) \div Pow10[u] /\ Abs(s) \in Nat
        BY <3>1, <3>2, QuotShrinks, QuotForm
      <4>2. Left(j) \div Pow10[u] = Left(u + j)
        BY <3>2, <3>3, <3>8, DivTwice DEF Left
      <4> QED BY <2>6, <4>1, <4>2
    <3>5. q.e = t - n + (u + j) /\ q.e <= ExpMin + 1 /\ t - n + u = ExpMin
      <4>1. u > 0 /\ t - n + u = ExpMin /\ f = ExpMin /\ j <= 1 /\ j \in Int /\ u \in Int
        BY <1>1, <1>4, <1>10, <2>1, <2>12
      <4>2. q.e = f + j
        BY <2>6
      <4> QED BY <1>1, <4>1, <4>2
    <3>6. CASE s = 0
      <4>1. r.status = "ok" /\ r.c = 0 /\ r.e = 0
        BY <2>8, <2>12, <3>1, <3>6 DEF MaximizedZero, Num
      <4>2. m \div Pow10[u + j] < 1
        BY <3>4, <3>6 DEF Abs, Left
      <4>3. m < Pow10[u + j]
        <5>1. Pow10[u + j] * 1 = Pow10[u + j]
          BY <3>3
        <5> QED BY <3>3, <4>2, <5>1, DivAtLeast
      <4>4. ExpMin + 1 - t >= u + j - n
        BY <1>1, <3>5, <2>12
      <4>5. SmallerNumber(k, t, l, ExpMin + 1)
        <5>1. m = (k * Pow10[n]) \div l
          BY <1>6, <1>7
        <5>2. n \in 0..(D + 1) /\ t \in Int /\ ExpMin + 1 \in Int /\ u + j \in 0..(D + 1)
          BY <1>1, <3>2
        <5>3. PICK z \in Int, w \in 0..(D + 1) : z = ExpMin + 1 /\ w = u + j
          BY <5>2
        <5>4. z - t >= w - n /\ m < Pow10[w]
          <6>1. m < Pow10[w]
            BY <4>3, <5>3
          <6>2. u \in Int /\ j \in Int /\ n \in Int /\ t \in Int
            BY <1>1, <2>12
          <6>3. u + j = w /\ ExpMin + 1 = z
            BY <5>3
          <6>4. z - t >= (u + j) - n
            BY <1>1, <4>4, <5>3, <6>2, <6>3
          <6> QED BY <6>1, <6>3, <6>4
        <5>5. SmallerNumber(k, t, l, z)
          BY <1>5, <5>1, <5>2, <5>4, NothingLeftIsSmall
        <5> QED BY <5>3, <5>5
      <4>6. 0 \in Coef
        BY <1>1 DEF Coef, CoefMin
      <4> QED BY <1>5, <4>1, <4>5, <4>6 DEF QuotientIsCut, t
    <3>7. CASE s # 0
      <4>1. r.status = "ok" /\ r.c = s /\ r.e = q.e
        BY <2>8, <2>12, <3>1, <3>7 DEF Num
      <4>2. s \in Coef /\ (s < 0 <=> q.c < 0) /\ q.c # 0
        <5>1. (q.c >= 0 => s \in 0..q.c) /\ (q.c < 0 => s \in q.c..0)
          BY <3>1, <3>2, QuotShrinks
        <5> QED BY <1>1, <2>5, <3>2, <3>4, <3>7, <5>1 DEF Coef, CoefMin
      <4>3. CutQuotient(Abs(s), q.e, k, l, t)
        BY <2>9, <3>2, <3>4, <3>5
      <4> QED BY <1>5, <2>5, <3>5, <3>7, <4>1, <4>2, <4>3 DEF QuotientIsCut, t
    <3> QED BY <3>6, <3>7
  <2> QED BY <1>1, <1>4, <1>10, <2>10, <2>11, <2>12
<1> QED BY <1>4, <1>9, <1>10

(***************************************************************************)
(* What a number gives up of its exponent when it is maximized is at most  *)
(* D, and it is full, and another digit does not fit, if its exponent      *)
(* could give one more.                                                    *)
(***************************************************************************)
LEMMA MaximizedDigits ==
  ASSUME NEW x \in Coef, x # 0, NEW y \in Exp, NEW m, m = Maximize(x, y)
  PROVE  /\ m.full <=> IsFull(m.c)
         /\ m.e \in Int /\ m.e <= y /\ y - D <= m.e
         /\ m.c < 0 <=> x < 0
         /\ y - (D + 1) >= ExpMin => 10 * Abs(m.c) > CoefMax /\ m.full
<1>1. PICK k \in 0..D : k = DigitsToGain(x, y) /\ CanGain(x, y, k) /\ ~CanGain(x, y, k + 1)
  BY GainExists
<1>2. /\ x \in Int /\ y \in Int /\ y >= ExpMin /\ D \in Nat /\ ExpMin \in Int /\ k \in Int
      /\ CoefMax \in Nat /\ Pow10[D - 1] \in Nat /\ 10 * Pow10[D - 1] <= CoefMax
      /\ k \in 0..(D + 1) /\ k + 1 \in 0..(D + 1)
  BY PowersOfCoef, CoefIsInt, Widths DEF Exp, ExpMin
<1>3. m.c = x * Pow10[k] /\ m.e = y - k
  BY <1>1 DEF Maximize
<1>4. m.full <=> IsFull(m.c)
  <2>1. m.full = IsFull(x * Pow10[k])
    BY <1>1 DEF Maximize
  <2>2. m.full = IsFull(m.c)
    BY <1>3, <2>1, Zenon
  <2> QED BY <2>2, Zenon DEF IsFull
<1>5. m.c < 0 <=> x < 0
  BY <1>2, <1>3, ScalingKeepsSign
<1>6. ASSUME y - (D + 1) >= ExpMin PROVE 10 * Abs(m.c) > CoefMax /\ m.full
  <2>1. y - (k + 1) >= ExpMin
    BY <1>2, <1>6
  <2>2. x * Pow10[k + 1] \notin Coef
    BY <1>1, <2>1 DEF CanGain
  <2>3. Pow10[k + 1] = Pow10[k] * 10 /\ Pow10[k] \in Nat
    BY <1>2, NextPower
  <2>4. m.c \in Int /\ x * Pow10[k + 1] = m.c * 10
    BY <1>2, <1>3, <2>3
  <2>5. m.c * 10 > CoefMax \/ m.c * 10 < -CoefMax - 1
    BY <1>2, <2>2, <2>4 DEF Coef, CoefMin
  <2>6. Abs(m.c) \in Nat /\ 10 * Abs(m.c) > CoefMax
    BY <1>2, <2>4, <2>5 DEF Abs
  <2>7. IsFull(m.c)
    BY <1>2, <2>4, <2>6, FullHasDigits
  <2> QED BY <1>4, <2>6, <2>7
<1> QED BY <1>2, <1>3, <1>4, <1>5, <1>6

(***************************************************************************)
(* div of numbers that are not zero, for a dividend that has all its       *)
(* digits: it truncates, and refuses only a divisor that has not.          *)
(***************************************************************************)
LEMMA DivTruncates ==
  ASSUME NEW x \in Coef, NEW y \in Coef, x # 0, y # 0, NEW ex \in Exp, NEW ey \in Exp,
         NEW A, A = Maximize(x, ex), NEW B, B = Maximize(y, ey), A.full,
         ex - ey <= ExpMax - (D + 1), NEW r, r = Div(x, ex, y, ey)
  PROVE  /\ r.status \in {"ok", "MaximizeOverflow"}
         /\ r.status = "ok" => QuotientIsCut(r, A, B)
         /\ B.full => r.status = "ok"
<1>1. /\ A.c \in Coef /\ A.e \in Exp /\ A.c # 0 /\ B.c \in Coef /\ B.e \in Exp /\ B.c # 0
  BY MaximizedNumber
<1>2. /\ Pow10[D - 1] <= Abs(A.c) /\ (B.full <=> IsFull(B.c))
      /\ B.full => Pow10[D - 1] <= Abs(B.c)
  <2>1. A.full <=> IsFull(A.c)
    BY MaximizedDigits
  <2>2. B.full <=> IsFull(B.c)
    BY MaximizedDigits
  <2>3. A.c \in Int /\ B.c \in Int
    BY <1>1, CoefIsInt
  <2> QED BY <2>1, <2>2, <2>3, FullHasDigits
<1>3. A.e - B.e <= ExpMax - 1
  <2>1. A.e \in Int /\ A.e <= ex
    BY MaximizedDigits
  <2>2. B.e \in Int /\ ey - D <= B.e
    BY MaximizedDigits
  <2> QED BY <2>1, <2>2, Widths, WidthsAreInts DEF Exp, ExpMin
<1>4. CASE Abs(B.c) < Pow10[D] /\ Abs(B.c) = 1
  <2>1. r = Fail("MaximizeOverflow")
    BY <1>4 DEF Div
  <2>2. r.status = "MaximizeOverflow"
    BY <2>1 DEF Fail
  <2>3. ~B.full
    BY <1>2, <1>4, PowersOfCoef
  <2> QED BY <2>2, <2>3
<1>5. CASE ~(Abs(B.c) < Pow10[D] /\ Abs(B.c) = 1)
  <2>1. r = DivMaximized(A, B)
    BY <1>5 DEF Div
  <2>2. PICK n : n = DivScale(B)
    OBVIOUS
  <2>3. n \in 0..D /\ Pow10[n] <= Abs(B.c) /\ Abs(B.c) <= Pow10[n + 1]
    BY <1>1, <1>2, <1>5, <2>2, ScaleFitsDivisor
  <2>4. r.status = "ok" /\ QuotientIsCut(r, A, B)
    BY <1>1, <1>2, <1>3, <2>1, <2>2, <2>3, DivMaximizedTruncates
  <2> QED BY <2>4
<1> QED BY <1>4, <1>5
(***************************************************************************)
(* Whatever its operands, div never asks mulDiv for a quotient that does   *)
(* not fit a uint256.                                                      *)
(***************************************************************************)
LEMMA DivFitsUint256 ==
  ASSUME NEW x \in Coef, NEW y \in Coef, NEW ex \in Exp, NEW ey \in Exp,
         NEW r, r = Div(x, ex, y, ey)
  PROVE  r.status # "MulDivOverflow"
<1>1. CASE y = 0
  <2>1. r = Fail("DivisionByZero")
    BY <1>1 DEF Div
  <2> QED BY <2>1 DEF Fail
<1>2. CASE y # 0 /\ x = 0
  <2>1. r = MaximizedZero
    BY <1>2 DEF Div
  <2> QED BY <2>1 DEF MaximizedZero, Num
<1>3. CASE y # 0 /\ x # 0
  <2>1. PICK A, B : A = Maximize(x, ex) /\ B = Maximize(y, ey)
    OBVIOUS
  <2>2. CASE Abs(B.c) < Pow10[D] /\ (Abs(B.c) = 1 \/ ~A.full)
    <3>1. r = Fail("MaximizeOverflow")
      BY <1>3, <2>1, <2>2 DEF Div
    <3> QED BY <3>1 DEF Fail
  <2>3. CASE ~(Abs(B.c) < Pow10[D] /\ (Abs(B.c) = 1 \/ ~A.full))
    <3>1. r = DivMaximized(A, B)
      BY <1>3, <2>1, <2>3 DEF Div
    <3>2. /\ A.c \in Coef /\ A.e \in Exp /\ A.c # 0 /\ B.c \in Coef /\ B.e \in Exp /\ B.c # 0
      BY <1>3, <2>1, MaximizedNumber
    <3>3. B.full <=> IsFull(B.c)
      BY <1>3, <2>1, MaximizedDigits
    <3>4. PICK n : n = DivScale(B)
      OBVIOUS
    <3>5. n \in 0..D /\ Pow10[n] <= Abs(B.c) /\ Abs(B.c) <= Pow10[n + 1]
      BY <2>3, <3>2, <3>3, <3>4, ScaleFitsDivisor
    <3>6. PICK h : h = DivExponents(A.e, B.e, n)
      OBVIOUS
    <3>7. h.gone \in BOOLEAN /\ (~h.gone => h.a \in Exp /\ h.b \in Exp)
      BY <3>2, <3>5, <3>6, ScaleIsShared
    <3>8. CASE h.gone
      <4>1. r = MaximizedZero
        BY <3>1, <3>4, <3>6, <3>8 DEF DivMaximized
      <4> QED BY <4>1 DEF MaximizedZero, Num
    <3>9. CASE ~h.gone
      <4>1. PICK u \in Nat :
              u = IF h.a < 0 /\ h.b > h.a - ExpMin THEN h.b - (h.a - ExpMin) ELSE 0
        BY <3>7, <3>9, Widths DEF Exp, ExpMin
      <4>2. PICK q : q = MulDivLossy(A.c, B.c, Abs(A.c), Pow10[n], Abs(B.c), WrapExp(h.a + u - h.b))
        OBVIOUS
      <4>3. q.status \in {"ok", "Panic"}
        <5>1. PICK p : p = Abs(A.c) * Pow10[n]
          OBVIOUS
        <5>2. ~(High(p) >= Abs(B.c))
          BY <3>2, <3>5, <5>1, ScaledQuotientFits
        <5>3. q = UnabsLossy(A.c, B.c, p \div Abs(B.c), WrapExp(h.a + u - h.b))
          BY <4>2, <5>1, <5>2 DEF MulDivLossy
        <5> QED BY <5>3 DEF UnabsLossy, Checked, Num, Fail
      <4>4. r = q \/ r = MaximizedZero \/ r = Num(Quot(q.c, Pow10[u]), q.e)
        <5>1. CASE u = 0 \/ q.status # "ok"
          BY <3>1, <3>4, <3>6, <3>9, <4>1, <4>2, <5>1 DEF DivMaximized
        <5>2. CASE u # 0 /\ q.status = "ok" /\ u > D
          BY <3>1, <3>4, <3>6, <3>9, <4>1, <4>2, <5>2, WidthsAreInts DEF DivMaximized
        <5>3. CASE u # 0 /\ q.status = "ok" /\ u \in 1..D
          BY <3>1, <3>4, <3>6, <3>9, <4>1, <4>2, <5>3, WidthsAreInts DEF DivMaximized
        <5> QED BY <4>1, <5>1, <5>2, <5>3, WidthsAreInts
      <4> QED BY <4>3, <4>4 DEF MaximizedZero, Num
    <3> QED BY <3>7, <3>8, <3>9
  <2> QED BY <2>2, <2>3
<1> QED BY <1>1, <1>2, <1>3
=============================================================================
