--------------------------- MODULE TwoDigitTables ---------------------------
(***************************************************************************)
(* Logarithm tables of two digits.  The log table's last entry is the      *)
(* logarithm of ten, as in the code; the antilog table falls once by one,  *)
(* as the real one does in four places.                                    *)
(***************************************************************************)
EXTENDS Integers

LogValues == <<
  0, 4, 7, 11, 14, 17, 20, 23, 25, 27, 30, 32, 34, 36, 38, 39, 41, 43, 44,
  46, 47, 49, 50, 51, 53, 54, 55, 56, 57, 59, 60, 61, 62, 63, 64, 65, 66,
  67, 68, 69, 69, 70, 71, 72, 73, 74, 74, 75, 76, 77, 77, 78, 79, 79, 80,
  81, 81, 82, 83, 83, 84, 85, 85, 86, 86, 87, 88, 88, 89, 89, 90, 90, 91,
  91, 92, 92, 93, 93, 94, 94, 95, 95, 96, 96, 97, 97, 98, 98, 99, 100 >>

AntilogValues == <<
  10, 10, 10, 11, 11, 11, 11, 12, 12, 12, 13, 13, 13, 13, 14, 14, 15, 14,
  15, 15, 16, 16, 17, 17, 17, 18, 18, 19, 19, 19, 20, 20, 21, 21, 22, 22,
  23, 23, 24, 25, 25, 26, 26, 27, 28, 28, 29, 30, 30, 31, 32, 32, 33, 34,
  35, 35, 36, 37, 38, 39, 40, 41, 42, 43, 44, 45, 46, 47, 48, 49, 50, 51,
  52, 54, 55, 56, 58, 59, 60, 62, 63, 65, 66, 68, 69, 71, 72, 74, 76, 78,
  79, 81, 83, 85, 87, 89, 91, 93, 95, 98 >>

TwoDigitLogOf     == [i \in 0..89 |-> LogValues[i + 1]]
TwoDigitAntilogOf == [i \in 0..99 |-> AntilogValues[i + 1]]
=============================================================================
