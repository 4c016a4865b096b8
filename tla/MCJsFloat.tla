----------------------------- MODULE MCJsFloat -----------------------------
(***************************************************************************)
(* A native thread beside a realm.  A float is four digits of radix 4, two *)
(* bytes of two digits: five bits of coefficient, three of exponent.       *)
(***************************************************************************)
EXTENDS JsFloat, TLC

CONSTANTS worker, browser

MCPow10 == [n \in 0..(D + 1) |-> ten[n]]
MCDigitSteps == <<2, 1, 1, 1>>

MCFloats == {[c |-> 0, e |-> 0], [c |-> 15, e |-> 3], [c |-> 1, e |-> -1], [c |-> 10, e |-> -2],
             [c |-> PackMin, e |-> -1]}
MCDecimals == {0, 2}
MCLongText == Number(FALSE, Digits(1, 4), NoDigits, NoDigits)
MCTexts == {Number(TRUE, Digits(1, 1), Digits(5, 1), NoDigits), Number(FALSE, Digits(99, 2), NoDigits, NoDigits),
            Number(FALSE, Digits(1, 1), NoDigits, Digits(5, 1)), Number(FALSE, NoDigits, NoDigits, NoDigits),
            MCLongText}
MCTooLong == {MCLongText}
MCLimits == [min : {[c |-> 1, e |-> -1]}, max : {[c |-> 1, e |-> 1], [c |-> 1, e |-> -1]}]
MCDefaultLimits == [min |-> [c |-> 1, e |-> -2], max |-> [c |-> 1, e |-> 2]]
MCCalls == (Unary \ {"ceil"}) \cup Binary \cup ToFixed \cup FromFixed \cup Text \cup Constants

MCMethods == (worker :> {"integer"}) @@ (browser :> DOMAIN Api)

(***************************************************************************)
(* Every word a bigint can be, and some that are too small or too large.   *)
(***************************************************************************)
MCBigints == {-65, -1} \cup 0..3 \cup {15, 16, 63, 64, 150, 170, 255, 256, 1023, 1024, UintMax, UintMax + 1}
MCValues == {n \in MCBigints : n \in 0..UintMax}
MCHexes == {HexOf(prefix, digits) : prefix \in BOOLEAN,
              digits \in {<<0, 0, 0, 1>>, <<3, 2, 1, 0>>, <<1, 2, 3>>, <<0, 0, 0, 0, 1>>, <<0, 0, 4, 0>>}}

-----------------------------------------------------------------------------

(***************************************************************************)
(* "Err(FloatError) - If the conversion fails." (try_from_bigint,          *)
(* js_api.rs): a page that passes a bigint gets a float or an error it can *)
(* handle.  A bigint of more bytes than a float has makes left_padding_from *)
(* panic instead, and the realm traps.                                     *)
(***************************************************************************)
ConversionFailsWithAnError == \A t \in Realms :
  shown[t] # NoResult /\ page[t][1] = "try_from_bigint" => shown[t].result \in {"ok", "err"}
=============================================================================
