---------------------------- MODULE DecimalFloat ----------------------------
(***************************************************************************)
(* The DecimalFloat contract, without the functions that need the log      *)
(* tables.  A call is atomic and keeps no state: any 32 bytes are a float, *)
(* so every pair of inputs can occur in every call.                        *)
(***************************************************************************)
EXTENDS DecimalCalls

VARIABLES
  call,  \* the last call: its function and arguments
  out    \* what it returned, or the error it reverted with

vars == <<call, out>>

Idle == <<"none">>
Init == call = Idle /\ out = Fail("none")

Answer(c) == call' = c /\ out' = Result(c)

CallConstant     == call = Idle /\ \E c \in ConstantCalls : Answer(c)
CallUnary        == call = Idle /\ \E c \in UnaryCalls : Answer(c)
CallBinary       == call = Idle /\ \E c \in BinaryCalls : Answer(c)
CallToFixed      == call = Idle /\ \E c \in ToFixedCalls : Answer(c)
CallFromFixed    == call = Idle /\ \E c \in FromFixedCalls : Answer(c)
CallParse        == call = Idle /\ \E c \in ParseCalls : Answer(c)
CallFormat       == call = Idle /\ \E c \in FormatCalls : Answer(c)
CallFormatWithin == call = Idle /\ \E c \in FormatWithinCalls : Answer(c)
CallFormatAs     == call = Idle /\ \E c \in FormatAsCalls : Answer(c)

(***************************************************************************)
(* The caller takes the result; the contract itself has kept nothing.      *)
(***************************************************************************)
TakeResult == call # Idle /\ call' = Idle /\ out' = Fail("none")

Next == \/ CallConstant \/ CallUnary \/ CallBinary \/ CallToFixed \/ CallFromFixed
        \/ CallParse \/ CallFormat \/ CallFormatWithin \/ CallFormatAs
        \/ TakeResult

Spec == Init /\ [][Next]_vars
=============================================================================
