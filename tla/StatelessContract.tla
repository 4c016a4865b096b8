------------------------- MODULE StatelessContract -------------------------
(***************************************************************************)
(* What a caller of a contract without state observes: one call after the  *)
(* other, each with the answer that the contract's code gives to it alone. *)
(***************************************************************************)
CONSTANTS
  Asks,    \* the calls
  Answers  \* the code: what it answers to each of them

VARIABLES call, out

vars == <<call, out>>

Idle     == <<"none">>
NoOutput == [status |-> "none", c |-> 0, e |-> 0]

Init == call = Idle /\ out = NoOutput

Answer == /\ call = Idle
          /\ \E ask \in Asks : call' = ask /\ out' = Answers[ask]

Take == call # Idle /\ call' = Idle /\ out' = NoOutput

Next == Answer \/ Take

Spec == Init /\ [][Next]_vars
=============================================================================
