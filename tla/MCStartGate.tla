---------------------------- MODULE MCStartGate -----------------------------
(* A synchronised pair and a single request share the pacer, with a request     *)
(* timeout and without; or the pair primes beside the request and is not paced. *)
EXTENDS StartGate
CONSTANTS g1, g2, a, b, c
MCMembers == (g1 :> <<a, b>>) @@ (g2 :> <<c>>)

MCPlans ==
  {[charged |-> {g1, g2}, limited |-> TRUE],
   [charged |-> {g1, g2}, limited |-> FALSE],
   [charged |-> {g2}, limited |-> FALSE]}

=============================================================================
