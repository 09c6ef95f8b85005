------------------------------ MODULE Allowance ------------------------------
(***************************************************************************)
(* What the rate limiter promises: every client has an allowance that      *)
(* fills steadily up to a ceiling, an attempt costs a part of it, and      *)
(* nothing but time fills it for as long as the server runs.  Clients are  *)
(* never forgotten here.                                                   *)
(***************************************************************************)
EXTENDS Naturals

CONSTANTS
  Clients,
  Burst,   \* the ceiling
  Cost     \* of one attempt, in units of what one tick gives back

VARIABLES
  level,   \* what each client has left
  up       \* the server is running

vars == <<level, up>>

Full == [c \in Clients |-> Burst]
Init == level = Full /\ up = TRUE

Attempt(c) ==
  /\ up
  /\ level[c] >= Cost
  /\ level' = [level EXCEPT ![c] = @ - Cost]
  /\ UNCHANGED up

Pass ==
  /\ level' = [c \in Clients |-> IF level[c] < Burst THEN level[c] + 1 ELSE Burst]
  /\ UNCHANGED up

Stop  == up /\ up' = FALSE /\ level' = Full
Start == ~up /\ up' = TRUE /\ UNCHANGED level

Next == (\E c \in Clients : Attempt(c)) \/ Pass \/ Stop \/ Start

Spec == Init /\ [][Next]_vars
=============================================================================
