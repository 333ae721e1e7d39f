----------------------------- MODULE Consensus ------------------------------
(***************************************************************************)
(* What the roles of the protocol promise together, to whoever reads the   *)
(* decision: at most one value is ever chosen, it is one that can be       *)
(* proposed, and a choice is never taken back.                             *)
(***************************************************************************)
CONSTANT Value

VARIABLE chosen

Init == chosen = {}

Choose == /\ chosen = {}
          /\ \E value \in Value : chosen' = {value}

Spec == Init /\ [][Choose]_chosen
=============================================================================
