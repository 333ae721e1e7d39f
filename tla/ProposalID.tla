----------------------------- MODULE ProposalID -----------------------------
(***************************************************************************)
(* Proposal identifiers (paxos/proposalid.h, paxos/proposalid.cpp).        *)
(*                                                                         *)
(* A node UID is a string of which the code uses only equality, emptiness  *)
(* and the lexicographic order.  A UID is therefore modelled by its rank   *)
(* in that order: a positive number, and 0 for the empty string.           *)
(***************************************************************************)
EXTENDS Integers

CONSTANT Node        \* the UIDs of the nodes

ASSUME NodeAssumption == Node \subseteq Nat \ {0}

NoUID == 0           \* the empty string: the least of all strings

ProposalIDs == [number : Nat, uid : Node \cup {NoUID}]

\* The identifiers that some node can own.
ValidIDs == [number : Nat, uid : Node]

\* The default constructor: number 0 and an empty UID.
NullID == [number |-> 0, uid |-> NoUID]

isValid(id) == id.uid # NoUID

\* 1, 0 or -1: numbers first, UIDs break the ties.
compare(a, b) ==
  IF \/ a.number > b.number
     \/ a.number = b.number /\ a.uid > b.uid
  THEN 1
  ELSE IF a.number = b.number /\ a.uid = b.uid THEN 0 ELSE -1

Gt(a, b) == compare(a, b) > 0

Geq(a, b) == compare(a, b) >= 0

incrementNumber(id) == [id EXCEPT !.number = @ + 1]

setNumber(id, n) == [id EXCEPT !.number = n]
=============================================================================
