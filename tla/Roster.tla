------------------------------- MODULE Roster -------------------------------
(***************************************************************************)
(* What Server promises about m_peers to those who choose acceptors or     *)
(* addresses from it: a node is never its own peer, and what a process has *)
(* learned it keeps, addresses included, until it dies.  Complete is where *)
(* the nodes are to get.  known[n] maps the UIDs n knows to addresses.     *)
(***************************************************************************)
CONSTANTS Node, Addr

VARIABLE known

Nobody == [p \in {} |-> p]

Init == known = [n \in Node |-> Nobody]

\* What n knows afterwards extends what it knew.
Learn(n) ==
  LET now == known'[n] IN
  /\ known' = [known EXCEPT ![n] = now]
  /\ DOMAIN now \subseteq Node \ {n}
  /\ now \in [DOMAIN now -> Addr]
  /\ \A p \in DOMAIN known[n] : p \in DOMAIN now /\ now[p] = known[n][p]

Forget(n) == known' = [known EXCEPT ![n] = Nobody]

Next == \E n \in Node : Learn(n) \/ Forget(n)

Spec == Init /\ [][Next]_known

Complete == \A n \in Node : DOMAIN known[n] = Node \ {n}
=============================================================================
