------------------------------ MODULE Learner -------------------------------
(***************************************************************************)
(* The Learner class (paxos/learner.h, paxos/learner.cpp), one instance    *)
(* per node.  m_proposals maps the identifiers for which approvals are     *)
(* counted to their two counts; the value kept beside them is never read   *)
(* and is left out.  m_acceptors maps an acceptor to the identifier it     *)
(* last approved, NullID standing for an acceptor that is not in the map.  *)
(***************************************************************************)
EXTENDS Messenger

CONSTANT Garbage    \* what an uninitialised int may read as

ASSUME LearnerAssumption == Garbage \subseteq Int /\ Garbage # {}

VARIABLES m_proposals, m_acceptors, m_finalValue, m_finalProposalID

learnerVars == <<m_proposals, m_acceptors, m_finalValue, m_finalProposalID>>

Proposal == [acceptCount : Int, retentionCount : Int]

\* A table of counts is a partial function on identifiers.
IsTable(t) == DOMAIN t \subseteq ValidIDs /\ t \in [DOMAIN t -> Proposal]

EmptyTable == [id \in {} |-> [acceptCount |-> 0, retentionCount |-> 0]]

LearnerInit ==
  /\ m_proposals = [l \in Node |-> EmptyTable]
  /\ m_acceptors = [l \in Node |-> [a \in Node |-> NullID]]
  /\ m_finalValue = [l \in Node |-> NoValue]
  /\ m_finalProposalID = [l \in Node |-> NullID]

-----------------------------------------------------------------------------
isComplete(l) == m_finalValue[l] # NoValue

Known(l, a) == isValid(m_acceptors[l][a])

\* Mutant of Discards: an approval that arrives twice is counted twice.
DiscardsOlder(l, from, id) ==
  \/ isComplete(l)
  \/ ~isValid(id)
  \/ Known(l, from) /\ Gt(m_acceptors[l][from], id)

\* Mutant of Discards: a complete learner goes on.
DiscardsIncomplete(l, from, id) ==
  \/ ~isValid(id)
  \/ Known(l, from) /\ Geq(m_acceptors[l][from], id)

\* An approval that is not newer than the acceptor's last one is dropped.
Discards(l, from, id) ==
  \/ isComplete(l)
  \/ ~isValid(id)
  \/ Known(l, from) /\ Geq(m_acceptors[l][from], id)

Put(table, id, counts) ==
  [i \in DOMAIN table \cup {id} |-> IF i = id THEN counts ELSE table[i]]

Erase(table, id) == [i \in DOMAIN table \ {id} |-> table[i]]

\* The default constructor leaves both counts uninitialised.
DefaultProposals == [acceptCount : Garbage, retentionCount : Garbage]

(***************************************************************************)
(* The table after one approval less is retained for what m_acceptors says *)
(* the acceptor last approved.  The iterator to that entry was taken       *)
(* before the entry was assigned, and so it already holds the new          *)
(* identifier: it is the count of the new identifier that goes down, and   *)
(* m_proposals[...] creates the entry when there is none.                  *)
(***************************************************************************)
LessRetained(table, id) ==
  {IF old.retentionCount = 1 THEN Erase(table, id)
   ELSE Put(table, id, [old EXCEPT !.retentionCount = @ - 1])
     : old \in IF id \in DOMAIN table THEN {table[id]} ELSE DefaultProposals}

\* The tables in which the new approval is to be counted.
BeforeCounting(l, from, id) ==
  IF Known(l, from) THEN LessRetained(m_proposals[l], id) ELSE {m_proposals[l]}

\* The first approval enters an identifier with zero counts.
Counted(table, id) ==
  IF id \notin DOMAIN table
  THEN Put(table, id, [acceptCount |-> 0, retentionCount |-> 0])
  ELSE Put(table, id, [acceptCount |-> table[id].acceptCount + 1,
                       retentionCount |-> table[id].retentionCount + 1])

\* Mutant of Resolves: one approval too many.
ResolvesLate(table, id) ==
  id \in DOMAIN table /\ table[id].acceptCount + 1 > QuorumSize

Resolves(table, id) ==
  id \in DOMAIN table /\ table[id].acceptCount + 1 >= QuorumSize

Discard(l, from, id) ==
  /\ Discards(l, from, id)
  /\ UNCHANGED learnerVars

Count(l, from, id, value) ==
  /\ ~Discards(l, from, id)
  /\ \E table \in BeforeCounting(l, from, id) :
       LET done == Resolves(table, id) IN
       /\ m_proposals' = [m_proposals EXCEPT ![l] =
                            IF done THEN EmptyTable ELSE Counted(table, id)]
       /\ m_acceptors' = [m_acceptors EXCEPT ![l] =
                            IF done THEN [a \in Node |-> NullID]
                            ELSE [@ EXCEPT ![from] = id]]
       /\ m_finalValue' = IF done THEN [m_finalValue EXCEPT ![l] = value]
                                  ELSE m_finalValue
       /\ m_finalProposalID' = IF done THEN [m_finalProposalID EXCEPT ![l] = id]
                                       ELSE m_finalProposalID

receiveAccepted(l, from, id, value) ==
  \/ Discard(l, from, id)
  \/ Count(l, from, id, value)
=============================================================================
