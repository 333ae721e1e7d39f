----------------------------- MODULE LearnerEnv -----------------------------
(***************************************************************************)
(* Learners that are handed permits in any order and any number of times.  *)
(* msgs holds the permits handed so far.  As in the protocol, an           *)
(* identifier stands for one value.  guessed is a history variable: no     *)
(* action depends on it.                                                   *)
(***************************************************************************)
EXTENDS Learner

CONSTANTS Learners,    \* the nodes whose learner is observed
          Approved,    \* the identifiers that acceptors approve
          Revotes,     \* an acceptor may approve a second identifier
          InOrder      \* an acceptor's permits arrive in the order it
                       \* approves in, which is that of the identifiers

ASSUME EnvAssumption ==
  /\ Learners \subseteq Node
  /\ Approved \subseteq ValidIDs
  /\ Revotes \in BOOLEAN /\ InOrder \in BOOLEAN

VARIABLE guessed       \* guessed[l]: the identifiers whose counts at l once
                       \* began with what uninitialised members read as

vars == <<learnerVars, msgs, guessed>>

\* The permits of acceptor a that l has been handed.
Handed(l, a) == {m \in msgs : m.from = a /\ m.to = l}

\* The permit of an acceptor that has voted before creates an entry: the counts
\* of this entry are not initialised.
Guesses(l, a, id) ==
  ~Discards(l, a, id) /\ Known(l, a) /\ id \notin DOMAIN m_proposals[l]

NotesGuess(l, a, id) ==
  guessed' = IF Guesses(l, a, id) THEN [guessed EXCEPT ![l] = @ \cup {id}]
                                  ELSE guessed

PermitArrives(l, a, id, value) ==
  /\ \A m \in msgs : m.id = id => m.value = value
  /\ \A m \in Handed(l, a) : /\ Revotes \/ m.id = id
                             /\ InOrder => Geq(id, m.id)
  /\ Send({Permit(a, l, id, value)})
  /\ NotesGuess(l, a, id)
  /\ receiveAccepted(l, a, id, value)

Init == LearnerInit /\ msgs = {} /\ guessed = [l \in Node |-> {}]

Next == \E l \in Learners, a \in Node, id \in Approved, value \in Value :
          PermitArrives(l, a, id, value)

Spec == Init /\ [][Next]_vars

-----------------------------------------------------------------------------
(***************************************************************************)
(* Type correctness; and a learner that is complete has let go of all it   *)
(* counted, and stays so whatever arrives later.                           *)
(***************************************************************************)
TypeOK ==
  /\ m_proposals = [l \in Node |-> m_proposals[l]]
  /\ \A l \in Node : IsTable(m_proposals[l])
  /\ m_acceptors \in [Node -> [Node -> ProposalIDs]]
  /\ m_finalValue \in [Node -> Value \cup {NoValue}]
  /\ m_finalProposalID \in [Node -> ProposalIDs]
  /\ msgs \subseteq Message
  /\ guessed \in [Node -> SUBSET ValidIDs]
  /\ \A l \in Node : isComplete(l) => /\ m_proposals[l] = EmptyTable
                                      /\ \A a \in Node : ~Known(l, a)

Approvers(l, id) == {m.from : m \in {p \in msgs : p.to = l /\ p.id = id}}

(***************************************************************************)
(* A value is learned only after a quorum of acceptors has approved it     *)
(* (comment in Learner::receiveAccepted: "the number of approvals meets    *)
(* the condition of a majority").  The code does not ensure it: see        *)
(* GuessedOrHasQuorum.                                                     *)
(***************************************************************************)
LearnedHasQuorum ==
  \A l \in Learners :
    isComplete(l) => Cardinality(Approvers(l, m_finalProposalID[l])) >= QuorumSize

(***************************************************************************)
(* The value learned is the one approved under the final identifier, and a *)
(* quorum of acceptors has approved it, unless the counts of that          *)
(* identifier began uninitialised: whatever arrives twice, late or out of  *)
(* order, however often acceptors change their vote, and whatever counts   *)
(* of other identifiers read as.                                           *)
(***************************************************************************)
GuessedOrHasQuorum ==
  \A l \in Learners :
    isComplete(l) =>
      /\ \/ m_finalProposalID[l] \in guessed[l]
         \/ Cardinality(Approvers(l, m_finalProposalID[l])) >= QuorumSize
      /\ \E m \in msgs : /\ m.to = l /\ m.id = m_finalProposalID[l]
                         /\ m.value = m_finalValue[l]

\* No acceptor has approved a second identifier before l.
Steady(l) == \A m, n \in msgs : m.to = l /\ n.to = l /\ m.from = n.from => m.id = n.id

(***************************************************************************)
(* When a learner learns, of acceptors that do not change their vote:      *)
(* exactly when one more than a quorum has approved one identifier.  That  *)
(* is one approval later than the code says it does (learner.h: the count  *)
(* goes up "for every" approval; learner.cpp: once it "meets the condition *)
(* of a majority"), because the first approval enters a count of zero.     *)
(***************************************************************************)
LearnsOneLate ==
  \A l \in Learners :
    Steady(l) => (isComplete(l) <=> \E id \in Approved :
                                     Cardinality(Approvers(l, id)) > QuorumSize)
=============================================================================
