------------------------------- MODULE Paxos --------------------------------
(***************************************************************************)
(* Proposers and acceptors together: every node has one of each, and the   *)
(* handlers of one are driven by the messages of the other.  A message in  *)
(* msgs may be handled at any time, any number of times, or never.         *)
(*                                                                         *)
(* Whether the owner of the roles is Careful is a parameter, as in         *)
(* ProposerEnv: whether it has requests repeated, and accept requests      *)
(* sent, only for an identifier that it has prepared.  All nodes know each *)
(* other from the start, so the choice of acceptors does not change.       *)
(***************************************************************************)
EXTENDS Acceptor, Proposer

CONSTANTS Proposers,   \* the nodes that propose
          MaxNumber,   \* bound of the model: p starts no round beyond the
                       \* number MaxNumber[p]
          Careful

ASSUME PaxosAssumption ==
  /\ Proposers \subseteq Node
  /\ MaxNumber \in [Proposers -> Nat]
  /\ Careful \in BOOLEAN

VARIABLE prepared      \* prepared[p]: the identifier p last asked to prepare

vars == <<acceptorVars, proposerVars, msgs, prepared>>

StartRound(p) ==
  /\ m_proposalID[p].number < MaxNumber[p]
  /\ prepareNext(p)
  /\ prepared' = [prepared EXCEPT ![p] = m_proposalID'[p]]
  /\ UNCHANGED acceptorVars

\* The owner may let p send a request for its present identifier.
MaySend(p) == Careful => m_proposalID[p] = prepared[p]

\* The owner repeats a request only after it has made one.
RepeatRequest(p) ==
  /\ prepared[p] # NullID
  /\ MaySend(p)
  /\ prepareAgain(p)
  /\ prepared' = [prepared EXCEPT ![p] = m_proposalID[p]]
  /\ UNCHANGED acceptorVars

\* A value given to a proposer that is no leader is only remembered.
Propose(p) ==
  /\ \/ \E value \in Value : (m_leader[p] => MaySend(p)) /\ setProposal(p, value)
     \/ MaySend(p) /\ resendAccept(p)
  /\ UNCHANGED <<acceptorVars, prepared>>

DeliverPrepare(a) ==
  /\ \E m \in Sent("prepare") : a \in m.acceptors /\ receivePrepare(a, m.from, m.id)
  /\ UNCHANGED <<proposerVars, prepared>>

DeliverAccept(a) ==
  /\ \E m \in Sent("accept") :
       a \in m.acceptors /\ receiveAcceptRequest(a, m.from, m.id, m.value)
  /\ UNCHANGED <<proposerVars, prepared>>

PersistAndAnswer(a) == Persist(a) /\ UNCHANGED <<proposerVars, prepared>>

DeliverPromise(p) ==
  /\ \E m \in Sent("promise") :
       m.to = p /\ receivePromise(p, m.from, m.id, m.acceptID, m.acceptValue)
  /\ UNCHANGED <<acceptorVars, prepared>>

DeliverNACK(p) ==
  /\ \/ \E m \in Sent("prepareNACK") : m.to = p /\ receivePrepareNACK(p, m.promisedID)
     \/ \E m \in Sent("acceptNACK") : m.to = p /\ receiveAcceptNACK(p, m.promisedID)
  /\ UNCHANGED <<acceptorVars, prepared>>

Init ==
  /\ AcceptorInit
  /\ ProposerInit([p \in Node |-> Node \ {p}])
  /\ msgs = {}
  /\ prepared = [p \in Node |-> NullID]

ProposerStep(p) == StartRound(p) \/ RepeatRequest(p) \/ Propose(p)
                     \/ DeliverPromise(p) \/ DeliverNACK(p)

AcceptorStep(a) == DeliverPrepare(a) \/ DeliverAccept(a) \/ PersistAndAnswer(a)

Next == \/ \E p \in Proposers : ProposerStep(p)
        \/ \E a \in Node : AcceptorStep(a)

Spec == Init /\ [][Next]_vars

-----------------------------------------------------------------------------
TypeOK ==
  /\ AcceptorTypeOK
  /\ ProposerTypeOK
  /\ msgs \subseteq Message
  /\ prepared \in [Node -> ProposalIDs]

\* The acceptors whose permit of the proposal (id, value) has been sent.
Approvers(id, value) ==
  {m.from : m \in {v \in Sent("permit") : v.id = id /\ v.value = value}}

\* The values that a quorum of acceptors has approved in one proposal.
chosen ==
  {value \in Value : \E v \in Sent("permit") :
     Cardinality(Approvers(v.id, value)) >= QuorumSize}

(***************************************************************************)
(* The protocol implements Consensus.                                      *)
(***************************************************************************)
C == INSTANCE Consensus

ImplementsConsensus == C!Spec
=============================================================================
