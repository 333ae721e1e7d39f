------------------------------ MODULE Proposer ------------------------------
(***************************************************************************)
(* The Proposer class (paxos/proposer.h, paxos/proposer.cpp), one instance *)
(* per node, with the part of Server that carries its requests: the choice *)
(* of the acceptors they go to.  Variables carry the names of the fields;  *)
(* m_active is proposerActive.                                             *)
(***************************************************************************)
EXTENDS Messenger

CONSTANT LeaderAtStart    \* the values that m_leader, which the constructor
                          \* does not set, may start with

ASSUME ProposerAssumption ==
  LeaderAtStart \subseteq BOOLEAN /\ LeaderAtStart # {}

VARIABLES m_proposalID, m_proposedValue, m_lastAcceptedID, m_promisesReceived,
          m_leader, proposerActive,
          m_peers,             \* Server: the UIDs of the known peers
          m_majorityAcceptors  \* Server: where this node's requests go

proposerVars == <<m_proposalID, m_proposedValue, m_lastAcceptedID,
                  m_promisesReceived, m_leader, proposerActive, m_peers,
                  m_majorityAcceptors>>

ProposerTypeOK ==
  /\ m_proposalID \in [Node -> ValidIDs]
  /\ m_proposedValue \in [Node -> Value \cup {NoValue}]
  /\ m_lastAcceptedID \in [Node -> ProposalIDs]
  /\ m_promisesReceived \in [Node -> SUBSET Node]
  /\ m_leader \in [Node -> BOOLEAN]
  /\ proposerActive \in [Node -> BOOLEAN]
  /\ m_peers \in [Node -> SUBSET Node]
  /\ m_majorityAcceptors \in [Node -> SUBSET Node]

ProposerInit(peers) ==
  /\ m_proposalID = [p \in Node |-> [number |-> 0, uid |-> p]]
  /\ m_proposedValue = [p \in Node |-> NoValue]
  /\ m_lastAcceptedID = [p \in Node |-> NullID]
  /\ m_promisesReceived = [p \in Node |-> {}]
  /\ m_leader \in [Node -> LeaderAtStart]
  /\ proposerActive \in [Node -> ActiveAtStart]
  /\ m_peers = peers
  /\ m_majorityAcceptors = [p \in Node |-> {}]

-----------------------------------------------------------------------------
(***************************************************************************)
(* Server.  The requests of a node go to the quorumSize known peers with   *)
(* the least UIDs: the cursor m_maxChoosenAcceptorUID, from which the      *)
(* selection starts, is never moved from "".  Too few peers leave the      *)
(* previous selection.  A node is not its own peer.                        *)
(***************************************************************************)
Least(S) == {s \in S : Cardinality({t \in S : t < s}) < QuorumSize}

SelectMajorityAcceptors(p) ==
  IF Cardinality(m_peers[p]) < QuorumSize THEN m_majorityAcceptors[p]
                                          ELSE Least(m_peers[p])

\* Nobody is sent a prepare request when there is nobody to choose.
sendPrepare(p, id) ==
  LET acceptors == SelectMajorityAcceptors(p) IN
  /\ m_majorityAcceptors' = [m_majorityAcceptors EXCEPT ![p] = acceptors]
  /\ Send(IF acceptors = {} THEN {} ELSE {Prepare(p, acceptors, id)})

\* An accept request goes where the last prepare request went.
AcceptMessages(p, id, value) ==
  IF m_majorityAcceptors[p] = {} THEN {}
  ELSE {Accept(p, m_majorityAcceptors[p], id, value)}

\* Every q in peers is added to those p knows; p does not add itself.
AddPeerInfo(p, peers) == m_peers[p] \cup (peers \ {p})

\* A ping makes its sender known, and the peers of the sender.
HandlePingMessage(p, sender, peers) ==
  /\ m_peers' = [m_peers EXCEPT ![p] = AddPeerInfo(p, {sender} \cup peers)]
  /\ UNCHANGED <<m_proposalID, m_proposedValue, m_lastAcceptedID, m_leader,
                 m_promisesReceived, proposerActive, m_majorityAcceptors, msgs>>

-----------------------------------------------------------------------------
\* Mutant of beginRound: the promises of the last round are kept.
beginRoundKeeping(p, id) ==
  /\ m_leader' = [m_leader EXCEPT ![p] = FALSE]
  /\ proposerActive' = [proposerActive EXCEPT ![p] = TRUE]
  /\ m_proposalID' = [m_proposalID EXCEPT ![p] = id]
  /\ sendPrepare(p, id)
  /\ UNCHANGED <<m_promisesReceived, m_proposedValue, m_lastAcceptedID, m_peers>>

beginRound(p, id) ==
  /\ m_leader' = [m_leader EXCEPT ![p] = FALSE]
  /\ proposerActive' = [proposerActive EXCEPT ![p] = TRUE]
  /\ m_promisesReceived' = [m_promisesReceived EXCEPT ![p] = {}]
  /\ m_proposalID' = [m_proposalID EXCEPT ![p] = id]
  /\ sendPrepare(p, id)
  /\ UNCHANGED <<m_proposedValue, m_lastAcceptedID, m_peers>>

\* prepare(true): a new round.
prepareNext(p) == beginRound(p, incrementNumber(m_proposalID[p]))

\* prepare(false): the same request once more.
prepareAgain(p) ==
  /\ proposerActive[p]
  /\ sendPrepare(p, m_proposalID[p])
  /\ UNCHANGED <<m_proposalID, m_proposedValue, m_lastAcceptedID,
                 m_promisesReceived, m_leader, proposerActive, m_peers>>

setProposal(p, value) ==
  /\ m_proposedValue[p] = NoValue
  /\ m_proposedValue' = [m_proposedValue EXCEPT ![p] = value]
  /\ Send(IF m_leader[p] /\ proposerActive[p]
          THEN AcceptMessages(p, m_proposalID[p], value) ELSE {})
  /\ UNCHANGED <<m_proposalID, m_lastAcceptedID, m_promisesReceived, m_leader,
                 proposerActive, m_peers, m_majorityAcceptors>>

resendAccept(p) ==
  /\ m_leader[p] /\ proposerActive[p] /\ m_proposedValue[p] # NoValue
  /\ Send(AcceptMessages(p, m_proposalID[p], m_proposedValue[p]))
  /\ UNCHANGED proposerVars

setLeader(p, leader) ==
  /\ m_leader' = [m_leader EXCEPT ![p] = leader]
  /\ UNCHANGED <<m_proposalID, m_proposedValue, m_lastAcceptedID, m_peers,
                 m_promisesReceived, proposerActive, m_majorityAcceptors, msgs>>

setProposerActive(p, active) ==
  /\ proposerActive' = [proposerActive EXCEPT ![p] = active]
  /\ UNCHANGED <<m_proposalID, m_proposedValue, m_lastAcceptedID, m_peers,
                 m_promisesReceived, m_leader, m_majorityAcceptors, msgs>>

\* Mutant of CatchUp: the UID is taken over with the number.
CatchUpWhole(mine, id) == IF Gt(id, mine) THEN id ELSE mine

\* observeProposal: the number, and nothing else, catches up with id.
CatchUp(mine, id) == IF Gt(id, mine) THEN setNumber(mine, id.number) ELSE mine

Observed(p, id) == CatchUp(m_proposalID[p], id)

receiveNACK(p, promisedID) ==
  /\ m_proposalID' = [m_proposalID EXCEPT ![p] = Observed(p, promisedID)]
  /\ UNCHANGED <<m_proposedValue, m_lastAcceptedID, m_promisesReceived,
                 m_leader, proposerActive, m_peers, m_majorityAcceptors, msgs>>

receivePrepareNACK(p, promisedID) == receiveNACK(p, promisedID)

receiveAcceptNACK(p, promisedID) == receiveNACK(p, promisedID)

-----------------------------------------------------------------------------
(***************************************************************************)
(* receivePromise.  The identifier is observed first; a promise counts if  *)
(* it is then the proposer's own and the acceptor has not been counted.    *)
(***************************************************************************)
Counts(p, from, id) ==
  id = Observed(p, id) /\ from \notin m_promisesReceived[p]

IgnorePromise(p, from, id) ==
  /\ ~Counts(p, from, id)
  /\ m_proposalID' = [m_proposalID EXCEPT ![p] = Observed(p, id)]
  /\ UNCHANGED <<m_proposedValue, m_lastAcceptedID, m_promisesReceived,
                 m_leader, proposerActive, m_peers, m_majorityAcceptors, msgs>>

\* Mutant of IsNews: the latest report is taken for the highest.
IsAlwaysNews(p, acceptID) == TRUE

IsNews(p, acceptID) ==
  ~isValid(m_lastAcceptedID[p]) \/ Gt(acceptID, m_lastAcceptedID[p])

\* Mutant of Adopted: a proposer that has a value keeps it.
AdoptedIfNone(p, acceptID, acceptValue) ==
  IF m_proposedValue[p] = NoValue THEN acceptValue ELSE m_proposedValue[p]

\* The proposed value once the report has been taken into account.
Adopted(p, acceptID, acceptValue) ==
  IF IsNews(p, acceptID) /\ acceptValue # NoValue THEN acceptValue
                                                  ELSE m_proposedValue[p]

\* Mutant of QuorumReached: one promise too few.
QuorumReachedEarly(promises) == Cardinality(promises) + 1 >= QuorumSize

QuorumReached(promises) == Cardinality(promises) >= QuorumSize

\* Mutant of FirstAccept: no test that there is a value to propose.
FirstAcceptValueless(p, id, promises, value) ==
  IF QuorumReached(promises) /\ proposerActive[p]
  THEN AcceptMessages(p, id, value) ELSE {}

\* What a proposer sends when a promise has made it leader.
FirstAccept(p, id, promises, value) ==
  IF QuorumReached(promises) /\ value # NoValue /\ proposerActive[p]
  THEN AcceptMessages(p, id, value) ELSE {}

CountPromise(p, from, id, acceptID, acceptValue) ==
  LET promises == m_promisesReceived[p] \cup {from}
      value == Adopted(p, acceptID, acceptValue)
  IN  /\ Counts(p, from, id)
      /\ m_promisesReceived' = [m_promisesReceived EXCEPT ![p] = promises]
      /\ m_lastAcceptedID' = IF IsNews(p, acceptID)
                             THEN [m_lastAcceptedID EXCEPT ![p] = acceptID]
                             ELSE m_lastAcceptedID
      /\ m_proposedValue' = [m_proposedValue EXCEPT ![p] = value]
      /\ m_leader' = [m_leader EXCEPT ![p] = @ \/ QuorumReached(promises)]
      /\ m_proposalID' = [m_proposalID EXCEPT ![p] = id]
      /\ Send(FirstAccept(p, id, promises, value))
      /\ UNCHANGED <<proposerActive, m_peers, m_majorityAcceptors>>

receivePromise(p, from, id, acceptID, acceptValue) ==
  \/ IgnorePromise(p, from, id)
  \/ CountPromise(p, from, id, acceptID, acceptValue)

-----------------------------------------------------------------------------
(***************************************************************************)
(* The process dies and a new one starts: a new Proposer and a new Server. *)
(* Nothing of either is saved.                                             *)
(***************************************************************************)
RestartProposer(p) ==
  \E leader \in LeaderAtStart, active \in ActiveAtStart :
    /\ m_proposalID' = [m_proposalID EXCEPT ![p] = setNumber(@, 0)]
    /\ m_proposedValue' = [m_proposedValue EXCEPT ![p] = NoValue]
    /\ m_lastAcceptedID' = [m_lastAcceptedID EXCEPT ![p] = NullID]
    /\ m_promisesReceived' = [m_promisesReceived EXCEPT ![p] = {}]
    /\ m_leader' = [m_leader EXCEPT ![p] = leader]
    /\ proposerActive' = [proposerActive EXCEPT ![p] = active]
    /\ m_peers' = [m_peers EXCEPT ![p] = {}]
    /\ m_majorityAcceptors' = [m_majorityAcceptors EXCEPT ![p] = {}]
    /\ UNCHANGED msgs
=============================================================================
