----------------------------- MODULE PaxosNode ------------------------------
(***************************************************************************)
(* The PaxosNode class (paxos/paxos_node.h, paxos/paxos_node.cpp): one     *)
(* proposer and one acceptor under an election by heartbeats, and the      *)
(* timer of Server that drives it.  Its learner is only switched on and    *)
(* off, which no handler reads.                                            *)
(*                                                                         *)
(* Server binds the timer of heartbeats to a copy of the node (std::bind   *)
(* with *m_paxosNode), which is made once and shares nothing with it but   *)
(* the messenger.                                                          *)
(*                                                                         *)
(* Clocks are read in two comparisons only, so each is a flag that a       *)
(* handler raises and that falls when the time is up: leaderAlive is       *)
(* isLeaderAlive(), prepareFresh the negation of isPrepareExpire().        *)
(***************************************************************************)
EXTENDS Acceptor, Proposer

VARIABLES m_leaderUID, m_leaderProposalID, m_acquiringLeadership, m_acceptNACKs,
          leaderAlive, prepareFresh,
          copyLeads,   \* m_leader of the timer's copy, which is made at the
                       \* start and never changes
          heartbeats   \* heartbeats[n]: the identifiers n has sent heartbeats
                       \* with; the UID in a heartbeat is always the sender's

clockVars == <<leaderAlive, prepareFresh>>

leaderVars == <<m_leaderUID, m_leaderProposalID, m_acquiringLeadership>>

nodeVars == <<leaderVars, clockVars, m_acceptNACKs, copyLeads, heartbeats>>

NodeTypeOK ==
  /\ m_leaderUID \in [Node -> Node \cup {NoUID}]
  /\ m_leaderProposalID \in [Node -> ProposalIDs]
  /\ m_acquiringLeadership \in [Node -> BOOLEAN]
  /\ m_acceptNACKs \in [Node -> SUBSET Node]
  /\ leaderAlive \in [Node -> BOOLEAN] /\ prepareFresh \in [Node -> BOOLEAN]
  /\ copyLeads \in [Node -> BOOLEAN]
  /\ heartbeats \in [Node -> SUBSET ValidIDs]

\* The constructor, as Server calls it: with no leader's UID.
NodeInit(peers) ==
  /\ AcceptorInit
  /\ ProposerInit(peers)
  /\ m_leaderUID = [n \in Node |-> NoUID]
  /\ m_leaderProposalID = [n \in Node |-> NullID]
  /\ m_acquiringLeadership = [n \in Node |-> FALSE]
  /\ m_acceptNACKs = [n \in Node |-> {}]
  /\ leaderAlive = [n \in Node |-> TRUE]
  /\ prepareFresh = [n \in Node |-> TRUE]
  /\ copyLeads = m_leader
  /\ heartbeats = [n \in Node |-> {}]

-----------------------------------------------------------------------------
LeaderTimesOut(n) ==
  /\ leaderAlive[n]
  /\ leaderAlive' = [leaderAlive EXCEPT ![n] = FALSE]
  /\ UNCHANGED <<acceptorVars, proposerVars, msgs, leaderVars, prepareFresh,
                 m_acceptNACKs, copyLeads, heartbeats>>

PrepareWindowCloses(n) ==
  /\ prepareFresh[n]
  /\ prepareFresh' = [prepareFresh EXCEPT ![n] = FALSE]
  /\ UNCHANGED <<acceptorVars, proposerVars, msgs, leaderVars, leaderAlive,
                 m_acceptNACKs, copyLeads, heartbeats>>

setNodeActive(n, active) ==
  /\ acceptorActive' = [acceptorActive EXCEPT ![n] = active]
  /\ proposerActive' = [proposerActive EXCEPT ![n] = active]
  /\ UNCHANGED <<m_promisedID, m_acceptedID, m_acceptedValue, disk, msgs,
                 m_pendingPromiseUID, m_pendingAcceptUID, m_proposalID,
                 m_proposedValue, m_lastAcceptedID, m_promisesReceived,
                 m_leader, m_peers, m_majorityAcceptors, nodeVars>>

\* Mutant of NACKsAfter: the refusals of the last round are kept.
NACKsAfterKeeping(n) == m_acceptNACKs

NACKsAfter(n) == [m_acceptNACKs EXCEPT ![n] = {}]

\* prepare(true)
newRound(n) ==
  /\ m_acceptNACKs' = NACKsAfter(n)
  /\ prepareNext(n)

prepare(n) ==
  /\ newRound(n)
  /\ UNCHANGED <<acceptorVars, leaderVars, clockVars, copyLeads, heartbeats>>

\* prepare(false)
repeatPrepare(n) ==
  /\ prepareAgain(n)
  /\ UNCHANGED <<acceptorVars, nodeVars>>

acquireLeadership(n) ==
  /\ m_acquiringLeadership' = [m_acquiringLeadership EXCEPT ![n] = ~leaderAlive[n]]
  /\ IF leaderAlive[n] THEN UNCHANGED <<proposerVars, msgs, m_acceptNACKs>>
                       ELSE newRound(n)
  /\ UNCHANGED <<acceptorVars, m_leaderUID, m_leaderProposalID, clockVars,
                 copyLeads, heartbeats>>

pollLiveness(n) ==
  /\ ~leaderAlive[n] /\ ~prepareFresh[n]
  /\ IF m_acquiringLeadership[n] THEN prepare(n) ELSE acquireLeadership(n)

-----------------------------------------------------------------------------
\* Mutant of Outranks: any heartbeat is adopted.
OutranksAlways(n, id) == TRUE

\* The heartbeat is that of a leader n has to follow from now on.
Outranks(n, id) ==
  ~isValid(m_leaderProposalID[n]) \/ Gt(id, m_leaderProposalID[n])

\* The leader n follows once it has received a heartbeat; only the leader
\* itself may still be leader then.  The same heartbeat again is a sign of life.
Follow(n, uid, id) ==
  /\ m_leaderUID' = [m_leaderUID EXCEPT ![n] = IF Outranks(n, id) THEN uid ELSE @]
  /\ m_leaderProposalID' =
       [m_leaderProposalID EXCEPT ![n] = IF Outranks(n, id) THEN id ELSE @]
  /\ m_acquiringLeadership' =
       [m_acquiringLeadership EXCEPT ![n] = @ /\ ~Outranks(n, id)]
  /\ leaderAlive' = [leaderAlive EXCEPT ![n] = @ \/ id = m_leaderProposalID'[n]]

receiveHeartbeat(n, uid, id) ==
  LET deposed == Outranks(n, id) /\ m_leader[n] /\ uid # n
  IN  /\ Follow(n, uid, id)
      /\ m_leader' = [m_leader EXCEPT ![n] = @ /\ ~deposed]
      /\ m_proposalID' = IF deposed
                         THEN [m_proposalID EXCEPT ![n] = Observed(n, id)]
                         ELSE m_proposalID
      /\ UNCHANGED <<acceptorVars, m_proposedValue, m_lastAcceptedID,
                     m_promisesReceived, proposerActive, m_peers, msgs,
                     m_majorityAcceptors, prepareFresh, m_acceptNACKs,
                     copyLeads, heartbeats>>

\* sendHeartbeat goes to every known peer; only what is sent is kept here.
sendHeartbeat(n, id) == heartbeats' = [heartbeats EXCEPT ![n] = @ \cup {id}]

pulse(n) ==
  /\ m_leader[n]
  /\ Follow(n, n, m_proposalID[n])
  /\ sendHeartbeat(n, m_proposalID[n])
  /\ UNCHANGED <<acceptorVars, proposerVars, msgs, prepareFresh, m_acceptNACKs,
                 copyLeads>>

\* What the timer calls.  The copy never changes but for the leader it follows:
\* it sends the identifier it started with.
pulseOfCopy(n) ==
  /\ copyLeads[n]
  /\ sendHeartbeat(n, [number |-> 0, uid |-> n])
  /\ UNCHANGED <<acceptorVars, proposerVars, msgs, leaderVars, clockVars,
                 m_acceptNACKs, copyLeads>>

-----------------------------------------------------------------------------
\* Whatever the answer, the acceptor's window opens again.
receiveNodePrepare(n, from, id) ==
  /\ receivePrepare(n, from, id)
  /\ prepareFresh' = [prepareFresh EXCEPT ![n] = TRUE]
  /\ UNCHANGED <<proposerVars, leaderVars, leaderAlive, m_acceptNACKs,
                 copyLeads, heartbeats>>

\* The promise that makes a node leader makes it its own leader, and announces
\* it, only if it knew of none.
receiveNodePromise(n, from, id, acceptID, acceptValue) ==
  /\ receivePromise(n, from, id, acceptID, acceptValue)
  /\ IF m_leaderUID[n] = NoUID /\ m_leader'[n]
     THEN /\ m_leaderUID' = [m_leaderUID EXCEPT ![n] = n]
          /\ m_leaderProposalID' = [m_leaderProposalID EXCEPT ![n] = m_proposalID'[n]]
          /\ m_acquiringLeadership' = [m_acquiringLeadership EXCEPT ![n] = FALSE]
          /\ leaderAlive' = [leaderAlive EXCEPT ![n] = TRUE]
          /\ sendHeartbeat(n, m_proposalID'[n])
     ELSE UNCHANGED <<leaderVars, leaderAlive, heartbeats>>
  /\ UNCHANGED <<acceptorVars, prepareFresh, m_acceptNACKs, copyLeads>>

\* While it acquires the leadership, every refusal starts a round.
receiveNodePrepareNACK(n, promisedID) ==
  \/ /\ ~m_acquiringLeadership[n]
     /\ receivePrepareNACK(n, promisedID)
     /\ UNCHANGED <<acceptorVars, nodeVars>>
  \/ LET id == incrementNumber(Observed(n, promisedID))
     IN  /\ m_acquiringLeadership[n]
         /\ m_acceptNACKs' = NACKsAfter(n)
         /\ beginRound(n, id)
         /\ UNCHANGED <<acceptorVars, leaderVars, clockVars, copyLeads, heartbeats>>

\* A refusal counts if id is the node's identifier after it has caught up with
\* promisedID.  A quorum of them deposes the leader.
receiveNodeAcceptNACK(n, from, id, promisedID) ==
  LET mine == Observed(n, promisedID)
      refusals == IF id = mine THEN m_acceptNACKs[n] \cup {from}
                               ELSE m_acceptNACKs[n]
      deposed == m_leader[n] /\ Cardinality(refusals) >= QuorumSize
  IN  /\ m_acceptNACKs' = [m_acceptNACKs EXCEPT ![n] = refusals]
      /\ m_leader' = [m_leader EXCEPT ![n] = @ /\ ~deposed]
      /\ m_leaderUID' = [m_leaderUID EXCEPT ![n] = IF deposed THEN NoUID ELSE @]
      /\ m_leaderProposalID' =
           [m_leaderProposalID EXCEPT ![n] = IF deposed THEN NullID ELSE @]
      /\ m_proposalID' =
           [m_proposalID EXCEPT ![n] = IF deposed THEN CatchUp(mine, id) ELSE mine]
      /\ UNCHANGED <<acceptorVars, m_proposedValue, m_lastAcceptedID,
                     m_promisesReceived, proposerActive, m_peers,
                     m_majorityAcceptors, msgs, m_acquiringLeadership,
                     clockVars, copyLeads, heartbeats>>

-----------------------------------------------------------------------------
(***************************************************************************)
(* The process dies and a new one starts.  PaxosNode neither saves what    *)
(* its acceptor asks to have saved nor calls recover(): disk[n] is what it *)
(* was at the start.                                                       *)
(***************************************************************************)
RestartPaxosNode(n) ==
  /\ RestartProposer(n)
  /\ recover(n, disk[n])
  /\ m_pendingPromiseUID' = [m_pendingPromiseUID EXCEPT ![n] = NoUID]
  /\ m_pendingAcceptUID' = [m_pendingAcceptUID EXCEPT ![n] = NoUID]
  /\ \E active \in ActiveAtStart :
       acceptorActive' = [acceptorActive EXCEPT ![n] = active]
  /\ m_leaderUID' = [m_leaderUID EXCEPT ![n] = NoUID]
  /\ m_leaderProposalID' = [m_leaderProposalID EXCEPT ![n] = NullID]
  /\ m_acquiringLeadership' = [m_acquiringLeadership EXCEPT ![n] = FALSE]
  /\ m_acceptNACKs' = [m_acceptNACKs EXCEPT ![n] = {}]
  /\ leaderAlive' = [leaderAlive EXCEPT ![n] = TRUE]
  /\ prepareFresh' = [prepareFresh EXCEPT ![n] = TRUE]
  /\ copyLeads' = [copyLeads EXCEPT ![n] = m_leader'[n]]
  /\ UNCHANGED <<disk, heartbeats>>
=============================================================================
