-------------------------- MODULE PaxosNodeProofs ---------------------------
(***************************************************************************)
(* Proofs about the node in PaxosNodeEnv: for any set of nodes, any quorum *)
(* size, any identifiers of others, and answers in any order and number.   *)
(***************************************************************************)
EXTENDS PaxosNodeEnv, RoleProofs

(***************************************************************************)
(* The inductive invariant for the types, by who changes what.  Beyond     *)
(* them, a leader's identifier is empty or has an owner, and nothing is    *)
(* ever saved: what a restart recovers is the empty promise and vote.      *)
(***************************************************************************)
OwnUIDs == \A n \in Node : m_proposalID[n].uid = n

NothingIsSaved == disk = [n \in Node |-> NothingSaved]

LeaderIsKnown ==
  \A n \in Node : /\ m_leaderProposalID[n] \in ValidIDs \cup {NullID}
                  /\ m_leaderUID[n] = NoUID <=> m_leaderProposalID[n] = NullID

LeaderTypes ==
  /\ m_leaderUID \in [Node -> Node \cup {NoUID}]
  /\ m_leaderProposalID \in [Node -> ProposalIDs]
  /\ m_acquiringLeadership \in [Node -> BOOLEAN]
  /\ leaderAlive \in [Node -> BOOLEAN]
  /\ LeaderIsKnown

RestOfTypes ==
  /\ prepareFresh \in [Node -> BOOLEAN]
  /\ copyLeads \in [Node -> BOOLEAN]
  /\ m_acceptNACKs \in [Node -> SUBSET Node]
  /\ heartbeats \in [Node -> SUBSET ValidIDs]

\* The types of what the program holds and sends, and of what is remembered.
StateInv ==
  /\ AcceptorInv /\ NothingIsSaved
  /\ ProposerTypeOK /\ OwnUIDs
  /\ msgs \subseteq Message
  /\ LeaderTypes /\ RestOfTypes

HistoryTypes ==
  /\ round \in [Node -> Nat]
  /\ promised \in [Node -> SUBSET Node]
  /\ refused \in [Node -> SUBSET Node]
  /\ restarts \in 0..MaxRestarts

TypeInv == StateInv /\ HistoryTypes

LEMMA TypeInvImpliesTypes == TypeInv => TypeOK
BY DEF TypeInv, HistoryTypes, StateInv, AcceptorInv, OwnUIDs, LeaderTypes, LeaderIsKnown, RestOfTypes,
       TypeOK, NodeTypeOK

LEMMA Foreign ==
  /\ Observers \subseteq Node /\ MaxNumber \in Nat /\ MaxRestarts \in Nat
  /\ ForeignIDs \subseteq ValidIDs
  /\ PrepareIDs \subseteq ForeignIDs
  /\ \A id \in ForeignIDs : id.uid \in Node
BY EnvAssumption DEF EnvAssumption, ValidIDs

\* The fields of one node.
LEMMA NodeFields ==
  ASSUME StateInv, NEW n \in Node
  PROVE  /\ m_proposalID[n] \in ValidIDs /\ m_proposalID[n] \in ProposalIDs
         /\ m_proposalID[n].uid = n /\ m_proposalID[n].number \in Nat
         /\ m_leaderProposalID[n] \in ProposalIDs
         /\ m_acceptNACKs[n] \in SUBSET Node /\ m_promisesReceived[n] \in SUBSET Node
         /\ m_leader[n] \in BOOLEAN
         /\ n # NoUID
<1>1. /\ m_proposalID[n] \in ValidIDs /\ m_proposalID[n].uid = n
      /\ m_leaderProposalID[n] \in ProposalIDs
      /\ m_acceptNACKs[n] \in SUBSET Node /\ m_promisesReceived[n] \in SUBSET Node
      /\ m_leader[n] \in BOOLEAN
  BY DEF StateInv, OwnUIDs, ProposerTypeOK, LeaderTypes, RestOfTypes
<1> QED BY <1>1, RoleFacts, FieldTypes

\* What a node knows to be its own after it has observed an identifier.
LEMMA ObservedFields ==
  ASSUME StateInv, NEW n \in Node, NEW id \in ValidIDs
  PROVE  /\ Observed(n, id) \in ValidIDs /\ Observed(n, id).uid = n
         /\ m_proposalID[n].number <= Observed(n, id).number
BY NodeFields, CatchUpKeepsOwner DEF Observed

LEMMA SameAcceptor ==
  ASSUME StateInv, UNCHANGED acceptorVars
  PROVE  AcceptorInv' /\ NothingIsSaved'
BY SameFieldsKeepAcceptorInv DEF StateInv, NothingIsSaved, acceptorVars

-----------------------------------------------------------------------------
LEMMA NewRoundTypes ==
  ASSUME StateInv, NEW n \in Node, NEW id \in ValidIDs, id.uid = n,
         beginRound(n, id), m_acceptNACKs' = NACKsAfter(n)
  PROVE  /\ ProposerTypeOK' /\ msgs' \subseteq Message /\ OwnUIDs'
         /\ m_acceptNACKs' \in [Node -> SUBSET Node]
<1>1. ProposerTypeOK' /\ msgs' \subseteq Message
  BY BeginRoundTypes DEF StateInv
<1>2. OwnUIDs'
  BY DEF beginRound, OwnUIDs, StateInv, ProposerTypeOK
<1> QED BY <1>1, <1>2 DEF NACKsAfter, StateInv, RestOfTypes

\* prepare(true)
LEMMA NextRoundTypes ==
  ASSUME StateInv, NEW n \in Node, newRound(n)
  PROVE  /\ ProposerTypeOK' /\ msgs' \subseteq Message /\ OwnUIDs'
         /\ m_acceptNACKs' \in [Node -> SUBSET Node]
BY NodeFields, NextNumber, NewRoundTypes DEF newRound, prepareNext

LEMMA AcquireLeadershipTypes ==
  ASSUME StateInv, NEW n \in Node, acquireLeadership(n)
  PROVE  StateInv'
<1>1. /\ ProposerTypeOK' /\ msgs' \subseteq Message /\ OwnUIDs'
      /\ m_acceptNACKs' \in [Node -> SUBSET Node]
  <2>1. CASE leaderAlive[n]
    BY <2>1 DEF acquireLeadership, proposerVars, ProposerTypeOK, OwnUIDs,
       StateInv, RestOfTypes
  <2>2. CASE ~leaderAlive[n]
    BY <2>2, NextRoundTypes DEF acquireLeadership
  <2> QED BY <2>1, <2>2
<1>2. AcceptorInv' /\ NothingIsSaved'
  BY SameAcceptor DEF acquireLeadership
<1>3. LeaderTypes'
  BY DEF acquireLeadership, clockVars, StateInv, LeaderTypes, LeaderIsKnown
<1>4. RestOfTypes'
  BY <1>1 DEF acquireLeadership, clockVars, StateInv, RestOfTypes
<1> QED BY <1>1, <1>2, <1>3, <1>4 DEF StateInv

LEMMA PrepareStepTypes ==
  ASSUME StateInv, NEW n \in Node, prepare(n)
  PROVE  StateInv'
<1>1. /\ ProposerTypeOK' /\ msgs' \subseteq Message /\ OwnUIDs'
      /\ m_acceptNACKs' \in [Node -> SUBSET Node]
  BY NextRoundTypes DEF prepare
<1>2. AcceptorInv' /\ NothingIsSaved'
  BY SameAcceptor DEF prepare
<1>3. LeaderTypes'
  BY DEF prepare, leaderVars, clockVars, StateInv, LeaderTypes, LeaderIsKnown
<1>4. RestOfTypes'
  BY <1>1 DEF prepare, clockVars, StateInv, RestOfTypes
<1> QED BY <1>1, <1>2, <1>3, <1>4 DEF StateInv

LEMMA OwnerPreparesTypes ==
  ASSUME StateInv, NEW n \in Node, OwnerPrepares(n)
  PROVE  StateInv'
BY PrepareStepTypes, AcquireLeadershipTypes DEF OwnerPrepares, pollLiveness

\* A heartbeat of a node, or its own, makes that node known.
LEMMA FollowTypes ==
  ASSUME StateInv, NEW n \in Node, NEW uid \in Node, NEW id \in ValidIDs,
         Follow(n, uid, id)
  PROVE  LeaderTypes'
<1>1. id \in ProposalIDs /\ uid # NoUID /\ id # NullID
  BY RoleFacts
<1>2. /\ m_leaderUID' \in [Node -> Node \cup {NoUID}]
      /\ m_leaderProposalID' \in [Node -> ProposalIDs]
      /\ m_acquiringLeadership' \in [Node -> BOOLEAN]
      /\ leaderAlive' \in [Node -> BOOLEAN]
  BY <1>1 DEF Follow, StateInv, LeaderTypes
<1>3. LeaderIsKnown'
  BY <1>1 DEF Follow, StateInv, LeaderTypes, LeaderIsKnown
<1> QED BY <1>2, <1>3 DEF LeaderTypes

LEMMA HeartbeatsTypes ==
  ASSUME StateInv, NEW n \in Node, NEW id \in ValidIDs, sendHeartbeat(n, id)
  PROVE  heartbeats' \in [Node -> SUBSET ValidIDs]
BY DEF sendHeartbeat, StateInv, RestOfTypes

LEMMA OwnerActsTypes ==
  ASSUME StateInv, NEW n \in Node, OwnerActs(n)
  PROVE  StateInv'
<1>1. CASE acquireLeadership(n)
  BY <1>1, AcquireLeadershipTypes
<1>2. CASE repeatPrepare(n)
  <2>1. ProposerTypeOK' /\ msgs' \subseteq Message
    BY <1>2, PrepareTypes DEF repeatPrepare, StateInv
  <2>2. OwnUIDs' /\ LeaderTypes' /\ RestOfTypes'
    BY <1>2 DEF repeatPrepare, prepareAgain, nodeVars, leaderVars, clockVars,
       StateInv, OwnUIDs, LeaderTypes, LeaderIsKnown, RestOfTypes
  <2>3. AcceptorInv' /\ NothingIsSaved'
    BY <1>2, SameAcceptor DEF repeatPrepare
  <2> QED BY <2>1, <2>2, <2>3 DEF StateInv
<1>3. CASE pulse(n)
  <2>1. LeaderTypes' /\ heartbeats' \in [Node -> SUBSET ValidIDs]
    BY <1>3, NodeFields, FollowTypes, HeartbeatsTypes DEF pulse
  <2>2. AcceptorInv' /\ NothingIsSaved'
    BY <1>3, SameAcceptor DEF pulse
  <2>3. ProposerTypeOK' /\ OwnUIDs' /\ msgs' \subseteq Message
    BY <1>3 DEF pulse, proposerVars, StateInv, ProposerTypeOK, OwnUIDs
  <2>4. RestOfTypes'
    BY <1>3, <2>1 DEF pulse, StateInv, RestOfTypes
  <2> QED BY <2>1, <2>2, <2>3, <2>4 DEF StateInv
<1>4. CASE setNodeActive(n, ~acceptorActive[n])
  <2>1. /\ acceptorActive' \in [Node -> BOOLEAN]
        /\ proposerActive' \in [Node -> BOOLEAN]
    BY <1>4 DEF setNodeActive, StateInv, AcceptorInv, AcceptorTypeOK, ProposerTypeOK
  <2>2. AcceptorInv' /\ NothingIsSaved'
    BY <1>4, <2>1 DEF setNodeActive, StateInv, AcceptorInv, AcceptorTypeOK,
       PendingIsSet, AcceptedIsPromised, NothingIsSaved
  <2>3. ProposerTypeOK' /\ msgs' \subseteq Message /\ OwnUIDs'
    BY <1>4, <2>1 DEF setNodeActive, StateInv, ProposerTypeOK, OwnUIDs
  <2>4. LeaderTypes' /\ RestOfTypes'
    BY <1>4 DEF setNodeActive, nodeVars, leaderVars, clockVars,
       StateInv, LeaderTypes, LeaderIsKnown, RestOfTypes
  <2> QED BY <2>2, <2>3, <2>4 DEF StateInv
<1> QED BY <1>1, <1>2, <1>3, <1>4 DEF OwnerActs

\* The timers of the clocks.
LEMMA TimePassesTypes ==
  ASSUME StateInv, NEW n \in Node, TimePasses(n)
  PROVE  StateInv'
<1>1. UNCHANGED <<acceptorVars, proposerVars, msgs, leaderVars, m_acceptNACKs,
                  copyLeads, heartbeats>>
  BY DEF TimePasses, LeaderTimesOut, PrepareWindowCloses
<1>2. /\ leaderAlive' \in [Node -> BOOLEAN]
      /\ prepareFresh' \in [Node -> BOOLEAN]
  BY DEF TimePasses, LeaderTimesOut, PrepareWindowCloses, StateInv, LeaderTypes, RestOfTypes
<1>3. AcceptorInv' /\ NothingIsSaved'
  BY <1>1, SameAcceptor
<1> QED BY <1>1, <1>2, <1>3 DEF StateInv, proposerVars, leaderVars, ProposerTypeOK,
           OwnUIDs, LeaderTypes, LeaderIsKnown, RestOfTypes

LEMMA PulseTimerTypes ==
  ASSUME StateInv, NEW n \in Node, PulseTimer(n)
  PROVE  StateInv'
<1>1. UNCHANGED <<acceptorVars, proposerVars, msgs, leaderVars, clockVars,
                  m_acceptNACKs, copyLeads>>
  BY DEF PulseTimer, pulseOfCopy
<1>2. AcceptorInv' /\ NothingIsSaved'
  BY <1>1, SameAcceptor
<1>3. heartbeats' \in [Node -> SUBSET ValidIDs]
  <2>1. [number |-> 0, uid |-> n] \in ValidIDs
    BY DEF ValidIDs
  <2> QED BY <2>1, HeartbeatsTypes DEF PulseTimer, pulseOfCopy
<1> QED BY <1>1, <1>2, <1>3 DEF StateInv, proposerVars, leaderVars, clockVars,
           ProposerTypeOK, OwnUIDs, LeaderTypes, LeaderIsKnown, RestOfTypes

LEMMA HeartbeatArrivesTypes ==
  ASSUME StateInv, NEW n \in Node, HeartbeatArrives(n)
  PROVE  StateInv'
<1>1. PICK id \in ForeignIDs : receiveHeartbeat(n, id.uid, id)
  BY DEF HeartbeatArrives
<1>2. id \in ValidIDs /\ id.uid \in Node
  BY Foreign
<1>3. /\ UNCHANGED <<acceptorVars, m_proposedValue, m_lastAcceptedID, m_promisesReceived,
                     proposerActive, m_peers, msgs, m_majorityAcceptors, prepareFresh,
                     m_acceptNACKs, copyLeads, heartbeats>>
      /\ m_leader' \in [Node -> BOOLEAN]
  BY <1>1 DEF receiveHeartbeat, HeartbeatArrives, StateInv, ProposerTypeOK
<1>4. m_proposalID' \in [Node -> ValidIDs] /\ OwnUIDs'
  BY <1>1, <1>2, ObservedFields DEF receiveHeartbeat, StateInv, ProposerTypeOK, OwnUIDs
<1>5. LeaderTypes'
  BY <1>1, <1>2, FollowTypes DEF receiveHeartbeat
<1>6. AcceptorInv' /\ NothingIsSaved'
  BY <1>3, SameAcceptor
<1> QED BY <1>3, <1>4, <1>5, <1>6 DEF StateInv, ProposerTypeOK, RestOfTypes

LEMMA PrepareArrivesTypes ==
  ASSUME StateInv, NEW n \in Node, PrepareArrives(n)
  PROVE  StateInv'
<1>1. PICK id \in PrepareIDs : receiveNodePrepare(n, id.uid, id)
  BY DEF PrepareArrives
<1>2. id \in ValidIDs /\ id.uid \in Node
  BY Foreign
<1>3. /\ AcceptorInv' /\ (Answers \/ RaisesPromise(n, id))
      /\ UNCHANGED disk
  <2>1. UNCHANGED disk
    BY <1>1 DEF receiveNodePrepare, receivePrepare, PromiseAgain, RecordPromise,
       DropPrepare, RefusePrepare, acceptorVars
  <2> QED BY <1>1, <1>2, <2>1, ReceivePrepareKeeps DEF receiveNodePrepare, StateInv
<1>4. msgs' \subseteq Message
  BY <1>3 DEF Answers, RaisesPromise, Truthful, StateInv
<1>5. NothingIsSaved'
  BY <1>3 DEF StateInv, NothingIsSaved
<1>6. ProposerTypeOK' /\ OwnUIDs'
  BY <1>1 DEF receiveNodePrepare, proposerVars, StateInv, ProposerTypeOK, OwnUIDs
<1>7. LeaderTypes' /\ RestOfTypes'
  BY <1>1 DEF receiveNodePrepare, PrepareArrives, leaderVars, StateInv, LeaderTypes,
     LeaderIsKnown, RestOfTypes
<1> QED BY <1>3, <1>4, <1>5, <1>6, <1>7 DEF StateInv

LEMMA NodePromiseTypes ==
  ASSUME StateInv, NEW n \in Node, NEW a \in Node, NEW id \in ValidIDs,
         NEW acceptID \in ProposalIDs, NEW acceptValue \in Value \cup {NoValue},
         receiveNodePromise(n, a, id, acceptID, acceptValue)
  PROVE  StateInv'
<1>6. receivePromise(n, a, id, acceptID, acceptValue)
  BY DEF receiveNodePromise
<1>7. ProposerTypeOK' /\ msgs' \subseteq Message
  BY <1>6, ReceivePromiseTypes DEF StateInv
<1>8. OwnUIDs'
  <2>1. \/ m_proposalID' = [m_proposalID EXCEPT ![n] = Observed(n, id)]
        \/ /\ id = Observed(n, id)
           /\ m_proposalID' = [m_proposalID EXCEPT ![n] = id]
    BY <1>6 DEF receivePromise, IgnorePromise, CountPromise, Counts
  <2> QED BY <2>1, ObservedFields DEF StateInv, ProposerTypeOK, OwnUIDs
<1>9. m_proposalID'[n] \in ValidIDs
  BY <1>7 DEF ProposerTypeOK
<1>10. LeaderTypes' /\ heartbeats' \in [Node -> SUBSET ValidIDs]
  <2>1. CASE m_leaderUID[n] = NoUID /\ m_leader'[n]
    <3>1. /\ m_leaderUID' = [m_leaderUID EXCEPT ![n] = n]
          /\ m_leaderProposalID' = [m_leaderProposalID EXCEPT ![n] = m_proposalID'[n]]
          /\ m_acquiringLeadership' = [m_acquiringLeadership EXCEPT ![n] = FALSE]
          /\ leaderAlive' = [leaderAlive EXCEPT ![n] = TRUE]
          /\ sendHeartbeat(n, m_proposalID'[n])
      BY <2>1 DEF receiveNodePromise
    <3>2. m_proposalID'[n] \in ProposalIDs /\ m_proposalID'[n] # NullID /\ n # NoUID
      BY <1>9, RoleFacts
    <3>3. LeaderTypes'
      BY <1>9, <3>1, <3>2 DEF StateInv, LeaderTypes, LeaderIsKnown
    <3> QED BY <1>9, <3>1, <3>3, HeartbeatsTypes
  <2>2. CASE ~(m_leaderUID[n] = NoUID /\ m_leader'[n])
    BY <2>2 DEF receiveNodePromise, leaderVars, StateInv, LeaderTypes,
       LeaderIsKnown, RestOfTypes
  <2> QED BY <2>1, <2>2
<1>11. AcceptorInv' /\ NothingIsSaved'
  BY SameAcceptor DEF receiveNodePromise
<1>12. RestOfTypes'
  BY <1>10 DEF receiveNodePromise, StateInv, RestOfTypes
<1> QED BY <1>7, <1>8, <1>10, <1>11, <1>12 DEF StateInv

\* A promise answers a request that was sent, and reports a vote or nothing.
LEMMA PromiseFields ==
  ASSUME StateInv, NEW n \in Node, PromiseArrives(n)
  PROVE  \E id \in ValidIDs, a \in Node, acceptID \in ProposalIDs,
            acceptValue \in Value \cup {NoValue} :
           /\ receiveNodePromise(n, a, id, acceptID, acceptValue)
           /\ promised' = WithAnswer(promised, n, a, id)
           /\ UNCHANGED <<round, refused, restarts>>
<1>1. PICK request \in Requests(n, "prepare") : \E a \in request.acceptors :
        \E report \in Reports(n, a, request.id) :
          /\ receiveNodePromise(n, a, request.id, report[1], report[2])
          /\ promised' = WithAnswer(promised, n, a, request.id)
          /\ UNCHANGED <<round, refused, restarts>>
  BY DEF PromiseArrives
<1>2. request.id \in ValidIDs /\ request.acceptors \in SUBSET Node
  BY RequestFields DEF Requests, StateInv, Sent
<1>3. ASSUME NEW a, NEW report \in Reports(n, a, request.id)
      PROVE  report[1] \in ProposalIDs /\ report[2] \in Value \cup {NoValue}
  <2>1. CASE report \in {<<NullID, NoValue>>} \cup
                          ({i \in ForeignIDs : Gt(request.id, i)} \X Value)
    BY <2>1, Foreign, RoleFacts
  <2>2. CASE \E m \in Requests(n, "accept") : report = <<m.id, m.value>>
    <3>1. PICK m \in msgs : m.cmd = "accept" /\ report = <<m.id, m.value>>
      BY <2>2 DEF Requests, Sent
    <3>2. m.id \in ValidIDs /\ m.value \in Value
      BY <3>1 DEF StateInv, Message
    <3> QED BY <3>1, <3>2, RoleFacts
  <2> QED BY <1>3, <2>1, <2>2 DEF Reports
<1> QED BY <1>1, <1>2, <1>3

LEMMA PromiseArrivesTypes ==
  ASSUME StateInv, NEW n \in Node, PromiseArrives(n)
  PROVE  StateInv'
BY PromiseFields, NodePromiseTypes

LEMMA HigherAndAsked ==
  ASSUME StateInv, NEW n \in Node
  PROVE  Higher(n) \subseteq ForeignIDs /\ Asked(n) \subseteq Node
BY RequestFields DEF Higher, Asked, Requests, StateInv, Sent

LEMMA StrayPromiseArrivesTypes ==
  ASSUME StateInv, NEW n \in Node, StrayPromiseArrives(n)
  PROVE  StateInv'
BY HigherAndAsked, Foreign, RoleFacts, NodePromiseTypes DEF StrayPromiseArrives

LEMMA PrepareNACKArrivesTypes ==
  ASSUME StateInv, NEW n \in Node, PrepareNACKArrives(n)
  PROVE  StateInv'
<1>1. PICK promisedID \in Higher(n) : receiveNodePrepareNACK(n, promisedID)
  BY DEF PrepareNACKArrives
<1>2. promisedID \in ValidIDs
  BY HigherAndAsked, Foreign
<1>4. CASE receivePrepareNACK(n, promisedID) /\ UNCHANGED <<acceptorVars, nodeVars>>
  <2>1. ProposerTypeOK' /\ msgs' \subseteq Message
    BY <1>2, <1>4, NACKTypes DEF receivePrepareNACK, StateInv
  <2>2. OwnUIDs'
    BY <1>2, <1>4, ObservedFields DEF receivePrepareNACK, receiveNACK, StateInv,
       ProposerTypeOK, OwnUIDs
  <2>3. LeaderTypes' /\ RestOfTypes'
    BY <1>4 DEF nodeVars, leaderVars, clockVars, StateInv, LeaderTypes,
       LeaderIsKnown, RestOfTypes
  <2>4. AcceptorInv' /\ NothingIsSaved'
    BY <1>4, SameAcceptor
  <2> QED BY <2>1, <2>2, <2>3, <2>4 DEF StateInv
<1>5. CASE /\ m_acceptNACKs' = NACKsAfter(n)
           /\ beginRound(n, incrementNumber(Observed(n, promisedID)))
           /\ UNCHANGED <<acceptorVars, leaderVars, clockVars, copyLeads, heartbeats>>
  <2> DEFINE id == incrementNumber(Observed(n, promisedID))
  <2>1. id \in ValidIDs /\ id.uid = n
    BY <1>2, ObservedFields, NextNumber
  <2>2. /\ ProposerTypeOK' /\ msgs' \subseteq Message /\ OwnUIDs'
        /\ m_acceptNACKs' \in [Node -> SUBSET Node]
    <3> HIDE DEF id
    <3> QED BY <1>5, <2>1, NewRoundTypes DEF id
  <2>3. LeaderTypes'
    BY <1>5 DEF leaderVars, clockVars, StateInv, LeaderTypes, LeaderIsKnown
  <2>4. RestOfTypes'
    BY <1>5, <2>2 DEF clockVars, StateInv, RestOfTypes
  <2>5. AcceptorInv' /\ NothingIsSaved'
    BY <1>5, SameAcceptor
  <2> QED BY <2>2, <2>3, <2>4, <2>5 DEF StateInv
<1> QED BY <1>1, <1>4, <1>5 DEF receiveNodePrepareNACK

LEMMA AcceptNACKArrivesTypes ==
  ASSUME StateInv, NEW n \in Node, AcceptNACKArrives(n)
  PROVE  StateInv'
<1>1. PICK request \in Requests(n, "accept"), promisedID \in ForeignIDs :
        \E a \in request.acceptors : receiveNodeAcceptNACK(n, a, request.id, promisedID)
  BY DEF AcceptNACKArrives
<1>2. PICK a \in request.acceptors : receiveNodeAcceptNACK(n, a, request.id, promisedID)
  BY <1>1
<1>3. request.id \in ValidIDs /\ a \in Node /\ promisedID \in ValidIDs
  BY RequestFields, Foreign DEF Requests, StateInv, Sent
<1> DEFINE mine == Observed(n, promisedID)
           refusals == IF request.id = mine THEN m_acceptNACKs[n] \cup {a}
                                            ELSE m_acceptNACKs[n]
           deposed == m_leader[n] /\ Cardinality(refusals) >= QuorumSize
<1>4. /\ m_acceptNACKs' = [m_acceptNACKs EXCEPT ![n] = refusals]
      /\ m_leader' = [m_leader EXCEPT ![n] = @ /\ ~deposed]
      /\ m_leaderUID' = [m_leaderUID EXCEPT ![n] = IF deposed THEN NoUID ELSE @]
      /\ m_leaderProposalID' =
           [m_leaderProposalID EXCEPT ![n] = IF deposed THEN NullID ELSE @]
      /\ m_proposalID' = [m_proposalID EXCEPT ![n] =
                            IF deposed THEN CatchUp(mine, request.id) ELSE mine]
      /\ UNCHANGED <<acceptorVars, m_proposedValue, m_lastAcceptedID,
                     m_promisesReceived, proposerActive, m_peers,
                     m_majorityAcceptors, msgs, m_acquiringLeadership,
                     clockVars, copyLeads, heartbeats>>
  BY <1>2 DEF receiveNodeAcceptNACK
<1>5. refusals \in SUBSET Node
  BY <1>3, NodeFields
<1>6. /\ mine \in ValidIDs /\ mine.uid = n
      /\ CatchUp(mine, request.id) \in ValidIDs /\ CatchUp(mine, request.id).uid = n
  BY <1>3, ObservedFields, CatchUpKeepsOwner
<1> HIDE DEF mine, refusals, deposed
<1>7. ProposerTypeOK' /\ OwnUIDs' /\ msgs' \subseteq Message
  BY <1>4, <1>6 DEF StateInv, ProposerTypeOK, OwnUIDs
<1>8. LeaderTypes'
  <2>1. /\ m_leaderUID' \in [Node -> Node \cup {NoUID}]
        /\ m_leaderProposalID' \in [Node -> ProposalIDs]
    BY <1>4, RoleFacts DEF StateInv, LeaderTypes
  <2>2. LeaderIsKnown'
    BY <1>4 DEF StateInv, LeaderTypes, LeaderIsKnown
  <2> QED BY <1>4, <2>1, <2>2 DEF clockVars, StateInv, LeaderTypes
<1>9. m_acceptNACKs' \in [Node -> SUBSET Node]
  BY <1>4, <1>5 DEF StateInv, RestOfTypes
<1>10. RestOfTypes'
  BY <1>4, <1>9 DEF clockVars, StateInv, RestOfTypes
<1>11. AcceptorInv' /\ NothingIsSaved'
  BY <1>4, SameAcceptor
<1> QED BY <1>7, <1>8, <1>10, <1>11 DEF StateInv

LEMMA PingArrivesTypes ==
  ASSUME StateInv, NEW n \in Node, PingArrives(n)
  PROVE  StateInv'
<1>1. PICK m \in Node \ {n} : HandlePingMessage(n, m, Node)
  BY DEF PingArrives
<1>2. /\ ProposerTypeOK'
      /\ UNCHANGED <<msgs, m_proposalID>>
  BY <1>1, QuietTypes DEF StateInv, HandlePingMessage
<1>3. UNCHANGED <<acceptorVars, nodeVars>>
  BY DEF PingArrives
<1>4. AcceptorInv' /\ NothingIsSaved'
  BY <1>3, SameAcceptor
<1> QED BY <1>2, <1>3, <1>4 DEF nodeVars, leaderVars, clockVars, StateInv, OwnUIDs,
           LeaderTypes, LeaderIsKnown, RestOfTypes

(***************************************************************************)
(* A restart: the acceptor recovers the empty promise, the proposer counts *)
(* from zero, and only what has been sent and heard remains.               *)
(***************************************************************************)
LEMMA RestartTypes ==
  ASSUME StateInv, NEW n \in Node, RestartNode(n)
  PROVE  StateInv'
<1>1. /\ RestartProposer(n)
      /\ UNCHANGED <<disk, heartbeats>>
  BY DEF RestartNode, RestartPaxosNode
<1>2. /\ disk[n].promisedID = NullID /\ disk[n].acceptedID = NullID
      /\ disk[n].acceptedValue = NoValue
  BY DEF StateInv, NothingIsSaved, NothingSaved
<1>3. AcceptorInv' /\ NothingIsSaved'
  <2>1. /\ m_promisedID' = [m_promisedID EXCEPT ![n] = NullID]
        /\ m_acceptedID' = [m_acceptedID EXCEPT ![n] = NullID]
        /\ m_acceptedValue' = [m_acceptedValue EXCEPT ![n] = NoValue]
        /\ m_pendingPromiseUID' = [m_pendingPromiseUID EXCEPT ![n] = NoUID]
        /\ m_pendingAcceptUID' = [m_pendingAcceptUID EXCEPT ![n] = NoUID]
        /\ acceptorActive' \in [Node -> BOOLEAN]
    BY <1>2, RoleFacts DEF RestartNode, RestartPaxosNode, recover, StateInv, AcceptorInv,
       AcceptorTypeOK
  <2>2. AcceptorTypeOK'
    BY <1>1, <2>1, RoleFacts DEF StateInv, AcceptorInv, AcceptorTypeOK
  <2>3. PendingIsSet'
    BY <2>1, RoleFacts DEF StateInv, AcceptorInv, AcceptorTypeOK, PendingIsSet
  <2>4. AcceptedIsPromised'
    BY <2>1, RoleFacts, GeqReflexive DEF StateInv, AcceptorInv, AcceptorTypeOK,
       AcceptedIsPromised
  <2> QED BY <1>1, <2>2, <2>3, <2>4 DEF AcceptorInv, StateInv, NothingIsSaved
<1>4. ProposerTypeOK' /\ OwnUIDs' /\ msgs' \subseteq Message
  <2>1. /\ m_proposalID[n] \in ValidIDs /\ m_proposalID[n].uid = n
        /\ setNumber(m_proposalID[n], 0) \in ValidIDs
        /\ setNumber(m_proposalID[n], 0).uid = n
    BY NodeFields DEF setNumber, ValidIDs
  <2>2. m_proposalID' = [m_proposalID EXCEPT ![n] = setNumber(m_proposalID[n], 0)]
    BY <1>1 DEF RestartProposer
  <2>3. m_proposalID' \in [Node -> ValidIDs] /\ OwnUIDs'
    BY <2>1, <2>2 DEF StateInv, ProposerTypeOK, OwnUIDs
  <2> QED BY <1>1, <2>3, RoleFacts DEF RestartProposer, StateInv, ProposerTypeOK
<1>5. LeaderTypes'
  BY RoleFacts DEF RestartNode, RestartPaxosNode, StateInv, LeaderTypes, LeaderIsKnown
<1>6. RestOfTypes'
  <2>1. m_leader'[n] \in BOOLEAN
    BY <1>4 DEF ProposerTypeOK
  <2> QED BY <1>1, <2>1 DEF RestartNode, RestartPaxosNode, StateInv, RestOfTypes
<1> QED BY <1>3, <1>4, <1>5, <1>6 DEF StateInv

-----------------------------------------------------------------------------
\* One more answer to a request of n.
LEMMA AnswerIsAdded ==
  ASSUME NEW answers \in [Node -> SUBSET Node], NEW n \in Node, NEW a \in Node, NEW id
  PROVE  /\ WithAnswer(answers, n, a, id) \in [Node -> SUBSET Node]
         /\ \A q \in Node : answers[q] \subseteq WithAnswer(answers, n, a, id)[q]
         /\ id.number >= round[n] => a \in WithAnswer(answers, n, a, id)[n]
<1>1. CASE id.number >= round[n]
  BY <1>1 DEF WithAnswer
<1>2. CASE ~(id.number >= round[n])
  BY <1>2 DEF WithAnswer
<1> QED BY <1>1, <1>2

LEMMA RoundBegunTypes ==
  ASSUME TypeInv, StateInv', NEW n \in Node, RoundBegun(n)
  PROVE  HistoryTypes'
<1>1. m_proposalID'[n].number \in Nat
  BY RoleFacts, FieldTypes DEF StateInv, ProposerTypeOK
<1> QED BY <1>1 DEF RoundBegun, TypeInv, HistoryTypes

AnyAction(n) ==
  \/ OwnerPrepares(n) \/ OwnerActs(n) \/ TimePasses(n) \/ PulseTimer(n)
  \/ HeartbeatArrives(n) \/ PrepareArrives(n) \/ PromiseArrives(n)
  \/ StrayPromiseArrives(n) \/ PrepareNACKArrives(n) \/ AcceptNACKArrives(n)
  \/ PingArrives(n)

LEMMA ActionsKeepState ==
  ASSUME StateInv, NEW n \in Node, AnyAction(n)
  PROVE  StateInv'
BY OwnerPreparesTypes, OwnerActsTypes, TimePassesTypes, PulseTimerTypes,
   HeartbeatArrivesTypes, PrepareArrivesTypes, PromiseArrivesTypes,
   StrayPromiseArrivesTypes, PrepareNACKArrivesTypes, AcceptNACKArrivesTypes,
   PingArrivesTypes DEF AnyAction

\* The acceptor a refusal comes from.
LEMMA RefusalFields ==
  ASSUME StateInv, NEW n \in Node, AcceptNACKArrives(n)
  PROVE  \E id \in ValidIDs, promisedID \in ForeignIDs, a \in Node :
           /\ receiveNodeAcceptNACK(n, a, id, promisedID)
           /\ refused' = WithAnswer(refused, n, a, id)
           /\ UNCHANGED <<round, promised, restarts>>
<1>1. PICK request \in Requests(n, "accept"), promisedID \in ForeignIDs :
        \E a \in request.acceptors :
          /\ receiveNodeAcceptNACK(n, a, request.id, promisedID)
          /\ refused' = WithAnswer(refused, n, a, request.id)
          /\ UNCHANGED <<round, promised, restarts>>
  BY DEF AcceptNACKArrives
<1>2. request.id \in ValidIDs /\ request.acceptors \in SUBSET Node
  BY RequestFields DEF Requests, StateInv, Sent
<1> QED BY <1>1, <1>2

LEMMA ActionsKeepHistory ==
  ASSUME TypeInv, StateInv', NEW n \in Node, AnyAction(n)
  PROVE  HistoryTypes'
<1>1. CASE UNCHANGED historyVars
  BY <1>1 DEF historyVars, TypeInv, HistoryTypes
<1>2. CASE RoundBegun(n)
  BY <1>2, RoundBegunTypes
<1>3. CASE PromiseArrives(n)
  <2>1. PICK id \in ValidIDs, a \in Node :
          /\ promised' = WithAnswer(promised, n, a, id)
          /\ UNCHANGED <<round, refused, restarts>>
    BY <1>3, PromiseFields DEF TypeInv
  <2> QED BY <2>1, AnswerIsAdded DEF TypeInv, HistoryTypes
<1>4. CASE AcceptNACKArrives(n)
  <2>1. PICK id \in ValidIDs, a \in Node :
          /\ refused' = WithAnswer(refused, n, a, id)
          /\ UNCHANGED <<round, promised, restarts>>
    BY <1>4, RefusalFields DEF TypeInv
  <2> QED BY <2>1, AnswerIsAdded DEF TypeInv, HistoryTypes
<1> QED BY <1>1, <1>2, <1>3, <1>4 DEF AnyAction, OwnerPrepares, OwnerActs, TimePasses,
           PulseTimer, HeartbeatArrives, PrepareArrives, StrayPromiseArrives,
           PrepareNACKArrives, PingArrives

LEMMA InitTypes == Init => TypeInv
<1> SUFFICES ASSUME Init PROVE TypeInv
  OBVIOUS
<1>1. AcceptorInv /\ NothingIsSaved
  BY AcceptorInitInv DEF Init, NodeInit, AcceptorInit, NothingIsSaved
<1>2. ProposerTypeOK
  BY ProposerInitTypes DEF Init, NodeInit
<1>3. OwnUIDs /\ copyLeads = m_leader
  BY DEF Init, NodeInit, ProposerInit, OwnUIDs
<1>4. StateInv
  BY <1>1, <1>2, <1>3, RoleFacts DEF Init, NodeInit, StateInv, ProposerTypeOK,
     LeaderTypes, LeaderIsKnown, RestOfTypes
<1>5. HistoryTypes
  BY Foreign DEF Init, HistoryTypes
<1> QED BY <1>4, <1>5 DEF TypeInv

LEMMA NextTypes ==
  TypeInv /\ [Next \/ \E n \in Observers : RestartNode(n)]_vars => TypeInv'
<1> SUFFICES ASSUME TypeInv, [Next \/ \E n \in Observers : RestartNode(n)]_vars
             PROVE  TypeInv'
  OBVIOUS
<1>1. CASE UNCHANGED vars
  <2>1. AcceptorInv' /\ NothingIsSaved'
    BY <1>1, SameAcceptor DEF vars, TypeInv
  <2> QED BY <1>1, <2>1 DEF vars, proposerVars, nodeVars, leaderVars, clockVars,
             historyVars, TypeInv, StateInv, HistoryTypes, ProposerTypeOK, OwnUIDs,
             LeaderTypes, LeaderIsKnown, RestOfTypes
<1>2. CASE Next
  <2>1. PICK n \in Observers : AnyAction(n)
    BY <1>2 DEF Next, AnyAction
  <2> QED BY <2>1, Foreign, ActionsKeepState, ActionsKeepHistory DEF TypeInv
<1>3. CASE \E n \in Observers : RestartNode(n)
  <2>1. PICK n \in Observers : RestartNode(n)
    BY <1>3
  <2>2. StateInv'
    BY <2>1, Foreign, RestartTypes DEF TypeInv
  <2>3. HistoryTypes'
    BY <2>1, Foreign DEF RestartNode, TypeInv, HistoryTypes
  <2> QED BY <2>2, <2>3 DEF TypeInv
<1> QED BY <1>1, <1>2, <1>3

(***************************************************************************)
(* Whatever arrives and whenever its processes restart, what a node holds  *)
(* and sends is of its type; its identifier keeps its own UID; and it      *)
(* knows the UID and the identifier of its leader, or neither.             *)
(***************************************************************************)
THEOREM NodeTypeCorrect == (Spec => []TypeOK) /\ (SpecWithRestarts => []TypeOK)
<1>1. TypeInv /\ [Next]_vars => TypeInv'
  BY NextTypes
<1>2. Spec => []TypeOK
  BY <1>1, InitTypes, TypeInvImpliesTypes, PTL DEF Spec
<1>3. SpecWithRestarts => []TypeOK
  BY InitTypes, NextTypes, TypeInvImpliesTypes, PTL DEF SpecWithRestarts
<1> QED BY <1>2, <1>3

-----------------------------------------------------------------------------
(***************************************************************************)
(* Whom a node follows, step by step.                                      *)
(***************************************************************************)
LEMMA FollowRises ==
  ASSUME StateInv, NEW n \in Node, NEW uid, NEW id \in ValidIDs, Follow(n, uid, id)
  PROVE  Geq(m_leaderProposalID'[n], m_leaderProposalID[n])
<1>1. id \in ProposalIDs /\ m_leaderProposalID[n] \in ProposalIDs
  BY NodeFields, RoleFacts
<1>2. m_leaderProposalID'[n] = IF Outranks(n, id) THEN id ELSE m_leaderProposalID[n]
  BY DEF Follow, StateInv, LeaderTypes
<1>3. m_leaderProposalID[n] \in ValidIDs \cup {NullID}
  BY DEF StateInv, LeaderTypes, LeaderIsKnown
<1> QED BY <1>1, <1>2, <1>3, ValidHasUID, NullIsLeast, GtImpliesGeq, GeqReflexive
        DEF Outranks

Deposed(n) ==
  /\ m_leader[n] /\ ~m_leader'[n]
  /\ m_leaderUID'[n] = NoUID /\ m_leaderProposalID'[n] = NullID
  /\ Cardinality(m_acceptNACKs'[n]) >= QuorumSize

Rises(n) == Geq(m_leaderProposalID'[n], m_leaderProposalID[n])

LEMMA LeaderRisesOrFalls ==
  ASSUME StateInv, NEW q \in Node, NEW n \in Node,
         AnyAction(n)
  PROVE  Rises(q) \/ Deposed(q)
<1>0. m_leaderProposalID[q] \in ProposalIDs
  BY NodeFields
<1>1. CASE UNCHANGED m_leaderProposalID
  BY <1>0, <1>1, GeqReflexive DEF Rises
<1>2. ASSUME PromiseArrives(n) \/ StrayPromiseArrives(n)
      PROVE  \/ UNCHANGED m_leaderProposalID
             \/ /\ m_leaderUID[n] = NoUID
                /\ m_leaderProposalID' =
                     [m_leaderProposalID EXCEPT ![n] = m_proposalID'[n]]
  BY <1>2 DEF PromiseArrives, StrayPromiseArrives, receiveNodePromise, leaderVars
<1>3. \/ UNCHANGED m_leaderProposalID
      \/ OwnerActs(n) /\ pulse(n)
      \/ HeartbeatArrives(n) \/ AcceptNACKArrives(n)
      \/ PromiseArrives(n) \/ StrayPromiseArrives(n)
  BY DEF AnyAction, OwnerPrepares, OwnerActs, prepare, acquireLeadership, pollLiveness,
     repeatPrepare, setNodeActive, TimePasses, LeaderTimesOut, PrepareWindowCloses,
     PulseTimer, pulseOfCopy, PrepareArrives, receiveNodePrepare, PrepareNACKArrives,
     receiveNodePrepareNACK, PingArrives, nodeVars, leaderVars
<1>4. CASE q # n
  <2>1. \/ UNCHANGED m_leaderProposalID
        \/ \E id : m_leaderProposalID' = [m_leaderProposalID EXCEPT ![n] = id]
    <3>1. ASSUME NEW uid, NEW i, Follow(n, uid, i)
          PROVE  \E id : m_leaderProposalID' = [m_leaderProposalID EXCEPT ![n] = id]
      BY <3>1 DEF Follow
    <3>2. CASE OwnerActs(n) /\ pulse(n)
      BY <3>1, <3>2 DEF pulse
    <3>3. CASE HeartbeatArrives(n)
      <4>1. PICK i \in ForeignIDs : Follow(n, i.uid, i)
        BY <3>3 DEF HeartbeatArrives, receiveHeartbeat
      <4> QED BY <3>1, <4>1
    <3>4. CASE PromiseArrives(n) \/ StrayPromiseArrives(n)
      BY <1>2, <3>4
    <3>5. CASE AcceptNACKArrives(n)
      <4>1. PICK from, id, promisedID : receiveNodeAcceptNACK(n, from, id, promisedID)
        BY <3>5 DEF AcceptNACKArrives
      <4> QED BY <4>1 DEF receiveNodeAcceptNACK, leaderVars
    <3> QED BY <1>3, <3>2, <3>3, <3>4, <3>5
  <2>2. m_leaderProposalID'[q] = m_leaderProposalID[q]
    BY <1>4, <2>1 DEF StateInv, LeaderTypes
  <2> QED BY <1>0, <2>2, GeqReflexive DEF Rises
<1>5. CASE q = n
  <2>1. CASE OwnerActs(n) /\ pulse(n)
    BY <1>5, <2>1, NodeFields, FollowRises DEF pulse, Rises
  <2>2. CASE HeartbeatArrives(n)
    BY <1>5, <2>2, Foreign, FollowRises DEF HeartbeatArrives, receiveHeartbeat, Rises
  <2>3. CASE PromiseArrives(n) \/ StrayPromiseArrives(n)
    <3>1. m_proposalID'[n] \in ProposalIDs
      BY <2>3, PromiseArrivesTypes, StrayPromiseArrivesTypes, RoleFacts
         DEF StateInv, ProposerTypeOK
    <3>2. CASE m_leaderUID[n] = NoUID /\ m_leaderProposalID' =
                 [m_leaderProposalID EXCEPT ![n] = m_proposalID'[n]]
      <4>1. m_leaderProposalID[n] = NullID /\ m_leaderProposalID'[n] = m_proposalID'[n]
        BY <3>2 DEF StateInv, LeaderTypes, LeaderIsKnown
      <4> QED BY <1>5, <3>1, <4>1, NullIsLeast DEF Rises
    <3> QED BY <1>1, <1>2, <2>3, <3>2
  <2>4. CASE AcceptNACKArrives(n)
    <3>1. PICK from, id, promisedID : receiveNodeAcceptNACK(n, from, id, promisedID)
      BY <2>4 DEF AcceptNACKArrives
    <3>2. \/ m_leaderProposalID'[n] = m_leaderProposalID[n]
          \/ Deposed(n)
      BY <3>1 DEF receiveNodeAcceptNACK, Deposed, StateInv, LeaderTypes, ProposerTypeOK,
         RestOfTypes
    <3> QED BY <1>0, <1>5, <3>2, GeqReflexive DEF Rises
  <2> QED BY <1>1, <1>3, <2>1, <2>2, <2>3, <2>4
<1> QED BY <1>4, <1>5

(***************************************************************************)
(* A node goes over to a leader of a lower identifier only after a quorum  *)
(* of refusals has taken the lead from itself.                             *)
(***************************************************************************)
THEOREM LeaderOnlyRises == Spec => LeaderNeverRegresses
<1>1. TypeInv /\ [Next]_vars => TypeInv'
  BY NextTypes
<1>2. TypeInv /\ [Next]_vars =>
        [\A n \in Observers :
           \/ Geq(m_leaderProposalID'[n], m_leaderProposalID[n])
           \/ /\ m_leader[n] /\ ~m_leader'[n]
              /\ m_leaderUID'[n] = NoUID /\ m_leaderProposalID'[n] = NullID
              /\ Cardinality(m_acceptNACKs'[n]) >= QuorumSize]_vars
  <2> SUFFICES ASSUME TypeInv, Next
               PROVE  \A q \in Observers : Rises(q) \/ Deposed(q)
    BY DEF Rises, Deposed
  <2>1. PICK n \in Observers : AnyAction(n)
    BY DEF Next, AnyAction
  <2> QED BY <2>1, Foreign, LeaderRisesOrFalls DEF TypeInv
<1> QED BY <1>1, <1>2, InitTypes, PTL DEF Spec, LeaderNeverRegresses

-----------------------------------------------------------------------------
(***************************************************************************)
(* The inductive invariant for the rounds.  A node's identifier may run    *)
(* ahead of the round it began, but never falls behind it.  An answer      *)
(* counts only under the identifier that the node has then: it is one of   *)
(* its present round, and so every acceptor counted has answered in that   *)
(* round.  A leader was elected in its present round, or was leader when   *)
(* the timer's copy was made and has begun no round since.                 *)
(***************************************************************************)
RoundsAreBehind == \A n \in Node : round[n] <= m_proposalID[n].number

CountedAnswered ==
  \A n \in Node : /\ m_promisesReceived[n] \subseteq promised[n]
                  /\ m_acceptNACKs[n] \subseteq refused[n]

Elected(n) ==
  (copyLeads[n] /\ round[n] = 0) \/ Cardinality(promised[n]) >= QuorumSize

LeaderWasElected == \A n \in Node : m_leader[n] => Elected(n)

RoundInv == RoundsAreBehind /\ CountedAnswered /\ LeaderWasElected

LEMMA InitRounds == Init => RoundInv
<1> SUFFICES ASSUME Init, NEW n \in Node
             PROVE  /\ round[n] <= m_proposalID[n].number
                    /\ m_promisesReceived[n] \subseteq promised[n]
                    /\ m_acceptNACKs[n] \subseteq refused[n]
                    /\ m_leader[n] => Elected(n)
  BY DEF RoundInv, RoundsAreBehind, CountedAnswered, LeaderWasElected
<1> QED BY DEF Init, NodeInit, ProposerInit, Elected

(***************************************************************************)
(* A step within a round: the identifier does not fall, answers are only   *)
(* added, and nobody becomes leader but by a quorum.                       *)
(***************************************************************************)
LEMMA SameRoundKeeps ==
  ASSUME RoundInv, TypeInv, TypeInv', UNCHANGED <<round, copyLeads>>,
         \A n \in Node : m_proposalID[n].number <= m_proposalID'[n].number,
         \A n \in Node : promised[n] \subseteq promised'[n],
         \A n \in Node : m_promisesReceived'[n] \subseteq promised'[n],
         \A n \in Node : m_acceptNACKs'[n] \subseteq refused'[n],
         \A n \in Node : m_leader'[n] => m_leader[n] \/ QuorumReached(promised'[n])
  PROVE  RoundInv'
<1>1. RoundsAreBehind'
  <2> SUFFICES ASSUME NEW n \in Node PROVE round'[n] <= m_proposalID'[n].number
    BY DEF RoundsAreBehind
  <2>1. /\ round[n] \in Nat /\ m_proposalID[n].number \in Nat
        /\ m_proposalID'[n].number \in Nat
    BY RoleFacts, FieldTypes DEF TypeInv, HistoryTypes, StateInv, ProposerTypeOK
  <2> QED BY <2>1 DEF RoundInv, RoundsAreBehind
<1>2. CountedAnswered'
  BY DEF CountedAnswered
<1>3. LeaderWasElected'
  <2> SUFFICES ASSUME NEW n \in Node, m_leader'[n] PROVE Elected(n)'
    BY DEF LeaderWasElected
  <2>1. CASE QuorumReached(promised'[n])
    BY <2>1 DEF QuorumReached, Elected
  <2>2. CASE m_leader[n] /\ QuorumReached(promised[n])
    <3>1. QuorumReached(promised'[n])
      BY <2>2, QuorumGrows DEF TypeInv, HistoryTypes
    <3> QED BY <3>1 DEF QuorumReached, Elected
  <2>3. CASE m_leader[n] /\ copyLeads[n] /\ round[n] = 0
    BY <2>3 DEF Elected
  <2> QED BY <2>1, <2>2, <2>3 DEF RoundInv, LeaderWasElected, Elected, QuorumReached
<1> QED BY <1>1, <1>2, <1>3 DEF RoundInv

\* A step in which nobody is counted and nobody becomes leader.
LEMMA QuietStepKeeps ==
  ASSUME RoundInv, TypeInv, TypeInv', UNCHANGED <<historyVars, copyLeads>>,
         UNCHANGED <<m_promisesReceived, m_acceptNACKs>>,
         \A n \in Node : m_proposalID[n].number <= m_proposalID'[n].number,
         \A n \in Node : m_leader'[n] => m_leader[n]
  PROVE  RoundInv'
BY SameRoundKeeps DEF historyVars, RoundInv, CountedAnswered

\* An identifier is observed, at most.
LEMMA NumbersGrow ==
  ASSUME StateInv, NEW n \in Node, NEW id \in ValidIDs,
         \/ m_proposalID' = m_proposalID
         \/ m_proposalID' = [m_proposalID EXCEPT ![n] = Observed(n, id)],
         NEW q \in Node
  PROVE  m_proposalID[q].number <= m_proposalID'[q].number
<1>1. /\ m_proposalID[q].number \in Nat
      /\ m_proposalID[n].number <= Observed(n, id).number
  BY NodeFields, ObservedFields
<1> QED BY <1>1 DEF StateInv, ProposerTypeOK

LEMMA NothingToDo ==
  ASSUME RoundInv, TypeInv, TypeInv', UNCHANGED <<historyVars, copyLeads>>,
         UNCHANGED <<m_promisesReceived, m_acceptNACKs, m_proposalID, m_leader>>
  PROVE  RoundInv'
<1>1. \A q \in Node : m_proposalID[q].number <= m_proposalID'[q].number
  BY NodeFields DEF TypeInv
<1> QED BY <1>1, QuietStepKeeps

LEMMA QuietActionsKeep ==
  ASSUME RoundInv, TypeInv, TypeInv', NEW n \in Node,
         \/ OwnerActs(n) \/ TimePasses(n) \/ PulseTimer(n)
         \/ HeartbeatArrives(n) \/ PrepareArrives(n) \/ PingArrives(n)
  PROVE  RoundInv'
<1>1. CASE OwnerActs(n) \/ TimePasses(n) \/ PulseTimer(n) \/ PrepareArrives(n)
           \/ PingArrives(n)
  <2>1. \/ ~OwnerActs(n)
        \/ repeatPrepare(n) \/ (leaderAlive[n] /\ acquireLeadership(n)) \/ pulse(n)
        \/ setNodeActive(n, ~acceptorActive[n])
    BY DEF OwnerActs
  <2>2. UNCHANGED <<m_promisesReceived, m_acceptNACKs, m_proposalID, m_leader, copyLeads>>
    BY <1>1, <2>1 DEF repeatPrepare, prepareAgain, acquireLeadership, pulse,
       setNodeActive, TimePasses, LeaderTimesOut, PrepareWindowCloses, PulseTimer,
       pulseOfCopy, PrepareArrives, receiveNodePrepare, PingArrives,
       HandlePingMessage, nodeVars, proposerVars
  <2>3. UNCHANGED historyVars
    BY <1>1 DEF OwnerActs, TimePasses, PulseTimer, PrepareArrives, PingArrives, historyVars
  <2> QED BY <2>2, <2>3, NothingToDo
<1>2. CASE HeartbeatArrives(n)
  <2>1. PICK id \in ForeignIDs : receiveHeartbeat(n, id.uid, id)
    BY <1>2 DEF HeartbeatArrives
  <2>2. /\ UNCHANGED <<m_promisesReceived, m_acceptNACKs, copyLeads, historyVars>>
        /\ \E deposed \in BOOLEAN :
             m_leader' = [m_leader EXCEPT ![n] = @ /\ ~deposed]
        /\ \/ m_proposalID' = m_proposalID
           \/ m_proposalID' = [m_proposalID EXCEPT ![n] = Observed(n, id)]
    BY <1>2, <2>1 DEF HeartbeatArrives, receiveHeartbeat
  <2>3. \A q \in Node : m_leader'[q] => m_leader[q]
    BY <2>2 DEF TypeInv, StateInv, ProposerTypeOK
  <2>4. \A q \in Node : m_proposalID[q].number <= m_proposalID'[q].number
    BY <2>2, Foreign, NumbersGrow DEF TypeInv
  <2> QED BY <2>2, <2>3, <2>4, QuietStepKeeps
<1> QED BY <1>1, <1>2

(***************************************************************************)
(* A new round starts with nobody counted, and without a leader.           *)
(***************************************************************************)
LEMMA NewRoundKeeps ==
  ASSUME RoundInv, TypeInv, TypeInv', NEW n \in Node, NEW id \in ValidIDs,
         beginRound(n, id), m_acceptNACKs' = NACKsAfter(n), RoundBegun(n),
         UNCHANGED copyLeads
  PROVE  RoundInv'
<1>1. /\ m_leader' = [m_leader EXCEPT ![n] = FALSE]
      /\ m_promisesReceived' = [m_promisesReceived EXCEPT ![n] = {}]
      /\ m_proposalID' = [m_proposalID EXCEPT ![n] = id]
      /\ m_acceptNACKs' = [m_acceptNACKs EXCEPT ![n] = {}]
      /\ round' = [round EXCEPT ![n] = m_proposalID'[n].number]
      /\ promised' = [promised EXCEPT ![n] = {}]
      /\ refused' = [refused EXCEPT ![n] = {}]
  BY DEF beginRound, NACKsAfter, RoundBegun
<1>2. ASSUME NEW q \in Node
      PROVE  /\ round'[q] <= m_proposalID'[q].number
             /\ m_promisesReceived'[q] \subseteq promised'[q]
             /\ m_acceptNACKs'[q] \subseteq refused'[q]
             /\ m_leader'[q] => Elected(q)'
  <2>1. CASE q = n
    <3>1. /\ ~m_leader'[n] /\ m_promisesReceived'[n] = {} /\ m_acceptNACKs'[n] = {}
          /\ round'[n] = m_proposalID'[n].number
      BY <1>1 DEF TypeInv, StateInv, HistoryTypes, ProposerTypeOK, RestOfTypes
    <3>2. m_proposalID'[n].number \in Nat
      BY RoleFacts, FieldTypes DEF TypeInv, StateInv, ProposerTypeOK
    <3> QED BY <2>1, <3>1, <3>2
  <2>2. CASE q # n
    <3>1. /\ m_leader'[q] = m_leader[q] /\ m_promisesReceived'[q] = m_promisesReceived[q]
          /\ m_proposalID'[q] = m_proposalID[q] /\ m_acceptNACKs'[q] = m_acceptNACKs[q]
          /\ round'[q] = round[q] /\ promised'[q] = promised[q]
          /\ refused'[q] = refused[q]
      BY <1>1, <2>2 DEF TypeInv, StateInv, HistoryTypes, ProposerTypeOK, RestOfTypes
    <3> QED BY <3>1 DEF RoundInv, RoundsAreBehind, CountedAnswered, LeaderWasElected,
               Elected
  <2> QED BY <2>1, <2>2
<1> QED BY <1>2 DEF RoundInv, RoundsAreBehind, CountedAnswered, LeaderWasElected

LEMMA OwnerPreparesKeeps ==
  ASSUME RoundInv, TypeInv, TypeInv', NEW n \in Node, OwnerPrepares(n)
  PROVE  RoundInv'
<1>1. newRound(n) /\ RoundBegun(n) /\ UNCHANGED copyLeads
  BY DEF OwnerPrepares, prepare, acquireLeadership, pollLiveness
<1>2. incrementNumber(m_proposalID[n]) \in ValidIDs
  BY NodeFields, NextNumber DEF TypeInv
<1> QED BY <1>1, <1>2, NewRoundKeeps DEF newRound, prepareNext

LEMMA PrepareNACKArrivesKeeps ==
  ASSUME RoundInv, TypeInv, TypeInv', NEW n \in Node, PrepareNACKArrives(n)
  PROVE  RoundInv'
<1>1. PICK promisedID \in ValidIDs : receiveNodePrepareNACK(n, promisedID)
  BY HigherAndAsked, Foreign DEF PrepareNACKArrives, TypeInv
<1>2. CASE m_acquiringLeadership[n]
  <2> DEFINE id == incrementNumber(Observed(n, promisedID))
  <2>1. id \in ValidIDs
    BY ObservedFields, NextNumber DEF TypeInv
  <2>2. beginRound(n, id) /\ m_acceptNACKs' = NACKsAfter(n) /\ UNCHANGED copyLeads
    BY <1>1, <1>2 DEF receiveNodePrepareNACK
  <2>3. RoundBegun(n)
    BY <1>2 DEF PrepareNACKArrives
  <2> HIDE DEF id
  <2> QED BY <2>1, <2>2, <2>3, NewRoundKeeps
<1>3. CASE ~m_acquiringLeadership[n]
  <2>1. /\ receivePrepareNACK(n, promisedID)
        /\ UNCHANGED <<m_acceptNACKs, copyLeads, historyVars>>
    BY <1>1, <1>3 DEF receiveNodePrepareNACK, PrepareNACKArrives, nodeVars
  <2>2. /\ UNCHANGED <<m_promisesReceived, m_leader>>
        /\ m_proposalID' = [m_proposalID EXCEPT ![n] = Observed(n, promisedID)]
    BY <2>1 DEF receivePrepareNACK, receiveNACK
  <2>3. \A q \in Node : m_proposalID[q].number <= m_proposalID'[q].number
    BY <2>2, NumbersGrow DEF TypeInv
  <2> QED BY <2>1, <2>2, <2>3, QuietStepKeeps
<1> QED BY <1>2, <1>3

(***************************************************************************)
(* A promise counts only under the identifier that the node has once it    *)
(* has observed it, which is one of the present round: whoever is counted  *)
(* has promised in this round.                                             *)
(***************************************************************************)
LEMMA AnswerOfThisRound ==
  ASSUME RoundInv, TypeInv, NEW n \in Node, NEW id \in ValidIDs, NEW other \in ValidIDs,
         id = Observed(n, other)
  PROVE  id.number >= round[n]
<1>1. /\ round[n] \in Nat /\ m_proposalID[n].number \in Nat /\ id.number \in Nat
      /\ round[n] <= m_proposalID[n].number
      /\ m_proposalID[n].number <= Observed(n, other).number
  BY NodeFields, ObservedFields, RoleFacts, FieldTypes
     DEF TypeInv, HistoryTypes, RoundInv, RoundsAreBehind
<1> QED BY <1>1

LEMMA ReceivedPromiseKeeps ==
  ASSUME RoundInv, TypeInv, TypeInv', NEW n \in Node, NEW a \in Node,
         NEW id \in ValidIDs, NEW acceptID, NEW acceptValue,
         receivePromise(n, a, id, acceptID, acceptValue),
         UNCHANGED <<m_acceptNACKs, copyLeads, round, refused>>,
         \A q \in Node : promised[q] \subseteq promised'[q],
         id = Observed(n, id) => a \in promised'[n]
  PROVE  RoundInv'
<1>1. /\ m_proposalID' = [m_proposalID EXCEPT ![n] = Observed(n, id)]
      /\ \/ UNCHANGED <<m_promisesReceived, m_leader>>
         \/ /\ id = Observed(n, id)
            /\ m_promisesReceived' = [m_promisesReceived EXCEPT ![n] = @ \cup {a}]
            /\ m_leader' = [m_leader EXCEPT
                  ![n] = @ \/ QuorumReached(m_promisesReceived[n] \cup {a})]
  BY DEF receivePromise, IgnorePromise, CountPromise, Counts
<1>2. \A q \in Node : m_proposalID[q].number <= m_proposalID'[q].number
  BY <1>1, NumbersGrow DEF TypeInv
<1>3. \A q \in Node : m_promisesReceived'[q] \subseteq promised'[q]
  BY <1>1 DEF RoundInv, CountedAnswered, TypeInv, StateInv, ProposerTypeOK
<1>4. ASSUME NEW q \in Node, m_leader'[q]
      PROVE  m_leader[q] \/ QuorumReached(promised'[q])
  <2>1. \/ m_leader[q]
        \/ q = n /\ QuorumReached(m_promisesReceived'[n])
    <3> DEFINE promises == m_promisesReceived[n] \cup {a}
    <3>1. CASE UNCHANGED m_leader
      BY <1>4, <3>1
    <3>2. CASE /\ m_promisesReceived' = [m_promisesReceived EXCEPT ![n] = promises]
               /\ m_leader' = [m_leader EXCEPT ![n] = @ \/ QuorumReached(promises)]
      <4>1. m_promisesReceived'[n] = promises
        BY <3>2 DEF TypeInv, StateInv, ProposerTypeOK
      <4> HIDE DEF promises
      <4>2. m_leader[q] \/ (q = n /\ QuorumReached(promises))
        BY <1>4, <3>2 DEF TypeInv, StateInv, ProposerTypeOK
      <4> QED BY <4>1, <4>2
    <3> QED BY <1>1, <3>1, <3>2
  <2>2. CASE q = n /\ QuorumReached(m_promisesReceived'[n])
    BY <1>3, <2>2, QuorumGrows DEF TypeInv, HistoryTypes
  <2> QED BY <2>1, <2>2
<1>5. \A q \in Node : m_acceptNACKs'[q] \subseteq refused'[q]
  BY DEF RoundInv, CountedAnswered
<1> QED BY <1>2, <1>3, <1>4, <1>5, SameRoundKeeps

LEMMA PromiseArrivesKeeps ==
  ASSUME RoundInv, TypeInv, TypeInv', NEW n \in Node, n \in Observers,
         PromiseArrives(n) \/ StrayPromiseArrives(n)
  PROVE  RoundInv'
<1>1. CASE PromiseArrives(n)
  <2>1. PICK id \in ValidIDs, a \in Node, acceptID \in ProposalIDs,
             acceptValue \in Value \cup {NoValue} :
          /\ receiveNodePromise(n, a, id, acceptID, acceptValue)
          /\ promised' = WithAnswer(promised, n, a, id)
          /\ UNCHANGED <<round, refused, restarts>>
    BY <1>1, PromiseFields DEF TypeInv
  <2>2. /\ \A q \in Node : promised[q] \subseteq promised'[q]
        /\ id = Observed(n, id) => a \in promised'[n]
    BY <2>1, AnswerIsAdded, AnswerOfThisRound DEF TypeInv, HistoryTypes
  <2>3. /\ receivePromise(n, a, id, acceptID, acceptValue)
        /\ UNCHANGED <<m_acceptNACKs, copyLeads>>
    BY <2>1 DEF receiveNodePromise
  <2> QED BY <2>1, <2>2, <2>3, ReceivedPromiseKeeps
\* The identifier of another node is never its own, and so is not counted.
<1>2. CASE StrayPromiseArrives(n)
  <2>1. PICK id \in Higher(n), a \in Asked(n) :
          /\ receiveNodePromise(n, a, id, NullID, NoValue)
          /\ UNCHANGED historyVars
    BY <1>2 DEF StrayPromiseArrives
  <2>2. id \in ValidIDs /\ a \in Node /\ id.uid # n
    BY HigherAndAsked, Foreign, EnvAssumption DEF TypeInv, EnvAssumption
  <2>3. Observed(n, id).uid = n
    BY <2>2, ObservedFields DEF TypeInv
  <2>4. /\ receivePromise(n, a, id, NullID, NoValue)
        /\ UNCHANGED <<m_acceptNACKs, copyLeads, round, refused, promised>>
    BY <2>1 DEF receiveNodePromise, historyVars
  <2>5. id # Observed(n, id)
    BY <2>2, <2>3
  <2> QED BY <2>2, <2>4, <2>5, ReceivedPromiseKeeps
<1> QED BY <1>1, <1>2

(***************************************************************************)
(* A refusal counts only under the identifier that was refused, which then *)
(* is the node's own; late ones leave the refusals as they are.            *)
(***************************************************************************)
LEMMA AcceptNACKArrivesKeeps ==
  ASSUME RoundInv, TypeInv, TypeInv', NEW n \in Node, AcceptNACKArrives(n)
  PROVE  RoundInv'
<1>1. PICK id \in ValidIDs, promisedID \in ForeignIDs, a \in Node :
        /\ receiveNodeAcceptNACK(n, a, id, promisedID)
        /\ refused' = WithAnswer(refused, n, a, id)
        /\ UNCHANGED <<round, promised, restarts>>
  BY RefusalFields DEF TypeInv
<1> DEFINE mine == Observed(n, promisedID)
           refusals == IF id = mine THEN m_acceptNACKs[n] \cup {a} ELSE m_acceptNACKs[n]
           deposed == m_leader[n] /\ Cardinality(refusals) >= QuorumSize
<1>2. /\ m_acceptNACKs' = [m_acceptNACKs EXCEPT ![n] = refusals]
      /\ m_leader' = [m_leader EXCEPT ![n] = @ /\ ~deposed]
      /\ m_proposalID' = [m_proposalID EXCEPT ![n] =
                            IF deposed THEN CatchUp(mine, id) ELSE mine]
      /\ UNCHANGED <<m_promisesReceived, copyLeads>>
  BY <1>1 DEF receiveNodeAcceptNACK
<1>3. /\ \A q \in Node : refused[q] \subseteq refused'[q]
      /\ id = mine => a \in refused'[n]
  <2>1. promisedID \in ValidIDs
    BY Foreign
  <2> QED BY <1>1, <2>1, AnswerIsAdded, AnswerOfThisRound DEF TypeInv, HistoryTypes
<1>4. /\ mine \in ValidIDs /\ m_proposalID[n].number <= mine.number
      /\ mine.number <= CatchUp(mine, id).number /\ CatchUp(mine, id) \in ValidIDs
  BY Foreign, ObservedFields, CatchUpKeepsOwner DEF TypeInv
<1>5. \A q \in Node : m_acceptNACKs'[q] \subseteq refused'[q]
  BY <1>2, <1>3 DEF RoundInv, CountedAnswered, TypeInv, StateInv, RestOfTypes
<1> HIDE DEF mine, refusals, deposed
<1>6. ASSUME NEW q \in Node PROVE m_proposalID[q].number <= m_proposalID'[q].number
  <2>1. /\ m_proposalID[q].number \in Nat /\ m_proposalID[n].number \in Nat
        /\ mine.number \in Nat /\ CatchUp(mine, id).number \in Nat
    BY <1>4, NodeFields, RoleFacts, FieldTypes DEF TypeInv
  <2> QED BY <1>2, <1>4, <2>1 DEF TypeInv, StateInv, ProposerTypeOK
<1>7. \A q \in Node : m_leader'[q] => m_leader[q]
  BY <1>2 DEF TypeInv, StateInv, ProposerTypeOK
<1>8. \A q \in Node : m_promisesReceived'[q] \subseteq promised'[q]
  BY <1>1, <1>2 DEF RoundInv, CountedAnswered
<1> QED BY <1>1, <1>2, <1>5, <1>6, <1>7, <1>8, SameRoundKeeps

LEMMA NextRounds ==
  ASSUME RoundInv, TypeInv, TypeInv', [Next]_vars
  PROVE  RoundInv'
<1>1. CASE UNCHANGED vars
  BY <1>1, NothingToDo DEF vars, proposerVars, nodeVars
<1>2. CASE Next
  <2>1. PICK n \in Observers : AnyAction(n)
    BY <1>2 DEF Next, AnyAction
  <2> QED BY <2>1, Foreign, QuietActionsKeep, OwnerPreparesKeeps, PromiseArrivesKeeps,
             PrepareNACKArrivesKeeps, AcceptNACKArrivesKeeps DEF AnyAction
<1> QED BY <1>1, <1>2

-----------------------------------------------------------------------------
(***************************************************************************)
(* However late and however often refusals arrive, those that are counted  *)
(* towards deposing the leader are refusals of its present round.          *)
(***************************************************************************)
THEOREM RefusalsAreOfOneRound == Spec => []RefusalsOfOneRound
<1>1. Init => TypeInv /\ RoundInv
  BY InitTypes, InitRounds
<1>2. TypeInv /\ RoundInv /\ [Next]_vars => (TypeInv /\ RoundInv)'
  BY NextTypes, NextRounds
<1>3. RoundInv => RefusalsOfOneRound
  BY Foreign DEF RoundInv, CountedAnswered, RefusalsOfOneRound
<1> QED BY <1>1, <1>2, <1>3, PTL DEF Spec

\* Every heartbeat is that of a leader, or of the timer's copy.
LEMMA WhoAnnounces ==
  ASSUME TypeInv, NEW n \in Node, AnyAction(n), NEW q \in Node,
         NEW id \in heartbeats'[q] \ heartbeats[q]
  PROVE  \/ m_leader'[q] /\ id = m_proposalID'[q]
         \/ copyLeads[q] /\ id.number = 0
<1>0. ASSUME NEW i, sendHeartbeat(n, i)
      PROVE  q = n /\ id = i
  BY <1>0 DEF sendHeartbeat, TypeInv, StateInv, RestOfTypes
<1>1. CASE OwnerActs(n) /\ pulse(n)
  BY <1>0, <1>1 DEF pulse, proposerVars
<1>2. CASE PulseTimer(n)
  BY <1>0, <1>2 DEF PulseTimer, pulseOfCopy
<1>3. CASE PromiseArrives(n) \/ StrayPromiseArrives(n)
  BY <1>0, <1>3 DEF PromiseArrives, StrayPromiseArrives, receiveNodePromise
<1>4. \/ UNCHANGED heartbeats
      \/ OwnerActs(n) /\ pulse(n)
      \/ PulseTimer(n) \/ PromiseArrives(n) \/ StrayPromiseArrives(n)
  <2>1. OwnerPrepares(n) => UNCHANGED heartbeats
    BY DEF OwnerPrepares, prepare, acquireLeadership, pollLiveness
  <2>2. OwnerActs(n) => UNCHANGED heartbeats \/ pulse(n)
    BY DEF OwnerActs, repeatPrepare, acquireLeadership, setNodeActive, nodeVars
  <2>3. TimePasses(n) \/ HeartbeatArrives(n) \/ PrepareArrives(n) => UNCHANGED heartbeats
    BY DEF TimePasses, LeaderTimesOut, PrepareWindowCloses, HeartbeatArrives,
       receiveHeartbeat, PrepareArrives, receiveNodePrepare
  <2>4. PrepareNACKArrives(n) \/ AcceptNACKArrives(n) \/ PingArrives(n)
          => UNCHANGED heartbeats
    BY DEF PrepareNACKArrives, receiveNodePrepareNACK, AcceptNACKArrives,
       receiveNodeAcceptNACK, PingArrives, nodeVars
  <2> QED BY <2>1, <2>2, <2>3, <2>4 DEF AnyAction
<1> QED BY <1>1, <1>2, <1>3, <1>4

\* The timer's copy is made once.
LEMMA CopyIsFixed ==
  ASSUME NEW n, AnyAction(n)
  PROVE  copyLeads' = copyLeads
<1>1. OwnerPrepares(n) \/ OwnerActs(n) => UNCHANGED copyLeads
  BY DEF OwnerPrepares, OwnerActs, prepare, acquireLeadership, pollLiveness,
     repeatPrepare, setNodeActive, pulse, nodeVars
<1>2. TimePasses(n) \/ PulseTimer(n) \/ HeartbeatArrives(n) \/ PrepareArrives(n)
        => UNCHANGED copyLeads
  BY DEF TimePasses, LeaderTimesOut, PrepareWindowCloses, PulseTimer, pulseOfCopy,
     HeartbeatArrives, receiveHeartbeat, PrepareArrives, receiveNodePrepare
<1>3. PromiseArrives(n) \/ StrayPromiseArrives(n) => UNCHANGED copyLeads
  BY DEF PromiseArrives, StrayPromiseArrives, receiveNodePromise
<1>4. PrepareNACKArrives(n) \/ AcceptNACKArrives(n) \/ PingArrives(n)
        => UNCHANGED copyLeads
  BY DEF PrepareNACKArrives, receiveNodePrepareNACK, AcceptNACKArrives,
     receiveNodeAcceptNACK, PingArrives, nodeVars
<1> QED BY <1>1, <1>2, <1>3, <1>4 DEF AnyAction

(***************************************************************************)
(* Whatever its owner does and whatever arrives, until its process is      *)
(* restarted, a node announces itself in a round only after a quorum has   *)
(* promised in that very round; or it is leader by the accident of an      *)
(* uninitialised flag, and has begun no round yet.                         *)
(***************************************************************************)
THEOREM AnnouncedNodesWereElected == Spec => AnnouncesIfElected
<1>1. Init => TypeInv /\ RoundInv
  BY InitTypes, InitRounds
<1>2. TypeInv /\ RoundInv /\ [Next]_vars => (TypeInv /\ RoundInv)'
  BY NextTypes, NextRounds
<1>3. TypeInv /\ RoundInv /\ [Next]_vars =>
        [\A n \in Observers : \A id \in heartbeats'[n] \ heartbeats[n] :
           id.number >= round'[n] => \/ copyLeads[n] /\ round'[n] = 0
                                    \/ Cardinality(promised'[n]) >= QuorumSize]_vars
  <2> SUFFICES ASSUME TypeInv, RoundInv, Next, NEW q \in Observers,
                      NEW id \in heartbeats'[q] \ heartbeats[q], id.number >= round'[q]
               PROVE  \/ copyLeads[q] /\ round'[q] = 0
                      \/ Cardinality(promised'[q]) >= QuorumSize
    OBVIOUS
  <2>1. PICK n \in Observers : AnyAction(n)
    BY DEF Next, AnyAction
  <2>2. TypeInv' /\ RoundInv' /\ q \in Node /\ n \in Node
    BY <1>2, Foreign
  <2>3. CASE m_leader'[q] /\ id = m_proposalID'[q]
    <3>1. Elected(q)'
      BY <2>2, <2>3 DEF RoundInv, LeaderWasElected
    <3>2. copyLeads' = copyLeads
      BY <2>1, CopyIsFixed
    <3> QED BY <3>1, <3>2 DEF Elected
  <2>4. CASE copyLeads[q] /\ id.number = 0
    <3>1. round'[q] \in Nat
      BY <2>2 DEF TypeInv, HistoryTypes
    <3> QED BY <2>4, <3>1
  <2> QED BY <2>1, <2>2, <2>3, <2>4, WhoAnnounces
<1> QED BY <1>1, <1>2, <1>3, PTL DEF Spec, AnnouncesIfElected
=============================================================================
