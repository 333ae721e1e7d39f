--------------------------- MODULE ProposerProofs ---------------------------
(***************************************************************************)
(* Proofs about the proposer in ProposerEnv: for any set of nodes, any     *)
(* quorum size, and answers in any order and number.                       *)
(***************************************************************************)
EXTENDS ProposerEnv, RoleProofs

(***************************************************************************)
(* The inductive invariant.  A proposer's identifier may run ahead of the  *)
(* one it last prepared, when it observes others, but no request it ever   *)
(* sent is ahead of that one: a promise that counts is therefore for it.   *)
(* The leader flag, which no constructor sets, means something only from   *)
(* the first round on.                                                     *)
(***************************************************************************)
OwnIdentifiers ==
  \A p \in Node :
    /\ m_proposalID[p].uid = p
    /\ prepared[p] # NullID => /\ prepared[p].uid = p
                               /\ prepared[p].number <= m_proposalID[p].number

RequestsWerePrepared ==
  \A m \in Sent("prepare") : /\ m.id.uid = m.from
                             /\ prepared[m.from] # NullID
                             /\ m.id.number <= prepared[m.from].number

CountedHavePromised ==
  \A p \in Node : m_promisesReceived[p] \subseteq Voters(p, prepared[p])

LeaderHasQuorum ==
  \A p \in Node : m_leader[p] /\ prepared[p] # NullID
                    => QuorumReached(m_promisesReceived[p])

RoundInv ==
  /\ OwnIdentifiers
  /\ RequestsWerePrepared
  /\ CountedHavePromised
  /\ LeaderHasQuorum
  /\ AcceptHasQuorum

IInv == TypeOK /\ RoundInv

-----------------------------------------------------------------------------
LEMMA Facts ==
  /\ Proposers \subseteq Node /\ PeersAtStart \subseteq Node
  /\ MaxNumber \in Nat /\ QuorumSize \in Nat
  /\ LeaderAtStart \subseteq BOOLEAN /\ ActiveAtStart \subseteq BOOLEAN
  /\ NoValue \notin Value
  /\ ValidIDs \subseteq ProposalIDs /\ NullID \in ProposalIDs
  /\ NullID \notin ValidIDs
<1>1. NullID \notin ValidIDs
  BY NodeAssumption DEF NodeAssumption, ValidIDs, NullID, NoUID
<1> QED BY <1>1, EnvAssumption, ProposerAssumption, QuorumAssumption, ValidIsID,
           ActiveAtStartAssumption, ValueAssumption
        DEF EnvAssumption, ProposerAssumption, QuorumAssumption,
            ActiveAtStartAssumption, ValueAssumption

LEMMA OthersAreValid ==
  ASSUME NEW p \in Node
  PROVE  OtherIDs(p) \subseteq ValidIDs /\ \A id \in OtherIDs(p) : id.uid # p
BY Facts DEF OtherIDs, ValidIDs

-----------------------------------------------------------------------------
\* Every vote a promise can report has the type of a vote.
LEMMA ReportTypes ==
  ASSUME TypeOK, NEW p \in Node, NEW a, NEW id \in ValidIDs,
         NEW report \in Reports(p, id) \cup OwnVotes(p, a, id)
  PROVE  report[1] \in ProposalIDs /\ report[2] \in Value \cup {NoValue}
<1>1. CASE report \in Reports(p, id)
  BY <1>1, OthersAreValid, Facts DEF Reports
<1>2. CASE report \in OwnVotes(p, a, id)
  <2>1. PICK m \in Sent("accept") : report = <<m.id, m.value>>
    BY <1>2 DEF OwnVotes
  <2>2. m.id \in ValidIDs /\ m.value \in Value
    BY <2>1 DEF Sent, TypeOK, Message
  <2> QED BY <2>1, <2>2, Facts
<1> QED BY <1>1, <1>2

-----------------------------------------------------------------------------
LEMMA StartsRoundTypes ==
  ASSUME TypeOK, NEW p \in Node, StartsRound(p)
  PROVE  TypeOK'
<1>1. ProposerTypeOK' /\ msgs' \subseteq Message
  BY PrepareTypes DEF StartsRound, TypeOK
<1>2. m_proposalID'[p] \in ProposalIDs
  BY <1>1, Facts DEF ProposerTypeOK
<1> QED BY <1>1, <1>2 DEF StartsRound, TypeOK

LEMMA RepeatsRequestTypes ==
  ASSUME TypeOK, NEW p \in Node, RepeatsRequest(p)
  PROVE  TypeOK'
<1>1. ProposerTypeOK' /\ msgs' \subseteq Message
  BY PrepareTypes DEF RepeatsRequest, TypeOK
<1>2. m_proposalID[p] \in ProposalIDs
  BY Facts DEF TypeOK, ProposerTypeOK
<1> QED BY <1>1, <1>2 DEF RepeatsRequest, TypeOK

LEMMA ProposesTypes ==
  ASSUME TypeOK, NEW p \in Node, Proposes(p)
  PROVE  TypeOK'
<1>1. ProposerTypeOK' /\ msgs' \subseteq Message
  BY ProposingTypes DEF Proposes, TypeOK
<1> QED BY <1>1 DEF Proposes, TypeOK

LEMMA QuietStepsTypes ==
  ASSUME TypeOK, NEW p \in Node, OwnerActs(p) \/ PeersJoin(p)
  PROVE  TypeOK'
<1>1. ProposerTypeOK'
  BY QuietTypes DEF OwnerActs, PeersJoin, TypeOK
<1> QED BY <1>1 DEF OwnerActs, PeersJoin, setLeader, setProposerActive,
                    HandlePingMessage, TypeOK

LEMMA NACKArrivesTypes ==
  ASSUME TypeOK, NEW p \in Node, NACKArrives(p)
  PROVE  TypeOK'
<1>1. PICK promisedID \in OtherIDs(p) : receiveNACK(p, promisedID)
  BY DEF NACKArrives, receivePrepareNACK, receiveAcceptNACK
<1>2. ProposerTypeOK' /\ msgs' \subseteq Message
  BY <1>1, OthersAreValid, NACKTypes DEF TypeOK
<1> QED BY <1>2 DEF NACKArrives, TypeOK

LEMMA StrayPromiseArrivesTypes ==
  ASSUME TypeOK, NEW p \in Node, StrayPromiseArrives(p)
  PROVE  TypeOK'
<1>1. PICK request \in Sent("prepare"), id \in OtherIDs(p) :
        \E a \in request.acceptors : receivePromise(p, a, id, NullID, NoValue)
  BY DEF StrayPromiseArrives
<1>2. request.acceptors \in SUBSET Node /\ id \in ValidIDs
  BY RequestFields, OthersAreValid DEF TypeOK
<1>3. ProposerTypeOK' /\ msgs' \subseteq Message
  BY <1>1, <1>2, ReceivePromiseTypes, Facts DEF TypeOK
<1> QED BY <1>3 DEF StrayPromiseArrives, TypeOK

LEMMA PromiseArrivesTypes ==
  ASSUME TypeOK, NEW p \in Node, PromiseArrives(p)
  PROVE  TypeOK'
<1>1. PICK request \in Sent("prepare") : \E a \in request.acceptors :
        \E report \in Reports(p, request.id) \cup OwnVotes(p, a, request.id) :
          /\ \/ heard' = heard
             \/ heard' = heard \cup
                  {Promise(a, p, request.id, report[1], report[2])}
          /\ receivePromise(p, a, request.id, report[1], report[2])
  BY DEF PromiseArrives, Promise
<1>2. request.acceptors \in SUBSET Node /\ request.id \in ValidIDs
  BY RequestFields DEF TypeOK
<1>3. PICK a \in request.acceptors :
        \E report \in Reports(p, request.id) \cup OwnVotes(p, a, request.id) :
          /\ \/ heard' = heard
             \/ heard' = heard \cup
                  {Promise(a, p, request.id, report[1], report[2])}
          /\ receivePromise(p, a, request.id, report[1], report[2])
  BY <1>1
<1>4. PICK report \in Reports(p, request.id) \cup OwnVotes(p, a, request.id) :
          /\ \/ heard' = heard
             \/ heard' = heard \cup
                  {Promise(a, p, request.id, report[1], report[2])}
          /\ receivePromise(p, a, request.id, report[1], report[2])
  BY <1>3
<1>5. report[1] \in ProposalIDs /\ report[2] \in Value \cup {NoValue}
  BY <1>2, ReportTypes
<1>6. ProposerTypeOK' /\ msgs' \subseteq Message
  BY <1>2, <1>4, <1>5, ReceivePromiseTypes DEF TypeOK
<1>7. Promise(a, p, request.id, report[1], report[2]) \in Message
  BY <1>2, <1>5 DEF Promise, Message
<1> QED BY <1>4, <1>6, <1>7 DEF PromiseArrives, TypeOK

LEMMA NextTypes == TypeOK /\ [Next]_vars => TypeOK'
<1> SUFFICES ASSUME TypeOK, [Next]_vars PROVE TypeOK'
  OBVIOUS
<1>1. CASE UNCHANGED vars
  BY <1>1 DEF vars, proposerVars, TypeOK, ProposerTypeOK
<1>2. CASE Next
  <2>1. PICK p \in Proposers :
          \/ StartsRound(p) \/ RepeatsRequest(p) \/ Proposes(p) \/ OwnerActs(p)
          \/ PeersJoin(p) \/ PromiseArrives(p) \/ StrayPromiseArrives(p)
          \/ NACKArrives(p)
    BY <1>2 DEF Next
  <2> QED BY <2>1, Facts, StartsRoundTypes, RepeatsRequestTypes, ProposesTypes,
             QuietStepsTypes, PromiseArrivesTypes, StrayPromiseArrivesTypes,
             NACKArrivesTypes
<1> QED BY <1>1, <1>2

LEMMA InitTypes == Init => TypeOK
BY Facts DEF Init, ProposerInit, TypeOK, ProposerTypeOK, ValidIDs

(***************************************************************************)
(* Whatever its owner and its acceptors do, what a proposer holds and      *)
(* sends is of its type: its identifier keeps its own UID, and no accept   *)
(* request carries the empty value.                                        *)
(***************************************************************************)
THEOREM ProposerTypeCorrect == Spec => []TypeOK
BY InitTypes, NextTypes, PTL DEF Spec

-----------------------------------------------------------------------------
\* Only nodes promise, and nobody loses a promise that was delivered.
LEMMA VotersGrow ==
  ASSUME heard' \subseteq Message, heard \subseteq heard', NEW q, NEW id
  PROVE  /\ Voters(q, id) \subseteq Voters(q, id)'
         /\ Cardinality(Voters(q, id)) <= Cardinality(Voters(q, id)')
         /\ Cardinality(Voters(q, id)) \in Nat
         /\ Cardinality(Voters(q, id)') \in Nat
<1>1. Voters(q, id) \subseteq Voters(q, id)'
  BY DEF Voters
<1>2. Voters(q, id)' \subseteq Node
  BY DEF Voters, Message
<1>3. IsFiniteSet(Voters(q, id)')
  BY <1>2, FiniteAssumption, FS_Subset DEF FiniteAssumption
<1> QED BY <1>1, <1>3, FS_Subset, FS_CardinalityType

(***************************************************************************)
(* A leader whose identifier is still the one it prepared has the promises *)
(* for what it is about to ask.                                            *)
(***************************************************************************)
LEMMA LeaderMayAccept ==
  ASSUME IInv, NEW p \in Node, m_leader[p], m_proposalID[p] = prepared[p]
  PROVE  Cardinality(Voters(p, m_proposalID[p])) >= QuorumSize
<1>1. /\ QuorumReached(m_promisesReceived[p])
      /\ m_promisesReceived[p] \subseteq Voters(p, prepared[p])
  <2>1. prepared[p] # NullID
    BY Facts DEF IInv, TypeOK, ProposerTypeOK
  <2> QED BY <2>1 DEF IInv, RoundInv, LeaderHasQuorum, CountedHavePromised
<1>2. Voters(p, prepared[p]) \subseteq Node
  BY DEF Voters, IInv, TypeOK, Message
<1> QED BY <1>1, <1>2, QuorumGrows DEF QuorumReached

\* The promise counted is for the identifier that was last prepared.
LEMMA CountedIsPrepared ==
  ASSUME IInv, NEW p \in Node, NEW request \in Sent("prepare"),
         request.from = p, request.id = Observed(p, request.id)
  PROVE  request.id = m_proposalID[p] /\ request.id = prepared[p]
<1>1. /\ request.id \in ValidIDs /\ m_proposalID[p] \in ValidIDs
      /\ prepared[p] \in ProposalIDs
  BY RequestFields DEF IInv, TypeOK, ProposerTypeOK
<1>2. /\ request.id.uid = p /\ m_proposalID[p].uid = p /\ prepared[p].uid = p
      /\ request.id.number <= prepared[p].number
      /\ prepared[p].number <= m_proposalID[p].number
  BY DEF IInv, RoundInv, RequestsWerePrepared, OwnIdentifiers
<1> QED BY <1>1, <1>2, CaughtUpIsPrepared DEF Observed

-----------------------------------------------------------------------------
(***************************************************************************)
(* A step within a round: no prepare request is sent, and an accept        *)
(* request only with the promises it needs.                                *)
(***************************************************************************)
LEMMA StepKeepsRoundInv ==
  ASSUME IInv, TypeOK', prepared' = prepared, heard \subseteq heard',
         \A q \in Node : /\ m_proposalID'[q].uid = q
                         /\ m_proposalID[q].number <= m_proposalID'[q].number,
         CountedHavePromised', LeaderHasQuorum',
         Sent("prepare")' \subseteq Sent("prepare"),
         \A m \in Sent("accept")' :
           m \in Sent("accept") \/ Cardinality(Voters(m.from, m.id)') >= QuorumSize
  PROVE  RoundInv'
<1>1. OwnIdentifiers'
  <2> SUFFICES ASSUME NEW q \in Node, prepared[q] # NullID
               PROVE  /\ prepared[q].uid = q
                      /\ prepared[q].number <= m_proposalID'[q].number
    BY DEF OwnIdentifiers
  <2>1. /\ prepared[q].uid = q
        /\ prepared[q].number <= m_proposalID[q].number
        /\ m_proposalID[q].number <= m_proposalID'[q].number
    BY DEF IInv, RoundInv, OwnIdentifiers
  <2>2. /\ prepared[q].number \in Nat /\ m_proposalID[q].number \in Nat
        /\ m_proposalID'[q].number \in Nat
    BY DEF IInv, TypeOK, ProposerTypeOK, ValidIDs, ProposalIDs
  <2> QED BY <2>1, <2>2
<1>2. RequestsWerePrepared'
  BY DEF IInv, RoundInv, RequestsWerePrepared
<1>3. AcceptHasQuorum'
  <2> SUFFICES ASSUME NEW m \in Sent("accept")'
               PROVE  Cardinality(Voters(m.from, m.id)') >= QuorumSize
    BY DEF AcceptHasQuorum
  <2>1. CASE m \in Sent("accept")
    <3>1. Cardinality(Voters(m.from, m.id)) >= QuorumSize
      BY <2>1 DEF IInv, RoundInv, AcceptHasQuorum
    <3>2. /\ Cardinality(Voters(m.from, m.id)) <= Cardinality(Voters(m.from, m.id)')
          /\ Cardinality(Voters(m.from, m.id)) \in Nat
          /\ Cardinality(Voters(m.from, m.id)') \in Nat
      BY VotersGrow DEF TypeOK
    <3> QED BY <3>1, <3>2, Facts
  <2> QED BY <2>1
<1> QED BY <1>1, <1>2, <1>3 DEF RoundInv

\* The case of a step that counts no promise and makes no leader.
LEMMA CountsStay ==
  ASSUME IInv, TypeOK', prepared' = prepared, heard \subseteq heard',
         m_promisesReceived' = m_promisesReceived,
         \A q \in Node : m_leader'[q] => m_leader[q]
  PROVE  CountedHavePromised' /\ LeaderHasQuorum'
<1>1. ASSUME NEW q \in Node
      PROVE  m_promisesReceived[q] \subseteq Voters(q, prepared[q])'
  <2>1. m_promisesReceived[q] \subseteq Voters(q, prepared[q])
    BY DEF IInv, RoundInv, CountedHavePromised
  <2> QED BY <2>1 DEF Voters
<1> QED BY <1>1 DEF CountedHavePromised, IInv, RoundInv, LeaderHasQuorum

\* A step that only observes an identifier, or changes nothing of the round.
LEMMA ObservingKeepsRoundInv ==
  ASSUME IInv, TypeOK', prepared' = prepared, heard \subseteq heard', msgs' = msgs,
         m_promisesReceived' = m_promisesReceived,
         \A q \in Node : m_leader'[q] => m_leader[q],
         NEW p \in Node, NEW id \in ValidIDs,
         \/ m_proposalID' = m_proposalID
         \/ m_proposalID' = [m_proposalID EXCEPT ![p] = Observed(p, id)]
  PROVE  RoundInv'
<1>1. CountedHavePromised' /\ LeaderHasQuorum'
  BY CountsStay
<1>2. ASSUME NEW q \in Node
      PROVE  /\ m_proposalID'[q].uid = q
             /\ m_proposalID[q].number <= m_proposalID'[q].number
  <2>1. m_proposalID[q] \in ValidIDs /\ m_proposalID[q].uid = q
    BY DEF IInv, TypeOK, ProposerTypeOK, RoundInv, OwnIdentifiers
  <2>2. \/ m_proposalID'[q] = m_proposalID[q]
        \/ m_proposalID'[q] = CatchUp(m_proposalID[q], id)
    BY DEF Observed, IInv, TypeOK, ProposerTypeOK
  <2>3. m_proposalID[q].number \in Nat
    BY <2>1 DEF ValidIDs
  <2> QED BY <2>1, <2>2, <2>3, CatchUpKeepsOwner
<1>3. /\ Sent("prepare")' = Sent("prepare")
      /\ Sent("accept")' = Sent("accept")
  BY DEF Sent
<1> QED BY <1>1, <1>2, <1>3, StepKeepsRoundInv

-----------------------------------------------------------------------------
\* What is sent to whom, by the kind of the request.
LEMMA SendingAccepts ==
  ASSUME NEW p, NEW id, NEW value, Send(AcceptMessages(p, id, value))
  PROVE  /\ Sent("prepare")' = Sent("prepare")
         /\ \A m \in Sent("accept")' : m \in Sent("accept") \/ (m.from = p /\ m.id = id)
BY DEF Send, AcceptMessages, Accept, Sent

LEMMA SendingNothing ==
  ASSUME Send({})
  PROVE  Sent("prepare")' = Sent("prepare") /\ Sent("accept")' = Sent("accept")
BY DEF Send, Sent

LEMMA StartsRoundKeeps ==
  ASSUME IInv, TypeOK', NEW p \in Node, StartsRound(p)
  PROVE  RoundInv'
<1> DEFINE id == incrementNumber(m_proposalID[p])
<1>1. /\ id \in ValidIDs /\ id.uid = p
      /\ id.number = m_proposalID[p].number + 1
      /\ m_proposalID[p] \in ValidIDs /\ m_proposalID[p].number \in Nat
  BY NextNumber DEF IInv, TypeOK, ProposerTypeOK, RoundInv, OwnIdentifiers, ValidIDs
<1>2. /\ m_leader' = [m_leader EXCEPT ![p] = FALSE]
      /\ m_promisesReceived' = [m_promisesReceived EXCEPT ![p] = {}]
      /\ m_proposalID' = [m_proposalID EXCEPT ![p] = id]
      /\ sendPrepare(p, id)
      /\ heard' = heard
      /\ prepared' = [prepared EXCEPT ![p] = m_proposalID'[p]]
  BY DEF StartsRound, prepareNext, beginRound
<1> HIDE DEF id
<1>3. /\ m_proposalID'[p] = id /\ prepared'[p] = id
      /\ m_promisesReceived'[p] = {} /\ ~m_leader'[p]
      /\ \A q \in Node \ {p} : /\ m_proposalID'[q] = m_proposalID[q]
                               /\ prepared'[q] = prepared[q]
                               /\ m_promisesReceived'[q] = m_promisesReceived[q]
                               /\ m_leader'[q] = m_leader[q]
  BY <1>2 DEF IInv, TypeOK, ProposerTypeOK
<1>4. /\ Sent("accept")' = Sent("accept")
      /\ \A m \in Sent("prepare")' :
           m \in Sent("prepare") \/ (m.from = p /\ m.id = id)
  BY <1>2 DEF sendPrepare, Send, Prepare, Sent
<1>5. OwnIdentifiers'
  <2> SUFFICES ASSUME NEW q \in Node
               PROVE  /\ m_proposalID'[q].uid = q
                      /\ prepared'[q] # NullID =>
                           /\ prepared'[q].uid = q
                           /\ prepared'[q].number <= m_proposalID'[q].number
    BY DEF OwnIdentifiers
  <2>1. CASE q = p
    BY <1>1, <1>3, <2>1
  <2>2. CASE q # p
    BY <1>3, <2>2 DEF IInv, RoundInv, OwnIdentifiers
  <2> QED BY <2>1, <2>2
<1>6. RequestsWerePrepared'
  <2> SUFFICES ASSUME NEW m \in Sent("prepare")'
               PROVE  /\ m.id.uid = m.from /\ prepared'[m.from] # NullID
                      /\ m.id.number <= prepared'[m.from].number
    BY DEF RequestsWerePrepared
  <2>1. CASE m.from = p /\ m.id = id
    BY <1>1, <1>3, <2>1, Facts
  <2>2. CASE m \in Sent("prepare") /\ m.from = p
    <3>1. /\ m.id.uid = p /\ m.id.number <= prepared[p].number
          /\ prepared[p].number <= m_proposalID[p].number
      BY <2>2 DEF IInv, RoundInv, RequestsWerePrepared, OwnIdentifiers
    <3>2. m.id.number \in Nat /\ prepared[p].number \in Nat
      <4>1. m.id \in ValidIDs /\ prepared[p] \in ProposalIDs
        BY <2>2, RequestFields DEF IInv, TypeOK
      <4> QED BY <4>1 DEF ValidIDs, ProposalIDs
    <3> QED BY <1>1, <1>3, <2>2, <3>1, <3>2, Facts
  <2>3. CASE m \in Sent("prepare") /\ m.from # p
    <3>1. m.from \in Node
      BY <2>3, RequestFields DEF IInv, TypeOK
    <3> QED BY <1>3, <2>3, <3>1 DEF IInv, RoundInv, RequestsWerePrepared
  <2> QED BY <1>4, <2>1, <2>2, <2>3
<1>7. CountedHavePromised'
  <2> SUFFICES ASSUME NEW q \in Node
               PROVE  m_promisesReceived'[q] \subseteq Voters(q, prepared[q])'
    BY DEF CountedHavePromised
  <2>1. CASE q = p
    BY <1>3, <2>1
  <2>2. CASE q # p
    BY <1>2, <1>3, <2>2 DEF IInv, RoundInv, CountedHavePromised, Voters
  <2> QED BY <2>1, <2>2
<1>8. LeaderHasQuorum'
  BY <1>3 DEF IInv, RoundInv, LeaderHasQuorum
<1>9. AcceptHasQuorum'
  BY <1>2, <1>4 DEF IInv, RoundInv, AcceptHasQuorum, Voters
<1> QED BY <1>5, <1>6, <1>7, <1>8, <1>9 DEF RoundInv

LEMMA ProposesKeeps ==
  ASSUME Careful, IInv, TypeOK', NEW p \in Node, Proposes(p)
  PROVE  RoundInv'
<1>1. /\ UNCHANGED <<m_proposalID, m_promisesReceived, m_leader>>
      /\ prepared' = prepared /\ heard' = heard
  BY DEF Proposes, setProposal, resendAccept, proposerVars
<1>2. /\ Sent("prepare")' = Sent("prepare")
      /\ \A m \in Sent("accept")' :
           \/ m \in Sent("accept")
           \/ /\ m.from = p /\ m.id = m_proposalID[p]
              /\ m_leader[p] /\ m_proposalID[p] = prepared[p]
  <2>1. ASSUME NEW value \in Value, m_leader[p] => MaySend(p),
               setProposal(p, value)
        PROVE  /\ Sent("prepare")' = Sent("prepare")
               /\ \A m \in Sent("accept")' :
                    \/ m \in Sent("accept")
                    \/ /\ m.from = p /\ m.id = m_proposalID[p]
                       /\ m_leader[p] /\ m_proposalID[p] = prepared[p]
    BY <2>1, SendingAccepts, SendingNothing DEF setProposal, MaySend
  <2>2. CASE MaySend(p) /\ resendAccept(p)
    BY <2>2, SendingAccepts DEF resendAccept, MaySend
  <2> QED BY <2>1, <2>2 DEF Proposes
<1>3. CountedHavePromised' /\ LeaderHasQuorum'
  BY <1>1, CountsStay
<1>4. ASSUME NEW m \in Sent("accept")', m \notin Sent("accept")
      PROVE  Cardinality(Voters(m.from, m.id)') >= QuorumSize
  <2>1. m.from = p /\ m.id = m_proposalID[p]
    BY <1>2, <1>4
  <2>2. Cardinality(Voters(p, m_proposalID[p])) >= QuorumSize
    BY <1>2, <1>4, LeaderMayAccept
  <2> QED BY <1>1, <2>1, <2>2 DEF Voters
<1>5. ASSUME NEW q \in Node
      PROVE  /\ m_proposalID'[q].uid = q
             /\ m_proposalID[q].number <= m_proposalID'[q].number
  BY <1>1 DEF IInv, TypeOK, ProposerTypeOK, ValidIDs, RoundInv, OwnIdentifiers
<1> QED BY <1>1, <1>2, <1>3, <1>4, <1>5, StepKeepsRoundInv

\* A repeated prepare request is one that was sent already, but for its acceptors.
LEMMA RepeatsRequestKeeps ==
  ASSUME Careful, IInv, TypeOK', NEW p \in Node, RepeatsRequest(p)
  PROVE  RoundInv'
<1>1. /\ m_proposalID[p] = prepared[p]
      /\ sendPrepare(p, m_proposalID[p])
      /\ UNCHANGED <<m_proposalID, m_promisesReceived, m_leader, heard>>
      /\ prepared' = [prepared EXCEPT ![p] = m_proposalID[p]]
  BY DEF RepeatsRequest, MaySend, prepareAgain
<1>2. prepared' = prepared
  BY <1>1 DEF IInv, TypeOK
<1>3. /\ Sent("accept")' = Sent("accept")
      /\ \A m \in Sent("prepare")' :
           m \in Sent("prepare") \/ (m.from = p /\ m.id = m_proposalID[p])
  BY <1>1 DEF sendPrepare, Send, Prepare, Sent
<1>4. OwnIdentifiers'
  BY <1>1, <1>2 DEF IInv, RoundInv, OwnIdentifiers
<1>5. RequestsWerePrepared'
  <2>1. /\ m_proposalID[p] \in ValidIDs /\ m_proposalID[p].number \in Nat
        /\ m_proposalID[p].uid = p
    BY DEF IInv, TypeOK, ProposerTypeOK, ValidIDs, RoundInv, OwnIdentifiers
  <2> QED BY <1>1, <1>2, <1>3, <2>1, Facts DEF IInv, RoundInv, RequestsWerePrepared
<1>6. CountedHavePromised' /\ LeaderHasQuorum'
  BY <1>1, <1>2, CountsStay
<1>7. AcceptHasQuorum'
  BY <1>1, <1>3 DEF IInv, RoundInv, AcceptHasQuorum, Voters
<1> QED BY <1>4, <1>5, <1>6, <1>7 DEF RoundInv

LEMMA PromiseArrivesKeeps ==
  ASSUME IInv, TypeOK', NEW p \in Node, PromiseArrives(p)
  PROVE  RoundInv'
<1>1. PICK request \in Sent("prepare") : \E a \in request.acceptors :
        \E report \in Reports(p, request.id) \cup OwnVotes(p, a, request.id) :
          /\ request.from = p
          /\ heard \subseteq heard'
          /\ \E h \in heard' : h.from = a /\ h.to = p /\ h.id = request.id
          /\ receivePromise(p, a, request.id, report[1], report[2])
  BY DEF PromiseArrives, Promise
<1>2. PICK a \in request.acceptors :
        \E report \in Reports(p, request.id) \cup OwnVotes(p, a, request.id) :
          /\ request.from = p
          /\ heard \subseteq heard'
          /\ \E h \in heard' : h.from = a /\ h.to = p /\ h.id = request.id
          /\ receivePromise(p, a, request.id, report[1], report[2])
  BY <1>1
<1>3. PICK report \in Reports(p, request.id) \cup OwnVotes(p, a, request.id) :
          /\ request.from = p
          /\ heard \subseteq heard'
          /\ \E h \in heard' : h.from = a /\ h.to = p /\ h.id = request.id
          /\ receivePromise(p, a, request.id, report[1], report[2])
  BY <1>2
<1>4. request.id \in ValidIDs /\ a \in Node /\ prepared' = prepared
  BY RequestFields DEF PromiseArrives, IInv, TypeOK
<1>5. CASE IgnorePromise(p, a, request.id)
  <2>1. /\ m_proposalID' = [m_proposalID EXCEPT ![p] = Observed(p, request.id)]
        /\ UNCHANGED <<m_promisesReceived, m_leader, msgs>>
    BY <1>5 DEF IgnorePromise
  <2> QED BY <1>3, <1>4, <2>1, ObservingKeepsRoundInv
<1>6. CASE CountPromise(p, a, request.id, report[1], report[2])
  <2> DEFINE promises == m_promisesReceived[p] \cup {a}
             value == Adopted(p, report[1], report[2])
             id == request.id
  <2>1. /\ id = Observed(p, id)
        /\ m_promisesReceived' = [m_promisesReceived EXCEPT ![p] = promises]
        /\ m_leader' = [m_leader EXCEPT ![p] = @ \/ QuorumReached(promises)]
        /\ m_proposalID' = [m_proposalID EXCEPT ![p] = id]
        /\ Send(FirstAccept(p, id, promises, value))
    BY <1>6 DEF CountPromise, Counts
  <2>2. id = m_proposalID[p] /\ id = prepared[p] /\ prepared[p] # NullID
    BY <1>3, <1>4, <2>1, CountedIsPrepared, Facts
  <2>3. Sent("prepare")' = Sent("prepare")
    BY <2>1, SendingAccepts, SendingNothing DEF FirstAccept
  <2>4. \A m \in Sent("accept")' :
          \/ m \in Sent("accept")
          \/ m.from = p /\ m.id = id /\ QuorumReached(promises)
    BY <2>1, SendingAccepts, SendingNothing DEF FirstAccept
  <2> HIDE DEF promises, value, id
  <2>5. promises \subseteq Voters(p, id)' /\ promises \subseteq Node
    <3>1. m_promisesReceived[p] \subseteq Voters(p, id)
      BY <2>2 DEF IInv, RoundInv, CountedHavePromised
    <3>2. Voters(p, id) \subseteq Voters(p, id)' /\ a \in Voters(p, id)'
      BY <1>3 DEF Voters, id
    <3>3. m_promisesReceived[p] \subseteq Node
      BY DEF IInv, TypeOK, ProposerTypeOK
    <3> QED BY <1>4, <3>1, <3>2, <3>3 DEF promises
  <2>6. /\ m_promisesReceived'[p] = promises
        /\ m_leader'[p] => m_leader[p] \/ QuorumReached(promises)
        /\ \A q \in Node \ {p} : /\ m_promisesReceived'[q] = m_promisesReceived[q]
                                 /\ m_leader'[q] = m_leader[q]
    BY <2>1 DEF IInv, TypeOK, ProposerTypeOK
  <2>7. CountedHavePromised'
    <3> SUFFICES ASSUME NEW q \in Node
                 PROVE  m_promisesReceived'[q] \subseteq Voters(q, prepared[q])'
      BY DEF CountedHavePromised
    <3>1. CASE q = p
      BY <1>4, <2>2, <2>5, <2>6, <3>1 DEF Voters
    <3>2. CASE q # p
      BY <1>3, <1>4, <2>6, <3>2 DEF IInv, RoundInv, CountedHavePromised, Voters
    <3> QED BY <3>1, <3>2
  <2>8. QuorumReached(m_promisesReceived[p]) => QuorumReached(promises)
    BY <2>5, QuorumGrows DEF promises
  <2>9. LeaderHasQuorum'
    <3> SUFFICES ASSUME NEW q \in Node, m_leader'[q], prepared'[q] # NullID
                 PROVE  QuorumReached(m_promisesReceived'[q])
      BY DEF LeaderHasQuorum, QuorumReached
    <3>1. CASE q = p
      <4>1. CASE m_leader[p]
        <5>1. QuorumReached(m_promisesReceived[p])
          BY <2>2, <4>1 DEF IInv, RoundInv, LeaderHasQuorum
        <5> QED BY <2>6, <2>8, <3>1, <5>1
      <4>2. CASE QuorumReached(promises)
        BY <2>6, <3>1, <4>2
      <4> QED BY <2>6, <3>1, <4>1, <4>2
    <3>2. CASE q # p
      BY <1>4, <2>6, <3>2 DEF IInv, RoundInv, LeaderHasQuorum
    <3> QED BY <3>1, <3>2
  <2>10. ASSUME NEW m \in Sent("accept")', m \notin Sent("accept")
         PROVE  Cardinality(Voters(m.from, m.id)') >= QuorumSize
    <3>1. m.from = p /\ m.id = id /\ QuorumReached(promises)
      BY <2>4, <2>10
    <3>2. Voters(p, id)' \subseteq Node
      BY DEF Voters, TypeOK, Message
    <3>3. QuorumReached(Voters(p, id)')
      BY <2>5, <3>1, <3>2, QuorumGrows
    <3> QED BY <3>1, <3>3 DEF Voters, QuorumReached
  <2>11. m_proposalID' = m_proposalID
    BY <2>1, <2>2 DEF IInv, TypeOK, ProposerTypeOK
  <2>12. ASSUME NEW q \in Node
         PROVE  /\ m_proposalID'[q].uid = q
                /\ m_proposalID[q].number <= m_proposalID'[q].number
    BY <2>11 DEF IInv, TypeOK, ProposerTypeOK, ValidIDs, RoundInv, OwnIdentifiers
  <2> QED BY <1>3, <1>4, <2>3, <2>7, <2>9, <2>10, <2>12, StepKeepsRoundInv
<1> QED BY <1>3, <1>5, <1>6 DEF receivePromise

\* A promise made to another node does not count, whoever it is answered to.
LEMMA StrayPromiseArrivesKeeps ==
  ASSUME IInv, TypeOK', NEW p \in Node, StrayPromiseArrives(p)
  PROVE  RoundInv'
<1>1. PICK id \in OtherIDs(p) : \E a : receivePromise(p, a, id, NullID, NoValue)
  BY DEF StrayPromiseArrives
<1>2. /\ prepared' = prepared /\ heard' = heard
      /\ id \in ValidIDs /\ id.uid # p
  BY OthersAreValid DEF StrayPromiseArrives
<1>3. Observed(p, id).uid = p
  <2>1. m_proposalID[p] \in ValidIDs /\ m_proposalID[p].uid = p
    BY DEF IInv, TypeOK, ProposerTypeOK, RoundInv, OwnIdentifiers
  <2> QED BY <1>2, <2>1, CatchUpKeepsOwner DEF Observed
<1>4. \E a : IgnorePromise(p, a, id)
  BY <1>1, <1>2, <1>3 DEF receivePromise, CountPromise, Counts
<1>5. /\ m_proposalID' = [m_proposalID EXCEPT ![p] = Observed(p, id)]
      /\ UNCHANGED <<m_promisesReceived, m_leader, msgs>>
  BY <1>4 DEF IgnorePromise
<1> QED BY <1>2, <1>5, ObservingKeepsRoundInv

LEMMA NACKArrivesKeeps ==
  ASSUME IInv, TypeOK', NEW p \in Node, NACKArrives(p)
  PROVE  RoundInv'
<1>1. PICK promisedID \in OtherIDs(p) : receiveNACK(p, promisedID)
  BY DEF NACKArrives, receivePrepareNACK, receiveAcceptNACK
<1>2. /\ prepared' = prepared /\ heard' = heard /\ promisedID \in ValidIDs
      /\ m_proposalID' = [m_proposalID EXCEPT ![p] = Observed(p, promisedID)]
      /\ UNCHANGED <<m_promisesReceived, m_leader, msgs>>
  BY <1>1, OthersAreValid DEF NACKArrives, receiveNACK
<1> QED BY <1>2, ObservingKeepsRoundInv

\* The owner can take the lead away, but not give it; a ping changes no round.
LEMMA QuietStepsKeep ==
  ASSUME IInv, TypeOK', NEW p \in Node, OwnerActs(p) \/ PeersJoin(p)
  PROVE  RoundInv'
<1>1. /\ prepared' = prepared /\ heard' = heard
      /\ UNCHANGED <<m_promisesReceived, m_proposalID, msgs>>
  BY DEF OwnerActs, PeersJoin, setLeader, setProposerActive, HandlePingMessage
<1>2. \/ m_leader' = m_leader
      \/ m_leader' = [m_leader EXCEPT ![p] = FALSE]
  BY DEF OwnerActs, PeersJoin, setLeader, setProposerActive, HandlePingMessage
<1>3. \A q \in Node : m_leader'[q] => m_leader[q]
  BY <1>2 DEF IInv, TypeOK, ProposerTypeOK
<1>4. m_proposalID[p] \in ValidIDs
  BY DEF IInv, TypeOK, ProposerTypeOK
<1> QED BY <1>1, <1>3, <1>4, ObservingKeepsRoundInv

-----------------------------------------------------------------------------
LEMMA InitIInv == Init => IInv
<1> SUFFICES ASSUME Init PROVE IInv
  OBVIOUS
<1>1. TypeOK
  BY InitTypes
<1>2. /\ m_proposalID = [p \in Node |-> [number |-> 0, uid |-> p]]
      /\ m_promisesReceived = [p \in Node |-> {}]
      /\ msgs = {} /\ prepared = [p \in Node |-> NullID]
  BY DEF Init, ProposerInit
<1> QED BY <1>1, <1>2 DEF IInv, RoundInv, OwnIdentifiers, RequestsWerePrepared,
          CountedHavePromised, LeaderHasQuorum, AcceptHasQuorum, Sent

LEMMA NextIInv ==
  ASSUME Careful
  PROVE  IInv /\ [Next]_vars => IInv'
<1> SUFFICES ASSUME IInv, [Next]_vars PROVE IInv'
  OBVIOUS
<1>1. TypeOK'
  BY NextTypes DEF IInv
<1>2. CASE UNCHANGED vars
  BY <1>1, <1>2 DEF vars, proposerVars, IInv, RoundInv, OwnIdentifiers,
     RequestsWerePrepared, CountedHavePromised, LeaderHasQuorum, AcceptHasQuorum,
     Sent, Voters
<1>3. CASE Next
  <2>1. PICK p \in Proposers :
          \/ StartsRound(p) \/ RepeatsRequest(p) \/ Proposes(p) \/ OwnerActs(p)
          \/ PeersJoin(p) \/ PromiseArrives(p) \/ StrayPromiseArrives(p)
          \/ NACKArrives(p)
    BY <1>3 DEF Next
  <2>2. RoundInv'
    BY <1>1, <2>1, Facts, StartsRoundKeeps, RepeatsRequestKeeps, ProposesKeeps,
       QuietStepsKeep, PromiseArrivesKeeps, StrayPromiseArrivesKeeps,
       NACKArrivesKeeps
  <2> QED BY <1>1, <2>2 DEF IInv
<1> QED BY <1>2, <1>3

(***************************************************************************)
(* If the owner is careful, an accept request is sent only after a quorum  *)
(* has promised its identifier to this proposer: whatever promises of      *)
(* other rounds or to other nodes arrive, however often, and whatever      *)
(* identifiers are observed meanwhile.                                     *)
(***************************************************************************)
THEOREM QuorumBehindAccepts ==
  ASSUME Careful
  PROVE  Spec => []AcceptHasQuorum
<1>1. IInv => AcceptHasQuorum
  BY DEF IInv, RoundInv
<1>2. IInv /\ [Next]_vars => IInv'
  BY NextIInv
<1> QED BY <1>1, <1>2, InitIInv, PTL DEF Spec

-----------------------------------------------------------------------------
(***************************************************************************)
(* The second inductive invariant, on top of the first: about the values.  *)
(* All requests of a round go to the same acceptors, no more of them than  *)
(* a quorum.  So once a quorum has been counted nobody is left whose       *)
(* report could still change the value of the round.                       *)
(***************************************************************************)
SelectionIsBounded ==
  \A p \in Node : Cardinality(m_majorityAcceptors[p]) <= QuorumSize

RoundGoesToSelection ==
  \A m \in Sent("prepare") :
    /\ m.acceptors # {}
    /\ m.id = prepared[m.from] => m.acceptors = m_majorityAcceptors[m.from]

CountedWereAsked ==
  \A p \in Node : m_promisesReceived[p] \subseteq m_majorityAcceptors[p]

AcceptsWerePrepared ==
  \A m \in Sent("accept") : /\ m.id.uid = m.from
                            /\ prepared[m.from] # NullID
                            /\ m.id.number <= prepared[m.from].number

HeardWereAsked ==
  \A h \in heard : /\ h.id.uid = h.to
                   /\ prepared[h.to] # NullID
                   /\ h.id.number <= prepared[h.to].number

\* As long as a round lasts, its accept requests carry the proposer's value.
RoundIsSettled ==
  \A m \in Sent("accept") :
    m.id = prepared[m.from] => /\ m.value = m_proposedValue[m.from]
                               /\ QuorumReached(m_promisesReceived[m.from])

\* Nobody asked for the promises behind an accept request has still to answer.
AllHaveAnswered ==
  \A m \in Sent("accept"), r \in Sent("prepare") :
    r.id = m.id => r.acceptors \subseteq Voters(m.from, m.id)

HeardReportVotes ==
  \A h \in heard :
    h.acceptID = NullID \/ (h.acceptID \in ValidIDs /\ h.acceptValue \in Value)

\* The report that a proposer follows, and the value that came with it.
FollowsReport(p) ==
  \E h \in heard : /\ h.to = p /\ h.acceptID = m_lastAcceptedID[p]
                   /\ h.acceptValue = m_proposedValue[p]

LastWasHeard ==
  \A p \in Node : m_lastAcceptedID[p] = NullID \/ FollowsReport(p)

\* As long as its identifier is the one it prepared, a proposer has counted
\* every promise for it, and follows a report at least as high.
HeardWereCounted ==
  \A h \in heard :
    h.id = prepared[h.to] /\ m_proposalID[h.to] = prepared[h.to]
      => /\ h.from \in m_promisesReceived[h.to]
         /\ Geq(m_lastAcceptedID[h.to], h.acceptID)

AskedInv ==
  /\ SelectionIsBounded
  /\ RoundGoesToSelection
  /\ CountedWereAsked
  /\ AcceptsWerePrepared
  /\ HeardWereAsked

ReportInv ==
  /\ HeardReportVotes
  /\ LastWasHeard
  /\ HeardWereCounted

ValueInv ==
  /\ RoundIsSettled
  /\ AllHaveAnswered
  /\ OneValuePerID
  /\ ValueFollowsHighestReport

FullInv == IInv /\ AskedInv /\ ReportInv /\ ValueInv

-----------------------------------------------------------------------------
\* Once its identifier has run ahead, a proposer is in no round any more.
LEMMA NoWayBack ==
  ASSUME IInv, TypeOK', NEW q \in Node,
         m_proposalID'[q].uid = q,
         m_proposalID[q].number <= m_proposalID'[q].number,
         m_proposalID'[q] = prepared[q]
  PROVE  m_proposalID[q] = prepared[q]
<1>1. /\ prepared[q] \in ValidIDs /\ m_proposalID[q] \in ValidIDs
      /\ prepared[q] # NullID
  BY Facts DEF IInv, TypeOK, ProposerTypeOK
<1>2. /\ prepared[q].uid = q /\ m_proposalID[q].uid = q
      /\ prepared[q].number <= m_proposalID[q].number
  BY <1>1 DEF IInv, RoundInv, OwnIdentifiers
<1>3. prepared[q].number \in Nat /\ m_proposalID[q].number \in Nat
  BY <1>1 DEF ValidIDs
<1> QED BY <1>1, <1>2, <1>3, Facts, SameFields

LEMMA SelectionStaysBounded ==
  ASSUME TypeOK, SelectionIsBounded, NEW p \in Node,
         \/ m_majorityAcceptors' = m_majorityAcceptors
         \/ m_majorityAcceptors' =
              [m_majorityAcceptors EXCEPT ![p] = SelectMajorityAcceptors(p)]
  PROVE  SelectionIsBounded'
<1>1. Cardinality(SelectMajorityAcceptors(p)) <= QuorumSize
  <2>1. m_peers[p] \in SUBSET Node
    BY DEF TypeOK, ProposerTypeOK
  <2> QED BY <2>1, LeastBound DEF SelectMajorityAcceptors, SelectionIsBounded
<1>2. m_majorityAcceptors \in [Node -> SUBSET Node]
  BY DEF TypeOK, ProposerTypeOK
<1> QED BY <1>1, <1>2 DEF SelectionIsBounded

\* The vote a proposer follows is one that an acceptor has reported.
LEMMA LastIsVote ==
  ASSUME FullInv, NEW p \in Node
  PROVE  /\ m_lastAcceptedID[p] \in ValidIDs \cup {NullID}
         /\ m_lastAcceptedID[p] # NullID => m_proposedValue[p] \in Value
BY DEF FullInv, ReportInv, LastWasHeard, FollowsReport, HeardReportVotes

-----------------------------------------------------------------------------
(***************************************************************************)
(* A step within a round: once an accept request has been sent, neither    *)
(* the value nor the quorum behind it changes, and a promise that is heard *)
(* for the first time is from an acceptor that had not answered.           *)
(***************************************************************************)
Unsettled(p) == \A m \in Sent("accept") : m.id # prepared[p]

RoundStays(q) ==
  \/ Unsettled(q)
  \/ /\ m_proposedValue'[q] = m_proposedValue[q]
     /\ QuorumReached(m_promisesReceived[q]) => QuorumReached(m_promisesReceived'[q])

MayAsk(p, value) ==
  /\ prepared[p] # NullID /\ m_proposalID'[p] = prepared[p]
  /\ value = m_proposedValue'[p]
  /\ QuorumReached(m_promisesReceived'[p])

HearsOnlyTheAsked(p) ==
  /\ heard \subseteq heard'
  /\ \A h \in heard' \ heard :
       /\ h.to = p /\ h.from \notin Voters(p, h.id)
       /\ \E r \in Sent("prepare") : /\ r.from = p /\ r.id = h.id
                                     /\ h.from \in r.acceptors

LEMMA RoundStepKeepsValues ==
  ASSUME FullInv, IInv', NEW p \in Node, prepared' = prepared, HearsOnlyTheAsked(p),
         SelectionIsBounded', CountedWereAsked', RoundGoesToSelection', ReportInv',
         \A q \in Node : RoundStays(q),
         NEW value,
         \/ msgs' = msgs
         \/ OnlyPrepares(p, prepared[p])
         \/ OnlyAccepts(p, prepared[p], value) /\ MayAsk(p, value)
  PROVE  FullInv'
<1>0. /\ msgs \subseteq Message /\ msgs' \subseteq Message
      /\ heard \subseteq Message /\ heard' \subseteq Message /\ heard \subseteq heard'
      /\ prepared \in [Node -> ProposalIDs]
      /\ \A q \in Node : prepared[q] # NullID => prepared[q].uid = q
      /\ \A q \in Node : prepared[q].number <= prepared[q].number
  <2>1. prepared \in [Node -> ProposalIDs]
    BY DEF FullInv, IInv, TypeOK
  <2>2. \A q \in Node : prepared[q].number \in Nat
    BY <2>1, FieldTypes
  <2> QED BY <2>1, <2>2 DEF FullInv, IInv, TypeOK, RoundInv, OwnIdentifiers,
                            HearsOnlyTheAsked
<1>1. /\ \A m \in Sent("accept")' :
           \/ m \in Sent("accept")
           \/ /\ m.from = p /\ m.id = prepared[p] /\ m.value = value
              /\ MayAsk(p, value)
      /\ \A m \in Sent("prepare")' :
           m \in Sent("prepare") \/ (m.from = p /\ m.id = prepared[p])
  BY DEF OnlyPrepares, OnlyAccepts, Sent
<1>2. AcceptsWerePrepared'
  BY <1>0, <1>1 DEF AcceptsWerePrepared, MayAsk, FullInv, AskedInv
<1>3. HeardWereAsked'
  <2>1. ASSUME NEW h \in heard', h \notin heard
        PROVE  /\ h.id.uid = h.to /\ prepared[h.to] # NullID
               /\ h.id.number <= prepared[h.to].number
    <3>1. PICK r \in Sent("prepare") : h.to = p /\ r.from = p /\ r.id = h.id
      BY <2>1 DEF HearsOnlyTheAsked
    <3> QED BY <3>1 DEF FullInv, IInv, RoundInv, RequestsWerePrepared
  <2> QED BY <2>1 DEF HeardWereAsked, FullInv, AskedInv
<1>4. RoundIsSettled'
  <2> SUFFICES ASSUME NEW m \in Sent("accept")', m.id = prepared[m.from]
               PROVE  /\ m.value = m_proposedValue'[m.from]
                      /\ QuorumReached(m_promisesReceived'[m.from])
    BY DEF RoundIsSettled, QuorumReached
  <2>1. CASE m \in Sent("accept")
    <3>1. m.from \in Node /\ ~Unsettled(m.from)
      BY <1>0, <2>1, RequestFields DEF Unsettled
    <3> QED BY <2>1, <3>1 DEF RoundStays, FullInv, ValueInv, RoundIsSettled
  <2>2. CASE m \notin Sent("accept")
    BY <1>1, <2>2 DEF MayAsk
  <2> QED BY <2>1, <2>2
<1>5. AllHaveAnswered'
  <2> SUFFICES ASSUME NEW m \in Sent("accept")', NEW r \in Sent("prepare")', r.id = m.id
               PROVE  r.acceptors \subseteq Voters(m.from, m.id)'
    BY DEF AllHaveAnswered
  <2>0. /\ m.id.uid = m.from /\ prepared[m.from] # NullID
        /\ r.id.uid = r.from /\ m.from \in Node
    BY <1>0, <1>2, MessageFields DEF AcceptsWerePrepared, IInv, RoundInv,
       RequestsWerePrepared, Sent
  \* In the round, those counted are all who were asked.
  <2>1. CASE m.id = prepared[m.from]
    <3>1. QuorumReached(m_promisesReceived'[m.from])
      BY <1>4, <2>1 DEF RoundIsSettled, QuorumReached
    <3>2. r.acceptors = m_majorityAcceptors'[m.from]
      BY <2>0, <2>1 DEF RoundGoesToSelection
    <3>3. /\ m_promisesReceived'[m.from] \in SUBSET m_majorityAcceptors'[m.from]
          /\ m_majorityAcceptors'[m.from] \in SUBSET Node
          /\ Cardinality(m_majorityAcceptors'[m.from]) <= QuorumSize
      BY <2>0 DEF CountedWereAsked, SelectionIsBounded, IInv, TypeOK, ProposerTypeOK
    <3>4. m_promisesReceived'[m.from] = m_majorityAcceptors'[m.from]
      BY <3>1, <3>3, NobodyLeft
    <3>5. m_promisesReceived'[m.from] \subseteq Voters(m.from, prepared[m.from])'
      BY <2>0 DEF IInv, RoundInv, CountedHavePromised
    <3> QED BY <2>1, <3>2, <3>4, <3>5 DEF Voters
  \* Of an earlier round no request is sent any more.
  <2>2. CASE m.id # prepared[m.from]
    <3>1. m \in Sent("accept") /\ r \in Sent("prepare")
      BY <1>0, <1>1, <2>0, <2>2 DEF OnlyPrepares, Sent
    <3>2. r.acceptors \subseteq Voters(m.from, m.id)
      BY <3>1 DEF FullInv, ValueInv, AllHaveAnswered
    <3> QED BY <1>0, <3>2 DEF Voters
  <2> QED BY <2>1, <2>2
<1>6. OneValuePerID'
  <2>1. ASSUME NEW m \in Sent("accept")', NEW n \in Sent("accept")',
               m.id = n.id, m \notin Sent("accept")
        PROVE  m.value = n.value
    <3>1. m.from = p /\ m.id = prepared[p] /\ n.id = prepared[p] /\ prepared[p] # NullID
      BY <1>1, <2>1 DEF MayAsk
    <3>2. n.from = p
      BY <1>0, <1>2, <3>1 DEF AcceptsWerePrepared
    <3> QED BY <1>4, <3>1, <3>2 DEF RoundIsSettled
  <2>2. ASSUME NEW m \in Sent("accept"), NEW n \in Sent("accept"), m.id = n.id
        PROVE  m.value = n.value
    BY <2>2 DEF FullInv, ValueInv, OneValuePerID
  <2> QED BY <2>1, <2>2 DEF OneValuePerID
<1>7. ValueFollowsHighestReport'
  <2> SUFFICES ASSUME NEW m \in Sent("accept")',
                      NEW g \in heard', g.to = m.from, g.id = m.id, isValid(g.acceptID)
               PROVE  \E best \in heard' :
                        /\ best.to = m.from /\ best.acceptValue = m.value
                        /\ \A h \in heard' : h.to = m.from /\ h.id = m.id
                                               => Geq(best.acceptID, h.acceptID)
    BY DEF ValueFollowsHighestReport
  <2>1. CASE m \in Sent("accept")
    <3>1. ASSUME NEW h \in heard', h.to = m.from, h.id = m.id
          PROVE  h \in heard
      BY <2>1, <3>1 DEF HearsOnlyTheAsked, FullInv, ValueInv, AllHaveAnswered
    <3>2. PICK best \in heard :
            /\ best.to = m.from /\ best.acceptValue = m.value
            /\ \A h \in heard : h.to = m.from /\ h.id = m.id
                                  => Geq(best.acceptID, h.acceptID)
      BY <2>1, <3>1 DEF FullInv, ValueInv, ValueFollowsHighestReport
    <3> QED BY <1>0, <3>1, <3>2
  <2>2. CASE m \notin Sent("accept")
    <3>1. /\ m.from = p /\ m.id = prepared[p] /\ m.value = m_proposedValue'[p]
          /\ m_proposalID'[p] = prepared[p]
      BY <1>1, <2>2 DEF MayAsk
    <3>2. \A h \in heard' : h.to = p /\ h.id = prepared[p]
                              => Geq(m_lastAcceptedID'[p], h.acceptID)
      BY <3>1 DEF ReportInv, HeardWereCounted
    <3>3. m_lastAcceptedID'[p] # NullID
      <4>1. g.acceptID \in ValidIDs
        BY ValidHasUID DEF ReportInv, HeardReportVotes
      <4>2. Geq(m_lastAcceptedID'[p], g.acceptID)
        BY <3>1, <3>2
      <4> QED BY <4>1, <4>2, Facts, ValidAboveNull, NotGt
    <3>4. PICK best \in heard' : /\ best.to = p
                                 /\ best.acceptID = m_lastAcceptedID'[p]
                                 /\ best.acceptValue = m_proposedValue'[p]
      BY <3>3 DEF ReportInv, LastWasHeard, FollowsReport
    <3> QED BY <3>1, <3>2, <3>4
  <2> QED BY <2>1, <2>2
<1> QED BY <1>2, <1>3, <1>4, <1>5, <1>6, <1>7 DEF FullInv, AskedInv, ValueInv

\* An accept request of a proposer's round is its own.
LEMMA AcceptOfRound ==
  ASSUME FullInv, NEW p \in Node, NEW m \in Sent("accept"), m.id = prepared[p]
  PROVE  m.from = p
<1>1. m.id \in ValidIDs
  BY RequestFields DEF FullInv, IInv, TypeOK
<1> QED BY <1>1, Facts DEF FullInv, IInv, RoundInv, OwnIdentifiers, AskedInv,
                           AcceptsWerePrepared

\* What was heard was for an identifier of its hearer.
LEMMA HeardFields ==
  ASSUME FullInv, NEW h \in heard
  PROVE  /\ h.to \in Node /\ h.id \in ValidIDs /\ h.id.uid = h.to
         /\ h.id.number <= prepared[h.to].number
         /\ h.acceptID \in ProposalIDs
<1>1. h.id \in ValidIDs /\ h.id.uid = h.to /\ h.id.number <= prepared[h.to].number
  BY MessageFields DEF FullInv, IInv, TypeOK, AskedInv, HeardWereAsked
<1>2. h.acceptID \in ProposalIDs
  BY Facts DEF FullInv, ReportInv, HeardReportVotes
<1> QED BY <1>1, <1>2 DEF ValidIDs

(***************************************************************************)
(* A step in which no promise is heard or counted: a proposer may get a    *)
(* value if it has none, and its identifier may run ahead.                 *)
(***************************************************************************)
LEMMA QuietStepKeepsValues ==
  ASSUME FullInv, IInv', NEW p \in Node,
         UNCHANGED <<prepared, heard, m_lastAcceptedID, m_promisesReceived>>,
         \A q \in Node : m_proposalID[q].number <= m_proposalID'[q].number,
         \A q \in Node : \/ m_proposedValue'[q] = m_proposedValue[q]
                         \/ q = p /\ m_proposedValue[p] = NoValue,
         SelectionIsBounded', CountedWereAsked', RoundGoesToSelection',
         NEW value,
         \/ msgs' = msgs
         \/ OnlyPrepares(p, prepared[p])
         \/ OnlyAccepts(p, prepared[p], value) /\ MayAsk(p, value)
  PROVE  FullInv'
<1>1. ASSUME NEW q \in Node
      PROVE  RoundStays(q)
  <2>1. CASE m_proposedValue'[q] = m_proposedValue[q]
    BY <2>1 DEF RoundStays
  <2>2. CASE m_proposedValue[q] = NoValue
    <3>1. ASSUME NEW m \in Sent("accept"), m.id = prepared[q]
          PROVE  FALSE
      <4>1. m.from = q /\ m.value = m_proposedValue[q]
        BY <3>1, AcceptOfRound DEF FullInv, ValueInv, RoundIsSettled
      <4>2. m.value \in Value
        BY MessageFields DEF FullInv, IInv, TypeOK, Sent
      <4> QED BY <2>2, <4>1, <4>2, Facts
    <3> QED BY <3>1 DEF RoundStays, Unsettled
  <2> QED BY <2>1, <2>2
<1>2. HearsOnlyTheAsked(p)
  BY DEF HearsOnlyTheAsked
<1>3. LastWasHeard'
  <2> SUFFICES ASSUME NEW q \in Node, m_lastAcceptedID[q] # NullID
               PROVE  FollowsReport(q)'
    BY DEF LastWasHeard
  <2>1. FollowsReport(q) /\ m_proposedValue[q] \in Value
    BY LastIsVote DEF FullInv, ReportInv, LastWasHeard
  <2> QED BY <2>1, Facts DEF FollowsReport
<1>4. HeardWereCounted'
  <2> SUFFICES ASSUME NEW h \in heard, h.id = prepared[h.to],
                      m_proposalID'[h.to] = prepared[h.to]
               PROVE  /\ h.from \in m_promisesReceived[h.to]
                      /\ Geq(m_lastAcceptedID[h.to], h.acceptID)
    BY DEF HeardWereCounted
  <2>1. h.to \in Node
    BY HeardFields
  <2>2. m_proposalID[h.to] = prepared[h.to]
    BY <2>1, NoWayBack DEF FullInv, IInv, RoundInv, OwnIdentifiers
  <2> QED BY <2>2 DEF FullInv, ReportInv, HeardWereCounted
<1>5. ReportInv'
  BY <1>3, <1>4 DEF ReportInv, HeardReportVotes, FullInv
<1> QED BY <1>1, <1>2, <1>5, RoundStepKeepsValues

-----------------------------------------------------------------------------
LEMMA ObservingGrows ==
  ASSUME IInv, NEW p \in Node, NEW id \in ValidIDs,
         \/ m_proposalID' = m_proposalID
         \/ m_proposalID' = [m_proposalID EXCEPT ![p] = Observed(p, id)],
         NEW q \in Node
  PROVE  m_proposalID[q].number <= m_proposalID'[q].number
<1>1. m_proposalID[q] \in ValidIDs /\ m_proposalID[q].number \in Nat
  BY DEF IInv, TypeOK, ProposerTypeOK, ValidIDs
<1>2. \/ m_proposalID'[q] = m_proposalID[q]
      \/ m_proposalID'[q] = CatchUp(m_proposalID[q], id)
  BY DEF Observed, IInv, TypeOK, ProposerTypeOK
<1> QED BY <1>1, <1>2, CatchUpKeepsOwner

\* Nothing happens but that an identifier is observed.
LEMMA ObservingKeepsValues ==
  ASSUME FullInv, IInv', NEW p \in Node, NEW id \in ValidIDs,
         \/ m_proposalID' = m_proposalID
         \/ m_proposalID' = [m_proposalID EXCEPT ![p] = Observed(p, id)],
         UNCHANGED <<prepared, heard, m_lastAcceptedID, m_promisesReceived,
                     m_proposedValue, m_majorityAcceptors, msgs>>
  PROVE  FullInv'
<1>1. SelectionIsBounded' /\ CountedWereAsked' /\ RoundGoesToSelection'
  BY DEF FullInv, AskedInv, SelectionIsBounded, CountedWereAsked,
         RoundGoesToSelection, Sent
<1>2. \A q \in Node : m_proposalID[q].number <= m_proposalID'[q].number
  BY ObservingGrows DEF FullInv
<1> QED BY <1>1, <1>2, QuietStepKeepsValues

LEMMA QuietStepsKeepValues ==
  ASSUME FullInv, IInv', NEW p \in Node, OwnerActs(p) \/ PeersJoin(p)
  PROVE  FullInv'
<1>1. UNCHANGED <<prepared, heard, m_lastAcceptedID, m_promisesReceived,
                  m_proposedValue, m_majorityAcceptors, msgs, m_proposalID>>
  BY DEF OwnerActs, PeersJoin, setLeader, setProposerActive, HandlePingMessage
<1>2. m_proposalID[p] \in ValidIDs
  BY DEF FullInv, IInv, TypeOK, ProposerTypeOK
<1> QED BY <1>1, <1>2, ObservingKeepsValues

LEMMA NACKArrivesKeepsValues ==
  ASSUME FullInv, IInv', NEW p \in Node, NACKArrives(p)
  PROVE  FullInv'
<1>1. PICK promisedID \in OtherIDs(p) : receiveNACK(p, promisedID)
  BY DEF NACKArrives, receivePrepareNACK, receiveAcceptNACK
<1>2. /\ UNCHANGED <<prepared, heard>> /\ promisedID \in ValidIDs
      /\ m_proposalID' = [m_proposalID EXCEPT ![p] = Observed(p, promisedID)]
      /\ UNCHANGED <<m_lastAcceptedID, m_promisesReceived, m_proposedValue,
                     m_majorityAcceptors, msgs>>
  BY <1>1, OthersAreValid DEF NACKArrives, receiveNACK
<1> QED BY <1>2, ObservingKeepsValues

LEMMA StrayPromiseArrivesKeepsValues ==
  ASSUME FullInv, IInv', NEW p \in Node, StrayPromiseArrives(p)
  PROVE  FullInv'
<1>1. PICK id \in OtherIDs(p) : \E a : receivePromise(p, a, id, NullID, NoValue)
  BY DEF StrayPromiseArrives
<1>2. UNCHANGED <<prepared, heard>> /\ id \in ValidIDs /\ id.uid # p
  BY OthersAreValid DEF StrayPromiseArrives
<1>3. Observed(p, id).uid = p
  <2>1. m_proposalID[p] \in ValidIDs /\ m_proposalID[p].uid = p
    BY DEF FullInv, IInv, TypeOK, ProposerTypeOK, RoundInv, OwnIdentifiers
  <2> QED BY <1>2, <2>1, CatchUpKeepsOwner DEF Observed
<1>4. \E a : IgnorePromise(p, a, id)
  BY <1>1, <1>2, <1>3 DEF receivePromise, CountPromise, Counts
<1>5. /\ m_proposalID' = [m_proposalID EXCEPT ![p] = Observed(p, id)]
      /\ UNCHANGED <<m_lastAcceptedID, m_promisesReceived, m_proposedValue,
                     m_majorityAcceptors, msgs>>
  BY <1>4 DEF IgnorePromise
<1> QED BY <1>2, <1>5, ObservingKeepsValues

\* A leader that may send has its identifier prepared and a quorum counted.
LEMMA LeaderMayAsk ==
  ASSUME Careful, FullInv, NEW p \in Node, m_leader[p], MaySend(p),
         UNCHANGED <<m_proposalID, m_promisesReceived>>
  PROVE  MayAsk(p, m_proposedValue'[p]) /\ m_proposalID[p] = prepared[p]
<1>1. m_proposalID[p] = prepared[p] /\ m_proposalID[p] \in ValidIDs
  BY DEF MaySend, FullInv, IInv, TypeOK, ProposerTypeOK
<1> QED BY <1>1, Facts DEF MayAsk, FullInv, IInv, RoundInv, LeaderHasQuorum,
                           QuorumReached

LEMMA ProposesKeepsValues ==
  ASSUME Careful, FullInv, IInv', NEW p \in Node, Proposes(p)
  PROVE  FullInv'
<1>1. UNCHANGED <<prepared, heard, m_lastAcceptedID, m_promisesReceived,
                  m_majorityAcceptors, m_proposalID>>
  BY DEF Proposes, setProposal, resendAccept, proposerVars
<1>2. \A q \in Node : \/ m_proposedValue'[q] = m_proposedValue[q]
                      \/ q = p /\ m_proposedValue[p] = NoValue
  BY DEF Proposes, setProposal, resendAccept, proposerVars, FullInv, IInv, TypeOK,
         ProposerTypeOK
<1>3. \A q \in Node : m_proposalID[q].number <= m_proposalID'[q].number
  <2>1. m_proposalID[p] \in ValidIDs
    BY DEF FullInv, IInv, TypeOK, ProposerTypeOK
  <2> QED BY <1>1, <2>1, ObservingGrows DEF FullInv
<1>4. \/ msgs' = msgs
      \/ /\ OnlyAccepts(p, prepared[p], m_proposedValue'[p])
         /\ MayAsk(p, m_proposedValue'[p])
  <2>1. ASSUME NEW value \in Value, m_leader[p] => MaySend(p), setProposal(p, value)
        PROVE  \/ msgs' = msgs
               \/ /\ OnlyAccepts(p, prepared[p], m_proposedValue'[p])
                  /\ MayAsk(p, m_proposedValue'[p])
    <3>1. value = m_proposedValue'[p]
      BY <2>1 DEF setProposal, FullInv, IInv, TypeOK, ProposerTypeOK
    <3>2. CASE m_leader[p] /\ proposerActive[p]
      <4>1. OnlyAccepts(p, m_proposalID[p], value)
        BY <2>1, <3>2, SendAcceptSends DEF setProposal
      <4> QED BY <1>1, <2>1, <3>1, <3>2, <4>1, LeaderMayAsk
    <3>3. CASE ~(m_leader[p] /\ proposerActive[p])
      BY <2>1, <3>3 DEF setProposal, Send
    <3> QED BY <3>2, <3>3
  <2>2. CASE MaySend(p) /\ resendAccept(p)
    <3>1. m_leader[p] /\ m_proposedValue' = m_proposedValue
      BY <2>2 DEF resendAccept, proposerVars
    <3>2. OnlyAccepts(p, m_proposalID[p], m_proposedValue[p])
      BY <2>2, SendAcceptSends DEF resendAccept
    <3> QED BY <1>1, <2>2, <3>1, <3>2, LeaderMayAsk
  <2> QED BY <2>1, <2>2 DEF Proposes
<1>5. Sent("prepare")' = Sent("prepare")
  BY <1>4 DEF OnlyAccepts, Sent
<1>6. SelectionIsBounded' /\ CountedWereAsked' /\ RoundGoesToSelection'
  BY <1>1, <1>5 DEF FullInv, AskedInv, SelectionIsBounded, CountedWereAsked,
                    RoundGoesToSelection
<1> QED BY <1>1, <1>2, <1>3, <1>4, <1>6, QuietStepKeepsValues

(***************************************************************************)
(* The same request again goes to those who had it: a careful owner asks   *)
(* nobody else in the middle of a round.                                   *)
(***************************************************************************)
LEMMA RepeatsRequestKeepsValues ==
  ASSUME Careful, FullInv, IInv', NEW p \in Node, RepeatsRequest(p)
  PROVE  FullInv'
<1> DEFINE chosen == SelectMajorityAcceptors(p)
<1>1. /\ m_proposalID[p] = prepared[p]
      /\ m_majorityAcceptors[p] \in {{}, chosen}
      /\ m_majorityAcceptors' = [m_majorityAcceptors EXCEPT ![p] = chosen]
      /\ UNCHANGED <<heard, m_lastAcceptedID, m_promisesReceived,
                     m_proposedValue, m_proposalID>>
      /\ prepared' = [prepared EXCEPT ![p] = m_proposalID[p]]
      /\ OnlyPrepares(p, m_proposalID[p])
  BY SendPrepareSends DEF RepeatsRequest, MaySend, prepareAgain, sendPrepare
<1>2. /\ prepared' = prepared
      /\ m_majorityAcceptors'[p] = chosen
      /\ \A q \in Node \ {p} : m_majorityAcceptors'[q] = m_majorityAcceptors[q]
      /\ m_proposalID[p] \in ValidIDs
  BY <1>1 DEF FullInv, IInv, TypeOK, ProposerTypeOK
<1>3. SelectionIsBounded'
  BY <1>1, SelectionStaysBounded DEF FullInv, IInv, AskedInv
<1>4. CountedWereAsked'
  BY <1>1, <1>2 DEF FullInv, AskedInv, CountedWereAsked
<1>5. RoundGoesToSelection'
  <2> SUFFICES ASSUME NEW m \in Sent("prepare")'
               PROVE  /\ m.acceptors # {}
                      /\ m.id = prepared[m.from] =>
                           m.acceptors = m_majorityAcceptors'[m.from]
    BY <1>2 DEF RoundGoesToSelection
  <2>1. CASE m \in Sent("prepare")
    <3>1. m.from \in Node
      BY <2>1, RequestFields DEF FullInv, IInv, TypeOK
    <3>2. m.acceptors # {} /\ (m.id = prepared[m.from] =>
                                 m.acceptors = m_majorityAcceptors[m.from])
      BY <2>1 DEF FullInv, AskedInv, RoundGoesToSelection
    <3> QED BY <1>1, <1>2, <3>1, <3>2
  <2>2. CASE m \notin Sent("prepare")
    BY <1>1, <1>2, <2>2 DEF OnlyPrepares, Sent
  <2> QED BY <2>1, <2>2
<1>6. \A q \in Node : m_proposalID[q].number <= m_proposalID'[q].number
  BY <1>1, <1>2, ObservingGrows DEF FullInv
<1> QED BY <1>1, <1>2, <1>3, <1>4, <1>5, <1>6, QuietStepKeepsValues

-----------------------------------------------------------------------------
(***************************************************************************)
(* A new round is above all that its proposer ever asked for or heard, and *)
(* follows the same report as the round before.                            *)
(***************************************************************************)
LEMMA StartsRoundKeepsValues ==
  ASSUME FullInv, IInv', NEW p \in Node, StartsRound(p)
  PROVE  FullInv'
<1> DEFINE id == incrementNumber(m_proposalID[p])
           chosen == SelectMajorityAcceptors(p)
<1>1. /\ id \in ValidIDs /\ id # NullID /\ id.uid = p
      /\ id.number = m_proposalID[p].number + 1
      /\ m_proposalID[p].number \in Nat
  BY NextNumber, Facts DEF FullInv, IInv, TypeOK, ProposerTypeOK, RoundInv,
     OwnIdentifiers, ValidIDs
<1>2. /\ m_promisesReceived' = [m_promisesReceived EXCEPT ![p] = {}]
      /\ m_proposalID' = [m_proposalID EXCEPT ![p] = id]
      /\ m_majorityAcceptors' = [m_majorityAcceptors EXCEPT ![p] = chosen]
      /\ OnlyPrepares(p, id)
      /\ UNCHANGED <<heard, m_proposedValue, m_lastAcceptedID>>
      /\ prepared' = [prepared EXCEPT ![p] = m_proposalID'[p]]
  BY SendPrepareSends DEF StartsRound, prepareNext, beginRound, sendPrepare
<1> HIDE DEF id
<1>3. /\ prepared'[p] = id /\ m_promisesReceived'[p] = {}
      /\ m_majorityAcceptors'[p] = chosen
      /\ \A q \in Node \ {p} : /\ m_proposalID'[q] = m_proposalID[q]
                               /\ prepared'[q] = prepared[q]
                               /\ m_promisesReceived'[q] = m_promisesReceived[q]
                               /\ m_majorityAcceptors'[q] = m_majorityAcceptors[q]
  BY <1>2 DEF FullInv, IInv, TypeOK, ProposerTypeOK
<1>4. /\ Sent("accept")' = Sent("accept")
      /\ \A m \in Sent("prepare")' :
           \/ m \in Sent("prepare")
           \/ m.from = p /\ m.id = id /\ m.acceptors = chosen /\ m.acceptors # {}
  BY <1>2 DEF OnlyPrepares, Sent
<1>5. ASSUME NEW old \in ValidIDs, prepared[p] # NullID,
             old.number <= prepared[p].number
      PROVE  old # id /\ old.number <= id.number
  <2>1. prepared[p].number <= m_proposalID[p].number
    BY <1>5 DEF FullInv, IInv, RoundInv, OwnIdentifiers
  <2>2. old.number \in Nat /\ prepared[p].number \in Nat
    BY FieldTypes, Facts DEF FullInv, IInv, TypeOK
  <2> QED BY <1>1, <1>5, <2>1, <2>2
<1>6. \A m \in Sent("prepare") :
        /\ m.from \in Node /\ m.acceptors # {}
        /\ m.from = p => m.id # id
        /\ m.id = prepared[m.from] => m.acceptors = m_majorityAcceptors[m.from]
  BY <1>5, RequestFields DEF FullInv, IInv, TypeOK, RoundInv, RequestsWerePrepared,
     AskedInv, RoundGoesToSelection
<1>7. \A m \in Sent("accept") :
        /\ m.from \in Node /\ m.id.uid = m.from /\ prepared[m.from] # NullID
        /\ m.id.number <= prepared[m.from].number
        /\ m.from = p => m.id # id /\ m.id.number <= id.number
  BY <1>5, RequestFields DEF FullInv, IInv, TypeOK, AskedInv, AcceptsWerePrepared
<1>8. \A h \in heard :
        /\ h.to \in Node /\ h.id.uid = h.to /\ prepared[h.to] # NullID
        /\ h.id.number <= prepared[h.to].number
        /\ h.to = p => h.id # id /\ h.id.number <= id.number
  BY <1>5, HeardFields DEF FullInv, AskedInv, HeardWereAsked
<1>9. AskedInv'
  <2>1. SelectionIsBounded'
    BY <1>2, SelectionStaysBounded DEF FullInv, IInv, AskedInv
  <2>2. RoundGoesToSelection'
    BY <1>3, <1>4, <1>6 DEF RoundGoesToSelection
  <2>3. CountedWereAsked'
    BY <1>3 DEF CountedWereAsked, FullInv, AskedInv
  <2>4. AcceptsWerePrepared'
    BY <1>1, <1>3, <1>4, <1>7 DEF AcceptsWerePrepared
  <2>5. HeardWereAsked'
    BY <1>1, <1>2, <1>3, <1>8 DEF HeardWereAsked
  <2> QED BY <2>1, <2>2, <2>3, <2>4, <2>5 DEF AskedInv
<1>10. ReportInv'
  <2>1. HeardReportVotes' /\ LastWasHeard'
    BY <1>2 DEF HeardReportVotes, LastWasHeard, FollowsReport, FullInv, ReportInv
  <2>2. HeardWereCounted'
    <3> SUFFICES ASSUME NEW h \in heard, h.id = prepared'[h.to],
                        m_proposalID'[h.to] = prepared'[h.to]
                 PROVE  /\ h.from \in m_promisesReceived'[h.to]
                        /\ Geq(m_lastAcceptedID[h.to], h.acceptID)
      BY <1>2 DEF HeardWereCounted
    <3>1. h.to # p /\ h.to \in Node
      BY <1>3, <1>8
    <3> QED BY <1>3, <3>1 DEF FullInv, ReportInv, HeardWereCounted
  <2> QED BY <2>1, <2>2 DEF ReportInv
<1>11. RoundIsSettled'
  <2> SUFFICES ASSUME NEW m \in Sent("accept"), m.id = prepared'[m.from]
               PROVE  /\ m.value = m_proposedValue[m.from]
                      /\ QuorumReached(m_promisesReceived'[m.from])
    BY <1>2, <1>4 DEF RoundIsSettled, QuorumReached
  <2>1. m.from # p /\ m.from \in Node
    BY <1>3, <1>7
  <2> QED BY <1>3, <2>1 DEF FullInv, ValueInv, RoundIsSettled
<1>12. AllHaveAnswered'
  <2> SUFFICES ASSUME NEW m \in Sent("accept"), NEW r \in Sent("prepare")', r.id = m.id
               PROVE  r.acceptors \subseteq Voters(m.from, m.id)
    BY <1>2, <1>4 DEF AllHaveAnswered, Voters
  <2>1. r \in Sent("prepare")
    BY <1>1, <1>4, <1>7
  <2> QED BY <2>1 DEF FullInv, ValueInv, AllHaveAnswered
<1>13. OneValuePerID' /\ ValueFollowsHighestReport'
  BY <1>2, <1>4 DEF OneValuePerID, ValueFollowsHighestReport, FullInv, ValueInv
<1> QED BY <1>9, <1>10, <1>11, <1>12, <1>13 DEF FullInv, ValueInv

-----------------------------------------------------------------------------
\* A promise delivered: its report is a vote or nothing, and it is heard if
\* it is the first of its acceptor for its identifier.
LEMMA PromiseHeard ==
  ASSUME TypeOK, NEW p \in Node, PromiseArrives(p)
  PROVE  \E request \in Sent("prepare") : \E a \in request.acceptors :
         \E acceptID \in ValidIDs \cup {NullID} : \E acceptValue :
           /\ request.from = p
           /\ acceptID # NullID => acceptValue \in Value
           /\ receivePromise(p, a, request.id, acceptID, acceptValue)
           /\ \/ heard' = heard /\ a \in Voters(p, request.id)
              \/ /\ a \notin Voters(p, request.id)
                 /\ heard' = heard \cup
                      {Promise(a, p, request.id, acceptID, acceptValue)}
<1> DEFINE Delivered(request, a, report) ==
             /\ request.from = p
             /\ receivePromise(p, a, request.id, report[1], report[2])
             /\ \/ heard' = heard /\ a \in Voters(p, request.id)
                \/ /\ a \notin Voters(p, request.id)
                   /\ heard' = heard \cup
                        {Promise(a, p, request.id, report[1], report[2])}
<1>1. PICK request \in Sent("prepare") : \E a \in request.acceptors :
        \E report \in Reports(p, request.id) \cup OwnVotes(p, a, request.id) :
          Delivered(request, a, report)
  BY DEF PromiseArrives, Promise, Voters
<1>2. PICK a \in request.acceptors :
        \E report \in Reports(p, request.id) \cup OwnVotes(p, a, request.id) :
          Delivered(request, a, report)
  BY <1>1
<1>3. PICK report \in Reports(p, request.id) \cup OwnVotes(p, a, request.id) :
        Delivered(request, a, report)
  BY <1>2
<1>4. /\ report[1] \in ValidIDs \cup {NullID}
      /\ report[1] # NullID => report[2] \in Value
  <2>1. CASE report \in Reports(p, request.id)
    BY <2>1, OthersAreValid DEF Reports
  <2>2. CASE report \in OwnVotes(p, a, request.id)
    <3>1. PICK m \in Sent("accept") : report = <<m.id, m.value>>
      BY <2>2 DEF OwnVotes
    <3>2. m.value \in Value /\ m.id \in ValidIDs
      BY MessageFields DEF Sent, TypeOK
    <3> QED BY <3>1, <3>2
  <2> QED BY <2>1, <2>2
<1> QED BY <1>3, <1>4

\* A promise that counts comes while nothing is settled: someone asked has
\* not been counted.
LEMMA CountedIsUnsettled ==
  ASSUME FullInv, NEW p \in Node, NEW request \in Sent("prepare"),
         NEW a \in request.acceptors, request.from = p, request.id = prepared[p],
         a \notin m_promisesReceived[p]
  PROVE  Unsettled(p) /\ a \in m_majorityAcceptors[p]
<1>1. request.acceptors = m_majorityAcceptors[p]
  BY DEF FullInv, AskedInv, RoundGoesToSelection
<1>2. ASSUME NEW m \in Sent("accept"), m.id = prepared[p]
      PROVE  FALSE
  <2>1. QuorumReached(m_promisesReceived[p])
    BY <1>2, AcceptOfRound DEF FullInv, ValueInv, RoundIsSettled
  <2>2. /\ m_promisesReceived[p] \in SUBSET m_majorityAcceptors[p]
        /\ m_majorityAcceptors[p] \in SUBSET Node
        /\ Cardinality(m_majorityAcceptors[p]) <= QuorumSize
    BY DEF FullInv, IInv, TypeOK, ProposerTypeOK, AskedInv, CountedWereAsked,
           SelectionIsBounded
  <2> QED BY <1>1, <2>1, <2>2, NobodyLeft
<1> QED BY <1>1, <1>2 DEF Unsettled

\* A promise that does not count is one more of an acceptor counted already,
\* or for an identifier that has been left behind.
LEMMA IgnoredPromiseKeepsValues ==
  ASSUME FullInv, IInv', NEW p \in Node,
         NEW request \in Sent("prepare"), NEW a \in request.acceptors,
         NEW acceptID \in ValidIDs \cup {NullID}, NEW acceptValue,
         request.from = p, acceptID # NullID => acceptValue \in Value,
         prepared' = prepared,
         \/ heard' = heard /\ a \in Voters(p, request.id)
         \/ /\ a \notin Voters(p, request.id)
            /\ heard' = heard \cup
                 {Promise(a, p, request.id, acceptID, acceptValue)},
         IgnorePromise(p, a, request.id)
  PROVE  FullInv'
<1>1. /\ ~Counts(p, a, request.id)
      /\ m_proposalID' = [m_proposalID EXCEPT ![p] = Observed(p, request.id)]
      /\ UNCHANGED <<m_lastAcceptedID, m_promisesReceived, m_proposedValue,
                     m_majorityAcceptors, msgs>>
  BY DEF IgnorePromise
<1>2. HearsOnlyTheAsked(p)
  BY DEF HearsOnlyTheAsked, Promise
<1>3. SelectionIsBounded' /\ CountedWereAsked' /\ RoundGoesToSelection'
  BY <1>1 DEF FullInv, AskedInv, SelectionIsBounded, CountedWereAsked,
              RoundGoesToSelection, Sent
<1>4. \A q \in Node : RoundStays(q)
  BY <1>1 DEF RoundStays
<1>5. HeardReportVotes' /\ LastWasHeard'
  BY <1>1 DEF HeardReportVotes, LastWasHeard, FollowsReport, FullInv, ReportInv, Promise
<1>6. HeardWereCounted'
  <2> SUFFICES ASSUME NEW h \in heard', h.id = prepared[h.to],
                      m_proposalID'[h.to] = prepared[h.to]
               PROVE  /\ h.from \in m_promisesReceived[h.to]
                      /\ Geq(m_lastAcceptedID[h.to], h.acceptID)
    BY <1>1 DEF HeardWereCounted
  <2>1. h.to \in Node
    BY HeardFields DEF Promise
  <2>2. m_proposalID[h.to].number <= m_proposalID'[h.to].number
    <3>1. request.id \in ValidIDs
      BY RequestFields DEF FullInv, IInv, TypeOK
    <3> QED BY <1>1, <2>1, <3>1, ObservingGrows DEF FullInv
  <2>3. m_proposalID[h.to] = prepared[h.to]
    BY <2>1, <2>2, NoWayBack DEF FullInv, IInv, RoundInv, OwnIdentifiers
  <2>4. CASE h \in heard
    BY <2>3, <2>4 DEF FullInv, ReportInv, HeardWereCounted
  <2>5. CASE h \notin heard
    <3>1. /\ h.to = p /\ h.id = request.id /\ a \notin Voters(p, request.id)
      BY <2>5 DEF Promise
    <3>2. Observed(p, request.id) = request.id
      BY <1>1, <3>1 DEF FullInv, IInv, TypeOK, ProposerTypeOK
    <3>3. a \in m_promisesReceived[p]
      BY <1>1, <3>2 DEF Counts
    <3> QED BY <3>1, <3>3 DEF FullInv, IInv, RoundInv, CountedHavePromised
  <2> QED BY <2>4, <2>5
<1> QED BY <1>1, <1>2, <1>3, <1>4, <1>5, <1>6, RoundStepKeepsValues DEF ReportInv

LEMMA CountedPromiseKeepsValues ==
  ASSUME FullInv, IInv', NEW p \in Node,
         NEW request \in Sent("prepare"), NEW a \in request.acceptors,
         NEW acceptID \in ValidIDs \cup {NullID}, NEW acceptValue,
         request.from = p, acceptID # NullID => acceptValue \in Value,
         prepared' = prepared,
         \/ heard' = heard /\ a \in Voters(p, request.id)
         \/ /\ a \notin Voters(p, request.id)
            /\ heard' = heard \cup
                 {Promise(a, p, request.id, acceptID, acceptValue)},
         CountPromise(p, a, request.id, acceptID, acceptValue)
  PROVE  FullInv'
<1> DEFINE id == request.id
           promises == m_promisesReceived[p] \cup {a}
           last == m_lastAcceptedID'[p]
           value == m_proposedValue'[p]
<1>1. ProposerTypeOK /\ id \in ValidIDs
  BY RequestFields DEF FullInv, IInv, TypeOK
<1>2. /\ id = Observed(p, id) /\ a \notin m_promisesReceived[p]
      /\ m_promisesReceived'[p] = promises
      /\ last = IF IsNews(p, acceptID) THEN acceptID ELSE m_lastAcceptedID[p]
      /\ value = Adopted(p, acceptID, acceptValue)
      /\ m_proposalID'[p] = id
      /\ OnlyAccepts(p, id, value)
      /\ msgs' = msgs \/ QuorumReached(promises)
      /\ m_majorityAcceptors' = m_majorityAcceptors
  <2>1. m_majorityAcceptors' = m_majorityAcceptors
    BY DEF CountPromise
  <2>2. /\ request.id = Observed(p, request.id) /\ a \notin m_promisesReceived[p]
        /\ m_promisesReceived'[p] = m_promisesReceived[p] \cup {a}
        /\ m_lastAcceptedID'[p] = IF IsNews(p, acceptID) THEN acceptID
                                                         ELSE m_lastAcceptedID[p]
        /\ m_proposedValue'[p] = Adopted(p, acceptID, acceptValue)
        /\ m_proposalID'[p] = request.id
        /\ OnlyAccepts(p, request.id, m_proposedValue'[p])
        /\ \/ msgs' = msgs
           \/ QuorumReached(m_promisesReceived[p] \cup {a})
    <3> HIDE DEF id, promises, last, value
    <3> QED BY <1>1, CountPromiseEffect
  <2> QED BY <2>1, <2>2
<1>3. \A q \in Node \ {p} : /\ m_promisesReceived'[q] = m_promisesReceived[q]
                            /\ m_lastAcceptedID'[q] = m_lastAcceptedID[q]
                            /\ m_proposedValue'[q] = m_proposedValue[q]
                            /\ m_proposalID'[q] = m_proposalID[q]
  BY <1>1, ReceivePromiseFrame DEF receivePromise
<1>4. id = m_proposalID[p] /\ id = prepared[p] /\ id # NullID
  BY <1>1, <1>2, CountedIsPrepared, Facts DEF FullInv
<1>5. Unsettled(p) /\ a \in m_majorityAcceptors[p]
  BY <1>2, <1>4, CountedIsUnsettled
<1> HIDE DEF promises, last, value
\* Every promise for this round has been counted: this one is new.
<1>6. /\ a \notin Voters(p, id)
      /\ heard' = heard \cup {Promise(a, p, id, acceptID, acceptValue)}
  <2>1. ASSUME NEW h \in heard, h.to = p, h.id = id, h.from = a
        PROVE  FALSE
    BY <1>2, <1>4, <2>1 DEF FullInv, ReportInv, HeardWereCounted
  <2> QED BY <2>1 DEF Voters
<1>7. HearsOnlyTheAsked(p)
  BY <1>6 DEF HearsOnlyTheAsked, Promise
<1>8. SelectionIsBounded' /\ CountedWereAsked' /\ RoundGoesToSelection'
  <2>1. Sent("prepare")' = Sent("prepare")
    BY <1>2 DEF OnlyAccepts, Sent
  <2>2. CountedWereAsked'
    BY <1>2, <1>3, <1>5 DEF FullInv, AskedInv, CountedWereAsked, promises
  <2> QED BY <1>2, <2>1, <2>2 DEF FullInv, AskedInv, SelectionIsBounded,
                                  RoundGoesToSelection
<1>9. \A q \in Node : RoundStays(q)
  BY <1>3, <1>5 DEF RoundStays
<1>10. acceptID \in ProposalIDs /\ m_lastAcceptedID[p] \in ValidIDs \cup {NullID}
  BY Facts, LastIsVote
<1>11. last \in ProposalIDs /\ Geq(last, acceptID) /\ Geq(last, m_lastAcceptedID[p])
  BY <1>2, <1>10, HighestReport
<1>12. HeardReportVotes'
  BY <1>6 DEF HeardReportVotes, FullInv, ReportInv, Promise
<1>13. LastWasHeard'
  <2> SUFFICES ASSUME NEW q \in Node, m_lastAcceptedID'[q] # NullID
               PROVE  FollowsReport(q)'
    BY DEF LastWasHeard
  <2>1. CASE q # p
    BY <1>3, <1>6, <2>1 DEF FullInv, ReportInv, LastWasHeard, FollowsReport
  <2>2. CASE q = p /\ IsNews(p, acceptID)
    <3>1. last = acceptID /\ acceptValue \in Value
      BY <1>2, <2>2 DEF last
    <3>2. value = acceptValue
      BY <1>2, <2>2, <3>1, Facts DEF Adopted
    <3> DEFINE new == Promise(a, p, id, acceptID, acceptValue)
    <3>3. new \in heard'
      BY <1>6
    <3>4. /\ new.to = p /\ new.acceptID = acceptID /\ new.acceptValue = acceptValue
      BY DEF Promise
    <3> HIDE DEF new
    <3> QED BY <2>2, <3>1, <3>2, <3>3, <3>4 DEF FollowsReport, last, value
  <2>3. CASE q = p /\ ~IsNews(p, acceptID)
    <3>1. last = m_lastAcceptedID[p] /\ value = m_proposedValue[p]
      BY <1>2, <2>3 DEF Adopted
    <3> QED BY <1>6, <2>3, <3>1 DEF FullInv, ReportInv, LastWasHeard, FollowsReport,
                                    last, value
  <2> QED BY <2>1, <2>2, <2>3
<1>14. HeardWereCounted'
  <2> SUFFICES ASSUME NEW h \in heard', h.id = prepared[h.to],
                      m_proposalID'[h.to] = prepared[h.to]
               PROVE  /\ h.from \in m_promisesReceived'[h.to]
                      /\ Geq(m_lastAcceptedID'[h.to], h.acceptID)
    BY DEF HeardWereCounted
  <2>1. CASE h \notin heard
    BY <1>2, <1>6, <1>11, <2>1 DEF Promise, promises, last
  <2>2. CASE h \in heard /\ h.to = p
    <3>1. /\ h.from \in m_promisesReceived[p]
          /\ Geq(m_lastAcceptedID[p], h.acceptID)
      BY <1>4, <2>2 DEF FullInv, ReportInv, HeardWereCounted
    <3>2. h.acceptID \in ProposalIDs /\ m_lastAcceptedID[p] \in ProposalIDs
      BY <1>10, <2>2, HeardFields, Facts
    <3>3. Geq(last, h.acceptID)
      BY <1>11, <3>1, <3>2, GeqTransitive
    <3> QED BY <1>2, <2>2, <3>1, <3>3 DEF promises, last
  <2>3. CASE h \in heard /\ h.to # p
    BY <1>3, <2>3, HeardFields DEF FullInv, ReportInv, HeardWereCounted
  <2> QED BY <2>1, <2>2, <2>3
<1>15. ReportInv'
  BY <1>12, <1>13, <1>14 DEF ReportInv
<1>16. msgs' = msgs \/ (OnlyAccepts(p, prepared[p], value) /\ MayAsk(p, value))
  BY <1>2, <1>4 DEF MayAsk, value
<1> QED BY <1>7, <1>8, <1>9, <1>15, <1>16, RoundStepKeepsValues

LEMMA PromiseArrivesKeepsValues ==
  ASSUME FullInv, IInv', NEW p \in Node, PromiseArrives(p)
  PROVE  FullInv'
<1>1. prepared' = prepared
  BY DEF PromiseArrives
<1> QED BY <1>1, PromiseHeard, IgnoredPromiseKeepsValues, CountedPromiseKeepsValues
        DEF receivePromise, FullInv, IInv

-----------------------------------------------------------------------------
LEMMA InitFullInv == Init => FullInv
<1> SUFFICES ASSUME Init PROVE FullInv
  OBVIOUS
<1>1. /\ m_promisesReceived = [p \in Node |-> {}]
      /\ m_majorityAcceptors = [p \in Node |-> {}]
      /\ m_lastAcceptedID = [p \in Node |-> NullID]
      /\ msgs = {} /\ heard = {}
  BY DEF Init, ProposerInit
<1>2. AskedInv
  BY <1>1, FS_EmptySet, Facts DEF AskedInv, SelectionIsBounded, RoundGoesToSelection,
     CountedWereAsked, AcceptsWerePrepared, HeardWereAsked, Sent
<1>3. ReportInv /\ ValueInv
  BY <1>1 DEF ReportInv, HeardReportVotes, LastWasHeard, HeardWereCounted, ValueInv,
     RoundIsSettled, AllHaveAnswered, OneValuePerID, ValueFollowsHighestReport, Sent
<1> QED BY <1>2, <1>3, InitIInv DEF FullInv

LEMMA NextFullInv ==
  ASSUME Careful
  PROVE  FullInv /\ [Next]_vars => FullInv'
<1> SUFFICES ASSUME FullInv, [Next]_vars PROVE FullInv'
  OBVIOUS
<1>1. IInv'
  BY NextIInv DEF FullInv
<1>2. CASE UNCHANGED vars
  BY <1>1, <1>2 DEF vars, proposerVars, FullInv, AskedInv, SelectionIsBounded,
     RoundGoesToSelection, CountedWereAsked, AcceptsWerePrepared, HeardWereAsked,
     ReportInv, HeardReportVotes, LastWasHeard, FollowsReport, HeardWereCounted,
     ValueInv, RoundIsSettled, AllHaveAnswered, OneValuePerID,
     ValueFollowsHighestReport, Sent, Voters, QuorumReached
<1>3. CASE Next
  <2>1. PICK p \in Proposers :
          \/ StartsRound(p) \/ RepeatsRequest(p) \/ Proposes(p) \/ OwnerActs(p)
          \/ PeersJoin(p) \/ PromiseArrives(p) \/ StrayPromiseArrives(p)
          \/ NACKArrives(p)
    BY <1>3 DEF Next
  <2> QED BY <1>1, <2>1, Facts, StartsRoundKeepsValues, RepeatsRequestKeepsValues,
             ProposesKeepsValues, QuietStepsKeepValues, PromiseArrivesKeepsValues,
             StrayPromiseArrivesKeepsValues, NACKArrivesKeepsValues
<1> QED BY <1>2, <1>3

(***************************************************************************)
(* If the owner is careful, an identifier stands for one proposal: once a  *)
(* proposer has sent an accept request, no promise that arrives later, and *)
(* no value its owner sets later, changes what it asks for in that round.  *)
(***************************************************************************)
THEOREM OneProposalPerIdentifier ==
  ASSUME Careful
  PROVE  Spec => []OneValuePerID
<1>1. FullInv => OneValuePerID
  BY DEF FullInv, ValueInv
<1>2. FullInv /\ [Next]_vars => FullInv'
  BY NextFullInv
<1> QED BY <1>1, <1>2, InitFullInv, PTL DEF Spec

(***************************************************************************)
(* If the owner is careful, the value a proposer asks for came with a vote *)
(* at least as high as every vote reported to it for that identifier, of   *)
(* others or cast at its own earlier requests: over all the rounds it has  *)
(* run, and whatever order the promises came in.                           *)
(***************************************************************************)
THEOREM HighestReportIsFollowed ==
  ASSUME Careful
  PROVE  Spec => []ValueFollowsHighestReport
<1>1. FullInv => ValueFollowsHighestReport
  BY DEF FullInv, ValueInv
<1>2. FullInv /\ [Next]_vars => FullInv'
  BY NextFullInv
<1> QED BY <1>1, <1>2, InitFullInv, PTL DEF Spec
=============================================================================
