---------------------------- MODULE PaxosProofs -----------------------------
(***************************************************************************)
(* Proposers and acceptors together implement Consensus: for any set of    *)
(* nodes, any quorum size that is a majority of them, any number of        *)
(* rounds, and messages lost, repeated and reordered.                      *)
(***************************************************************************)
EXTENDS Paxos, RoleProofs

-----------------------------------------------------------------------------
(***************************************************************************)
(* The inductive invariant.  All nodes know each other, so the requests of *)
(* a node always go to the same acceptors.                                 *)
(***************************************************************************)
Selected(p) == Least(Node \ {p})

SelectionIsFixed ==
  \A p \in Node : /\ m_peers[p] = Node \ {p}
                  /\ m_majorityAcceptors[p] \in {{}, Selected(p)}

\* The owner of id has prepared it, or one of its own above it.
Asked(id) == prepared[id.uid] # NullID /\ id.number <= prepared[id.uid].number

OwnIdentifiers ==
  \A p \in Node :
    /\ m_proposalID[p].uid = p
    /\ prepared[p] # NullID => /\ prepared[p].uid = p
                               /\ prepared[p].number <= m_proposalID[p].number

RequestsWerePrepared ==
  \A m \in Sent("prepare") \cup Sent("accept") :
    m.id.uid = m.from /\ Asked(m.id) /\ m.acceptors \subseteq Selected(m.from)

\* An acceptor promises what it has been asked to promise.
PromisesWereAsked ==
  /\ \A a \in Node : m_promisedID[a] = NullID
                       \/ (Asked(m_promisedID[a]) /\ a \in Selected(m_promisedID[a].uid))
  /\ \A m \in Sent("promise") : Asked(m.id) /\ m.from \in Selected(m.id.uid)

Proposed(id, value) == \E m \in Sent("accept") : m.id = id /\ m.value = value

\* What is accepted, permitted, reported or taken over has been proposed.
AcceptedWasProposed ==
  /\ \A a \in Node : m_acceptedID[a] = NullID
                       \/ Proposed(m_acceptedID[a], m_acceptedValue[a])
  /\ \A m \in Sent("permit") : Proposed(m.id, m.value)

ReportedWasProposed ==
  /\ \A m \in Sent("promise") : m.acceptID = NullID \/ Proposed(m.acceptID, m.acceptValue)
  /\ \A p \in Node : m_lastAcceptedID[p] = NullID
                       \/ Proposed(m_lastAcceptedID[p], m_proposedValue[p])

\* A promise for the round of p that reports no vote above id.
HasPromised(a, p, id) ==
  \E m \in Sent("promise") : /\ m.from = a /\ m.id = prepared[p]
                             /\ Geq(id, m.acceptID)

CountedHavePromised ==
  \A p \in Node : \A a \in m_promisesReceived[p] :
    a \in Selected(p) /\ HasPromised(a, p, m_lastAcceptedID[p])

LeaderHasQuorum ==
  \A p \in Node : m_leader[p] /\ prepared[p] # NullID
                    => QuorumReached(m_promisesReceived[p])

\* As long as a round lasts, its accept requests carry the proposer's value.
RoundIsSettled ==
  \A m \in Sent("accept") :
    m.id = prepared[m.from] => /\ m.value = m_proposedValue[m.from]
                               /\ QuorumReached(m_promisesReceived[m.from])

OneValuePerID ==
  \A m, n \in Sent("accept") : m.id = n.id => m.value = n.value

(***************************************************************************)
(* Acceptor a has not permitted id and never will: it has promised a       *)
(* higher identifier when its vote was a lower one.  A value is safe at id *)
(* if no other value can be chosen below id: for every lower identifier, a *)
(* quorum skips it, or the value is the one proposed with it.              *)
(***************************************************************************)
Skips(a, id) ==
  \E m \in Sent("promise") : m.from = a /\ Gt(id, m.acceptID) /\ Gt(m.id, id)

SafeAt(id, value) ==
  \A c \in ValidIDs :
    Gt(id, c) => \/ Proposed(c, value)
                 \/ \E Q \in SUBSET Node : QuorumReached(Q) /\ \A a \in Q : Skips(a, c)

AcceptsAreSafe == \A m \in Sent("accept") : SafeAt(m.id, m.value)

TypeInv == TypeOK /\ AcceptorInv /\ MessageInv

RequestInv ==
  /\ SelectionIsFixed
  /\ OwnIdentifiers
  /\ RequestsWerePrepared
  /\ PromisesWereAsked

VoteInv ==
  /\ AcceptedWasProposed
  /\ ReportedWasProposed
  /\ CountedHavePromised
  /\ LeaderHasQuorum
  /\ RoundIsSettled

SafetyInv == OneValuePerID /\ AcceptsAreSafe

IInv == TypeInv /\ RequestInv /\ VoteInv /\ SafetyInv

-----------------------------------------------------------------------------
LEMMA Facts ==
  /\ Proposers \subseteq Node
  /\ ValidIDs \subseteq ProposalIDs /\ NullID \in ProposalIDs
  /\ NullID \notin ValidIDs
  /\ \A id \in ProposalIDs : isValid(id) <=> id \in ValidIDs
BY RoleFacts, ValidHasUID, PaxosAssumption DEF PaxosAssumption

\* What an acceptor does, seen from outside.
AcceptorEffect(a) ==
  \/ Answers
  \/ \E m \in Sent("prepare") : a \in m.acceptors /\ RaisesPromise(a, m.id)
  \/ \E m \in Sent("accept") : a \in m.acceptors /\ RaisesVote(a, m.id, m.value)

LEMMA AcceptorStepEffect ==
  ASSUME AcceptorInv, msgs \subseteq Message, NEW a \in Node, AcceptorStep(a)
  PROVE  /\ AcceptorInv' /\ AcceptorEffect(a)
         /\ UNCHANGED <<proposerVars, prepared>>
<1>1. CASE DeliverPrepare(a)
  <2>1. PICK m \in Sent("prepare") : a \in m.acceptors /\ receivePrepare(a, m.from, m.id)
    BY <1>1 DEF DeliverPrepare
  <2>2. m.from \in Node /\ m.id \in ValidIDs
    BY RequestFields
  <2> QED BY <1>1, <2>1, <2>2, ReceivePrepareKeeps DEF DeliverPrepare, AcceptorEffect
<1>2. CASE DeliverAccept(a)
  <2>1. PICK m \in Sent("accept") :
          a \in m.acceptors /\ receiveAcceptRequest(a, m.from, m.id, m.value)
    BY <1>2 DEF DeliverAccept
  <2>2. m.from \in Node /\ m.id \in ValidIDs /\ m.value \in Value
    BY MessageFields DEF Sent
  <2> QED BY <1>2, <2>1, <2>2, ReceiveAcceptRequestKeeps
          DEF DeliverAccept, AcceptorEffect
<1>3. CASE PersistAndAnswer(a)
  BY <1>3, PersistKeeps DEF PersistAndAnswer, AcceptorEffect
<1> QED BY <1>1, <1>2, <1>3 DEF AcceptorStep

LEMMA AcceptorStepTypes ==
  ASSUME TypeInv, NEW a \in Node, AcceptorStep(a)
  PROVE  TypeInv'
<1>1. /\ AcceptorInv' /\ AcceptorEffect(a)
      /\ UNCHANGED <<proposerVars, prepared>>
  BY AcceptorStepEffect DEF TypeInv, TypeOK
<1>2. MessageInv'
  <2>1. CASE Answers
    BY <1>1, <2>1, AnswersKeepMessageInv DEF TypeInv
  <2>2. ASSUME NEW m \in Sent("prepare"), RaisesPromise(a, m.id)
        PROVE  MessageInv'
    BY <1>1, <2>2, RequestFields, AcceptorKeepsMessageInv DEF TypeInv, TypeOK
  <2>3. ASSUME NEW m \in Sent("accept"), RaisesVote(a, m.id, m.value)
        PROVE  MessageInv'
    BY <1>1, <2>3, RequestFields, AcceptorKeepsMessageInv DEF TypeInv, TypeOK
  <2> QED BY <1>1, <2>1, <2>2, <2>3 DEF AcceptorEffect
<1>3. TypeOK'
  BY <1>1, <1>2 DEF TypeInv, TypeOK, AcceptorInv, MessageInv, proposerVars,
                    ProposerTypeOK
<1> QED BY <1>1, <1>2, <1>3 DEF TypeInv

\* What a proposer sends is requests, and it leaves its acceptor alone.
LEMMA ProposerStepTypes ==
  ASSUME TypeInv, NEW p \in Node, ProposerStep(p)
  PROVE  TypeInv'
<1>0. /\ AcceptorInv /\ MessageInv /\ ProposerTypeOK /\ msgs \subseteq Message
      /\ m_proposalID[p] \in ProposalIDs
  BY Facts DEF TypeInv, TypeOK, ProposerTypeOK
<1> SUFFICES /\ ProposerTypeOK' /\ msgs' \subseteq Message
             /\ prepared' \in [Node -> ProposalIDs]
             /\ UNCHANGED acceptorVars
             /\ \E id, value : OnlyPrepares(p, id) \/ OnlyAccepts(p, id, value)
  <2>1. AcceptorInv'
    BY <1>0, SameFieldsKeepAcceptorInv
  <2>2. MessageInv'
    BY <1>0, ProposerSendsKeepMessageInv
  <2> QED BY <2>1, <2>2 DEF TypeInv, TypeOK, AcceptorInv
<1>1. CASE StartRound(p)
  <2>1. ProposerTypeOK' /\ msgs' \subseteq Message
    BY <1>0, <1>1, PrepareTypes DEF StartRound
  <2>2. m_proposalID'[p] \in ProposalIDs
    BY <2>1, Facts DEF ProposerTypeOK
  <2>3. \E id : OnlyPrepares(p, id)
    BY <1>1, SendPrepareSends DEF StartRound, prepareNext, beginRound
  <2> QED BY <1>1, <2>1, <2>2, <2>3 DEF StartRound, TypeInv, TypeOK
<1>2. CASE RepeatRequest(p)
  <2>1. ProposerTypeOK' /\ msgs' \subseteq Message
    BY <1>0, <1>2, PrepareTypes DEF RepeatRequest
  <2>2. \E id : OnlyPrepares(p, id)
    BY <1>2, SendPrepareSends DEF RepeatRequest, prepareAgain
  <2> QED BY <1>0, <1>2, <2>1, <2>2 DEF RepeatRequest, TypeInv, TypeOK
<1>3. CASE Propose(p)
  <2>1. ProposerTypeOK' /\ msgs' \subseteq Message
    BY <1>0, <1>3, ProposingTypes DEF Propose
  <2>2. \E id, value : OnlyAccepts(p, id, value)
    BY <1>3, SendAcceptSends, SilenceSends DEF Propose, setProposal, resendAccept
  <2> QED BY <1>3, <2>1, <2>2 DEF Propose, TypeInv, TypeOK
<1>4. CASE DeliverPromise(p)
  <2>1. PICK m \in Sent("promise") :
          receivePromise(p, m.from, m.id, m.acceptID, m.acceptValue)
    BY <1>4 DEF DeliverPromise
  <2>2. /\ m.from \in Node /\ m.id \in ValidIDs /\ m.acceptID \in ProposalIDs
        /\ m.acceptValue \in Value \cup {NoValue}
    BY <1>0, MessageFields DEF Sent
  <2>3. ProposerTypeOK' /\ msgs' \subseteq Message
    BY <1>0, <2>1, <2>2, ReceivePromiseTypes
  <2>4. \E id, value : OnlyAccepts(p, id, value)
    BY <1>0, <2>1, CountPromiseEffect, SilenceSends DEF receivePromise, IgnorePromise
  <2> QED BY <1>4, <2>3, <2>4 DEF DeliverPromise, TypeInv, TypeOK
<1>5. CASE DeliverNACK(p)
  <2>1. PICK m \in Sent("prepareNACK") \cup Sent("acceptNACK") :
          receiveNACK(p, m.promisedID)
    BY <1>5 DEF DeliverNACK, receivePrepareNACK, receiveAcceptNACK
  <2>2. m.promisedID \in ValidIDs
    BY <1>0, MessageFields DEF Sent
  <2>3. ProposerTypeOK' /\ msgs' \subseteq Message
    BY <1>0, <2>1, <2>2, NACKTypes
  <2>4. \E id, value : OnlyAccepts(p, id, value)
    BY <2>1, SilenceSends DEF receiveNACK
  <2> QED BY <1>5, <2>3, <2>4 DEF DeliverNACK, TypeInv, TypeOK
<1> QED BY <1>1, <1>2, <1>3, <1>4, <1>5 DEF ProposerStep

LEMMA InitTypeInv == Init => TypeInv
<1> SUFFICES ASSUME Init PROVE TypeInv
  OBVIOUS
<1>1. AcceptorInv
  BY AcceptorInitInv DEF Init
<1>2. [p \in Node |-> Node \ {p}] \in [Node -> SUBSET Node]
  OBVIOUS
<1>3. ProposerTypeOK
  BY <1>2, ProposerInitTypes DEF Init
<1>4. MessageInv
  BY DEF Init, MessageInv, PromiseBounds, PermitBounds, RefusalBounds, LastVoteGap,
         PromiseIsKept, Sent
<1> QED BY <1>1, <1>3, <1>4, Facts DEF TypeInv, TypeOK, AcceptorInv, MessageInv, Init

LEMMA NextTypeInv == TypeInv /\ [Next]_vars => TypeInv'
<1> SUFFICES ASSUME TypeInv, [Next]_vars PROVE TypeInv'
  OBVIOUS
<1>1. CASE UNCHANGED vars
  <2>1. AcceptorInv'
    BY <1>1, SameFieldsKeepAcceptorInv DEF vars, TypeInv
  <2>2. MessageInv'
    BY <1>1 DEF vars, acceptorVars, TypeInv, MessageInv, PromiseBounds, PermitBounds,
                RefusalBounds, LastVoteGap, PromiseIsKept, Sent
  <2> QED BY <1>1, <2>1, <2>2 DEF vars, proposerVars, TypeInv, TypeOK, AcceptorInv,
                                  MessageInv, ProposerTypeOK
<1>2. CASE Next
  BY <1>2, Facts, ProposerStepTypes, AcceptorStepTypes DEF Next
<1> QED BY <1>1, <1>2

(***************************************************************************)
(* Proposers and acceptors exchange only well-formed messages, however     *)
(* these are reordered and repeated, and each keeps fields of its types;   *)
(* whether or not the owner is careful.                                    *)
(***************************************************************************)
THEOREM PaxosTypeCorrect == Spec => []TypeOK
<1>1. TypeInv => TypeOK
  BY DEF TypeInv
<1> QED BY <1>1, InitTypeInv, NextTypeInv, PTL DEF Spec

-----------------------------------------------------------------------------
\* What has been proposed or promised stays so, and a safe value stays safe.
LEMMA MessagesOnlyGrow ==
  ASSUME msgs \subseteq msgs'
  PROVE  /\ \A id, value : Proposed(id, value) => Proposed(id, value)'
         /\ \A id, value : SafeAt(id, value) => SafeAt(id, value)'
<1>1. \A cmd : Sent(cmd) \subseteq Sent(cmd)'
  BY DEF Sent
<1>2. \A id, value : Proposed(id, value) => Proposed(id, value)'
  BY <1>1 DEF Proposed
<1>3. \A a, id : Skips(a, id) => Skips(a, id)'
  BY <1>1 DEF Skips
<1>4. ASSUME NEW id, NEW value, SafeAt(id, value)
      PROVE  SafeAt(id, value)'
  <2> SUFFICES ASSUME NEW c \in ValidIDs, Gt(id, c)
               PROVE  \/ Proposed(c, value)'
                      \/ \E Q \in SUBSET Node :
                           QuorumReached(Q) /\ \A a \in Q : Skips(a, c)'
    BY DEF SafeAt
  <2>1. CASE Proposed(c, value)
    BY <1>2, <2>1
  <2>2. CASE \E Q \in SUBSET Node : QuorumReached(Q) /\ \A a \in Q : Skips(a, c)
    BY <1>3, <2>2
  <2> QED BY <1>4, <2>1, <2>2 DEF SafeAt
<1> QED BY <1>2, <1>4

LEMMA ProposedFields ==
  ASSUME msgs \subseteq Message, NEW id, NEW value, Proposed(id, value)
  PROVE  id \in ValidIDs /\ id \in ProposalIDs /\ value \in Value
BY MessageFields DEF Proposed, Sent

-----------------------------------------------------------------------------
(***************************************************************************)
(* The acceptors' steps.  No request is sent, and no proposer moves.       *)
(***************************************************************************)
LEMMA AnswersSendNoRequest ==
  ASSUME Answers \/ UNCHANGED msgs
  PROVE  /\ msgs \subseteq msgs'
         /\ Sent("prepare")' = Sent("prepare")
         /\ Sent("accept")' = Sent("accept")
         /\ \A cmd : Sent(cmd) \subseteq Sent(cmd)'
         /\ \A cmd : \A m \in Sent(cmd)' : m \in Sent(cmd) \/ (Answers /\ Truthful(m))
BY DEF Answers, Truthful, Sent

LEMMA AcceptorStepKeeps ==
  ASSUME IInv, TypeInv', NEW a \in Node, AcceptorStep(a)
  PROVE  RequestInv' /\ VoteInv' /\ SafetyInv'
<1>0. /\ AcceptorInv /\ msgs \subseteq Message /\ msgs' \subseteq Message
      /\ m_promisedID \in [Node -> ProposalIDs] /\ m_acceptedID \in [Node -> ProposalIDs]
      /\ m_acceptedValue \in [Node -> Value \cup {NoValue}]
  BY DEF IInv, TypeInv, TypeOK, AcceptorTypeOK
<1>1. AcceptorEffect(a) /\ UNCHANGED <<proposerVars, prepared>>
  BY <1>0, AcceptorStepEffect
<1>2. Answers \/ UNCHANGED msgs
  BY <1>1 DEF AcceptorEffect, RaisesPromise, RaisesVote
<1>3. /\ msgs \subseteq msgs'
      /\ Sent("prepare")' = Sent("prepare") /\ Sent("accept")' = Sent("accept")
      /\ \A cmd : Sent(cmd) \subseteq Sent(cmd)'
      /\ \A cmd : \A m \in Sent(cmd)' : m \in Sent(cmd) \/ (Answers /\ Truthful(m))
  BY <1>2, AnswersSendNoRequest
<1>4. /\ UNCHANGED <<m_proposalID, m_proposedValue, m_lastAcceptedID, m_leader>>
      /\ UNCHANGED <<m_promisesReceived, m_peers, m_majorityAcceptors, prepared>>
      /\ \A id : Asked(id)' = Asked(id)
      /\ \A id, value : Proposed(id, value)' = Proposed(id, value)
  BY <1>1, <1>3 DEF proposerVars, Asked, Proposed
<1>5. RequestInv'
  <2>1. SelectionIsFixed' /\ OwnIdentifiers' /\ RequestsWerePrepared'
    BY <1>3, <1>4 DEF IInv, RequestInv, SelectionIsFixed, OwnIdentifiers,
                      RequestsWerePrepared
  <2>2. ASSUME NEW b \in Node
        PROVE  \/ m_promisedID'[b] = NullID
               \/ Asked(m_promisedID'[b]) /\ b \in Selected(m_promisedID'[b].uid)
    <3>1. CASE m_promisedID'[b] = m_promisedID[b]
      BY <3>1 DEF IInv, RequestInv, PromisesWereAsked
    <3>2. ASSUME NEW m \in Sent("prepare") \cup Sent("accept"), b \in m.acceptors,
                 m_promisedID'[b] = m.id
          PROVE  Asked(m_promisedID'[b]) /\ b \in Selected(m_promisedID'[b].uid)
      BY <3>2 DEF IInv, RequestInv, RequestsWerePrepared
    <3> QED BY <1>0, <1>1, <3>1, <3>2
            DEF AcceptorEffect, Answers, RaisesPromise, RaisesVote
  <2>3. ASSUME NEW m \in Sent("promise")'
        PROVE  Asked(m.id) /\ m.from \in Selected(m.id.uid)
    <3>1. CASE m \in Sent("promise")
      BY <3>1 DEF IInv, RequestInv, PromisesWereAsked
    <3>2. CASE Answers /\ Truthful(m)
      <4>1. m.cmd = "promise" /\ m \in Message
        BY <1>0 DEF Sent
      <4>2. m.from \in Node /\ m.id = m_promisedID[m.from] /\ m.id \in ValidIDs
        BY <3>2, <4>1, MessageFields DEF Truthful
      <4> QED BY <4>2, Facts DEF IInv, RequestInv, PromisesWereAsked
    <3> QED BY <1>3, <3>1, <3>2
  <2>4. PromisesWereAsked'
    BY <1>4, <2>2, <2>3 DEF PromisesWereAsked
  <2> QED BY <2>1, <2>4 DEF RequestInv
<1>6. VoteInv'
  <2>1. ASSUME NEW b \in Node
        PROVE  \/ m_acceptedID'[b] = NullID
               \/ Proposed(m_acceptedID'[b], m_acceptedValue'[b])
    <3>1. CASE UNCHANGED <<m_acceptedID[b], m_acceptedValue[b]>>
      BY <3>1 DEF IInv, VoteInv, AcceptedWasProposed
    <3>2. ASSUME NEW m \in Sent("accept"),
                 m_acceptedID'[b] = m.id /\ m_acceptedValue'[b] = m.value
          PROVE  Proposed(m_acceptedID'[b], m_acceptedValue'[b])
      BY <3>2 DEF Proposed
    <3> QED BY <1>0, <1>1, <3>1, <3>2
            DEF AcceptorEffect, Answers, RaisesPromise, RaisesVote
  <2>2. ASSUME NEW m \in Sent("permit")'
        PROVE  Proposed(m.id, m.value)
    <3>1. CASE m \in Sent("permit")
      BY <3>1 DEF IInv, VoteInv, AcceptedWasProposed
    <3>2. CASE Answers /\ Truthful(m)
      <4>1. m.cmd = "permit" /\ m \in Message
        BY <1>0 DEF Sent
      <4>2. /\ m.from \in Node /\ m.id \in ValidIDs
            /\ m.id = m_acceptedID[m.from] /\ m.value = m_acceptedValue[m.from]
        BY <3>2, <4>1, MessageFields DEF Truthful
      <4> QED BY <4>2, Facts DEF IInv, VoteInv, AcceptedWasProposed
    <3> QED BY <1>3, <3>1, <3>2
  <2>3. AcceptedWasProposed'
    BY <1>4, <2>1, <2>2 DEF AcceptedWasProposed
  <2>4. ASSUME NEW m \in Sent("promise")'
        PROVE  m.acceptID = NullID \/ Proposed(m.acceptID, m.acceptValue)
    <3>1. CASE m \in Sent("promise")
      BY <3>1 DEF IInv, VoteInv, ReportedWasProposed
    <3>2. CASE Answers /\ Truthful(m)
      <4>1. m.cmd = "promise" /\ m \in Message
        BY <1>0 DEF Sent
      <4>2. /\ m.from \in Node
            /\ m.acceptID = m_acceptedID[m.from]
            /\ m.acceptValue = m_acceptedValue[m.from]
        BY <3>2, <4>1, MessageFields DEF Truthful
      <4> QED BY <4>2 DEF IInv, VoteInv, AcceptedWasProposed
    <3> QED BY <1>3, <3>1, <3>2
  <2>5. ReportedWasProposed'
    BY <1>4, <2>4 DEF ReportedWasProposed, IInv, VoteInv
  <2>6. CountedHavePromised'
    <3>1. \A b, p, id : HasPromised(b, p, id) => HasPromised(b, p, id)'
      BY <1>3, <1>4 DEF HasPromised
    <3> QED BY <1>4, <3>1 DEF IInv, VoteInv, CountedHavePromised
  <2>7. LeaderHasQuorum' /\ RoundIsSettled'
    BY <1>3, <1>4 DEF IInv, VoteInv, LeaderHasQuorum, RoundIsSettled
  <2> QED BY <2>3, <2>5, <2>6, <2>7 DEF VoteInv
<1>7. SafetyInv'
  BY <1>3, MessagesOnlyGrow DEF IInv, SafetyInv, OneValuePerID, AcceptsAreSafe
<1> QED BY <1>5, <1>6, <1>7

-----------------------------------------------------------------------------
(***************************************************************************)
(* Why an accept request is safe: those whose promises were counted skip   *)
(* every identifier between the highest vote they reported and the round;  *)
(* the value is the one that was proposed with that vote, and was safe     *)
(* there.                                                                  *)
(***************************************************************************)
LEMMA FollowsReportIsSafe ==
  ASSUME IInv, NEW p \in Node, NEW promises \in SUBSET Node,
         QuorumReached(promises), NEW last \in ValidIDs \cup {NullID}, NEW value,
         \A a \in promises : HasPromised(a, p, last),
         last = NullID \/ Proposed(last, value)
  PROVE  SafeAt(prepared[p], value)
<1> SUFFICES ASSUME NEW c \in ValidIDs, Gt(prepared[p], c)
             PROVE  \/ Proposed(c, value)
                    \/ \E Q \in SUBSET Node :
                         QuorumReached(Q) /\ \A a \in Q : Skips(a, c)
  BY DEF SafeAt
<1>1. /\ msgs \subseteq Message /\ c \in ProposalIDs /\ last \in ProposalIDs
      /\ prepared[p] \in ProposalIDs
  BY Facts DEF IInv, TypeInv, TypeOK
<1>2. CASE Gt(c, last)
  <2>1. ASSUME NEW a \in promises PROVE Skips(a, c)
    <3>1. PICK m \in Sent("promise") :
            m.from = a /\ m.id = prepared[p] /\ Geq(last, m.acceptID)
      BY DEF HasPromised
    <3>2. Gt(c, m.acceptID)
      BY <1>1, <1>2, <3>1, SentFields, GtGeqTransitive
    <3> QED BY <3>1, <3>2 DEF Skips
  <2> QED BY <2>1
<1>3. CASE c = last
  BY <1>3, Facts
<1>4. CASE Gt(last, c)
  <2>1. last # NullID
    BY <1>1, <1>4, ValidAboveNull, GtImpliesGeq, GeqAntisymmetric
  <2>2. PICK m \in Sent("accept") : m.id = last /\ m.value = value
    BY <2>1 DEF Proposed
  <2>3. SafeAt(last, value)
    BY <2>2 DEF IInv, SafetyInv, AcceptsAreSafe
  <2> QED BY <1>4, <2>3 DEF SafeAt
<1> QED BY <1>1, <1>2, <1>3, <1>4, Trichotomy

-----------------------------------------------------------------------------
\* The round of p has no accept request yet.
Unsettled(p) == \A m \in Sent("accept") : m.id # prepared[p]

\* What a proposer sends, and to whom.
Requests(p, id) ==
  /\ msgs \subseteq msgs'
  /\ \A m \in msgs' \ msgs : /\ m.cmd \in {"prepare", "accept"}
                             /\ m.from = p /\ m.id = id
                             /\ m.acceptors \subseteq Selected(p)

LEMMA RequestsOfStep ==
  ASSUME IInv, NEW p \in Node, NEW id, NEW value,
         OnlyPrepares(p, id) \/ OnlyAccepts(p, id, value)
  PROVE  Requests(p, id)
<1>1. SelectMajorityAcceptors(p) \subseteq Selected(p)
  BY DEF SelectMajorityAcceptors, Selected, IInv, RequestInv, SelectionIsFixed
<1>2. m_majorityAcceptors[p] \subseteq Selected(p)
  BY DEF IInv, RequestInv, SelectionIsFixed
<1> QED BY <1>1, <1>2 DEF OnlyPrepares, OnlyAccepts, Requests

LEMMA RequestsAreNoAnswers ==
  ASSUME NEW p, NEW id, Requests(p, id)
  PROVE  /\ Sent("promise")' = Sent("promise") /\ Sent("permit")' = Sent("permit")
         /\ \A cmd : Sent(cmd) \subseteq Sent(cmd)'
BY DEF Requests, Sent

LEMMA SelectionKeeps ==
  ASSUME IInv, NEW p \in Node, m_peers' = m_peers,
         \/ m_majorityAcceptors' = m_majorityAcceptors
         \/ m_majorityAcceptors' =
              [m_majorityAcceptors EXCEPT ![p] = SelectMajorityAcceptors(p)]
  PROVE  SelectionIsFixed'
<1>1. SelectMajorityAcceptors(p) \in {{}, Selected(p)}
  BY DEF SelectMajorityAcceptors, Selected, IInv, RequestInv, SelectionIsFixed
<1>2. m_majorityAcceptors \in [Node -> SUBSET Node]
  BY DEF IInv, TypeInv, TypeOK, ProposerTypeOK
<1> QED BY <1>1, <1>2 DEF IInv, RequestInv, SelectionIsFixed

(***************************************************************************)
(* The proposers' steps: those that may change the identifier asked for,   *)
(* seen through the requests they send.                                    *)
(***************************************************************************)
LEMMA RequestsKeepRequestInv ==
  ASSUME IInv, TypeInv', NEW p \in Node, UNCHANGED acceptorVars,
         SelectionIsFixed', OwnIdentifiers', Requests(p, prepared'[p]),
         msgs' = msgs \/ prepared'[p] # NullID,
         \A q \in Node : prepared[q] # NullID =>
           prepared'[q] # NullID /\ prepared[q].number <= prepared'[q].number
  PROVE  RequestInv'
<1>0. /\ msgs \subseteq Message /\ msgs' \subseteq Message
      /\ prepared \in [Node -> ProposalIDs] /\ prepared' \in [Node -> ProposalIDs]
      /\ m_promisedID' = m_promisedID
  BY DEF IInv, TypeInv, TypeOK, acceptorVars
<1>1. ASSUME NEW id \in ValidIDs, Asked(id)
      PROVE  Asked(id)'
  <2>1. id.uid \in Node /\ id.number \in Nat
    BY DEF ValidIDs
  <2>2. prepared[id.uid].number \in Nat /\ prepared'[id.uid].number \in Nat
    BY <1>0, <2>1, FieldTypes
  <2> QED BY <1>1, <2>1, <2>2 DEF Asked
<1>2. RequestsWerePrepared'
  <2> SUFFICES ASSUME NEW m \in (Sent("prepare") \cup Sent("accept"))'
               PROVE  /\ m.id.uid = m.from /\ Asked(m.id)'
                      /\ m.acceptors \subseteq Selected(m.from)
    BY DEF RequestsWerePrepared
  <2>1. CASE m \in msgs
    <3>1. m \in Sent("prepare") \cup Sent("accept")
      BY <2>1 DEF Sent
    <3>2. m.id \in ValidIDs
      BY <1>0, <3>1, RequestFields
    <3> QED BY <1>1, <3>1, <3>2 DEF IInv, RequestInv, RequestsWerePrepared
  <2>2. CASE m \notin msgs
    <3>1. /\ m \in msgs' /\ m.from = p /\ m.id = prepared'[p]
          /\ m.acceptors \subseteq Selected(p) /\ prepared'[p] # NullID
      BY <2>2 DEF Requests, Sent
    <3>2. prepared'[p].uid = p /\ prepared'[p].number \in Nat
      BY <1>0, <3>1, FieldTypes DEF OwnIdentifiers
    <3> QED BY <3>1, <3>2 DEF Asked
  <2> QED BY <2>1, <2>2
<1>3. PromisesWereAsked'
  <2>1. Sent("promise")' = Sent("promise")
    BY RequestsAreNoAnswers
  <2>2. ASSUME NEW a \in Node
        PROVE  \/ m_promisedID[a] = NullID
               \/ Asked(m_promisedID[a])' /\ a \in Selected(m_promisedID[a].uid)
    <3>1. m_promisedID[a] \in ValidIDs \cup {NullID}
      BY DEF IInv, TypeInv, AcceptorInv, PendingIsSet
    <3> QED BY <1>0, <1>1, <3>1 DEF IInv, RequestInv, PromisesWereAsked
  <2>3. ASSUME NEW m \in Sent("promise")
        PROVE  Asked(m.id)' /\ m.from \in Selected(m.id.uid)
    <3>1. m.id \in ValidIDs
      BY <1>0, MessageFields DEF Sent
    <3> QED BY <1>1, <3>1 DEF IInv, RequestInv, PromisesWereAsked
  <2> QED BY <1>0, <2>1, <2>2, <2>3 DEF PromisesWereAsked
<1> QED BY <1>2, <1>3 DEF RequestInv

\* Seen through the proposers' reports and votes.
LEMMA RequestsKeepVoteInv ==
  ASSUME IInv, NEW p \in Node, NEW id, UNCHANGED acceptorVars, Requests(p, id),
         CountedHavePromised', LeaderHasQuorum', RoundIsSettled',
         \A q \in Node : \/ m_lastAcceptedID'[q] = NullID
                         \/ Proposed(m_lastAcceptedID'[q], m_proposedValue'[q])
  PROVE  VoteInv'
<1>1. msgs \subseteq msgs' /\ UNCHANGED <<m_acceptedID, m_acceptedValue>>
  BY DEF Requests, acceptorVars
<1>2. Sent("promise")' = Sent("promise") /\ Sent("permit")' = Sent("permit")
  BY RequestsAreNoAnswers
<1>3. \A i, v : Proposed(i, v) => Proposed(i, v)'
  BY <1>1, MessagesOnlyGrow
<1>4. AcceptedWasProposed'
  BY <1>1, <1>2, <1>3 DEF IInv, VoteInv, AcceptedWasProposed
<1>5. ReportedWasProposed'
  BY <1>2, <1>3 DEF IInv, VoteInv, ReportedWasProposed
<1> QED BY <1>4, <1>5 DEF VoteInv

-----------------------------------------------------------------------------
(***************************************************************************)
(* A step within a round: once an accept request has been sent, neither    *)
(* the value nor the quorum behind it changes.                             *)
(***************************************************************************)
RoundStays(q) ==
  \/ Unsettled(q)
  \/ /\ m_proposedValue'[q] = m_proposedValue[q]
     /\ QuorumReached(m_promisesReceived[q]) => QuorumReached(m_promisesReceived'[q])

MayAsk(p, value) ==
  /\ prepared[p] # NullID
  /\ value = m_proposedValue'[p]
  /\ QuorumReached(m_promisesReceived'[p])
  /\ SafeAt(prepared[p], value)

LEMMA RoundStepKeeps ==
  ASSUME IInv, TypeInv', NEW p \in Node, UNCHANGED <<acceptorVars, prepared>>,
         SelectionIsFixed',
         \A q \in Node : /\ m_proposalID'[q].uid = q
                         /\ m_proposalID[q].number <= m_proposalID'[q].number,
         CountedHavePromised', LeaderHasQuorum',
         \A q \in Node : \/ m_lastAcceptedID'[q] = NullID
                         \/ Proposed(m_lastAcceptedID'[q], m_proposedValue'[q]),
         \A q \in Node : RoundStays(q),
         NEW value,
         \/ msgs' = msgs
         \/ OnlyPrepares(p, prepared[p]) /\ prepared[p] # NullID
         \/ OnlyAccepts(p, prepared[p], value) /\ MayAsk(p, value)
  PROVE  RequestInv' /\ VoteInv' /\ SafetyInv'
<1>0. /\ msgs \subseteq Message /\ msgs' \subseteq Message
      /\ prepared \in [Node -> ProposalIDs]
      /\ \A q \in Node : m_proposalID[q] \in ValidIDs /\ m_proposalID'[q] \in ValidIDs
  BY DEF IInv, TypeInv, TypeOK, ProposerTypeOK
<1>1. OwnIdentifiers'
  <2> SUFFICES ASSUME NEW q \in Node, prepared[q] # NullID
               PROVE  /\ prepared[q].uid = q
                      /\ prepared[q].number <= m_proposalID'[q].number
    BY DEF OwnIdentifiers
  <2>1. /\ prepared[q].uid = q
        /\ prepared[q].number <= m_proposalID[q].number
        /\ m_proposalID[q].number <= m_proposalID'[q].number
    BY DEF IInv, RequestInv, OwnIdentifiers
  <2>2. /\ prepared[q].number \in Nat /\ m_proposalID[q].number \in Nat
        /\ m_proposalID'[q].number \in Nat
    BY <1>0, FieldTypes, Facts
  <2> QED BY <2>1, <2>2
<1>2. Requests(p, prepared[p])
  BY RequestsOfStep DEF Requests
<1>3. RequestInv'
  <2>1. \A q \in Node : prepared[q].number <= prepared[q].number
    <3>1. \A q \in Node : prepared[q].number \in Nat
      BY <1>0, FieldTypes
    <3> QED BY <3>1
  <2> QED BY <1>1, <1>2, <2>1, RequestsKeepRequestInv DEF MayAsk
<1>4. \A m \in Sent("accept")' :
        \/ m \in Sent("accept")
        \/ /\ m.from = p /\ m.id = prepared[p] /\ m.value = value
           /\ MayAsk(p, value)
  BY DEF OnlyPrepares, OnlyAccepts, Sent
<1>5. RoundIsSettled'
  <2> SUFFICES ASSUME NEW m \in Sent("accept")', m.id = prepared[m.from]
               PROVE  /\ m.value = m_proposedValue'[m.from]
                      /\ QuorumReached(m_promisesReceived'[m.from])
    BY DEF RoundIsSettled, QuorumReached
  <2>1. CASE m \in Sent("accept")
    <3>1. m.from \in Node /\ ~Unsettled(m.from)
      BY <1>0, <2>1, RequestFields DEF Unsettled
    <3> QED BY <2>1, <3>1 DEF RoundStays, IInv, VoteInv, RoundIsSettled
  <2>2. CASE m \notin Sent("accept")
    BY <1>4, <2>2 DEF MayAsk
  <2> QED BY <2>1, <2>2
<1>6. VoteInv'
  BY <1>2, <1>5, RequestsKeepVoteInv
<1>7. OneValuePerID'
  <2>1. ASSUME NEW m \in Sent("accept")', NEW n \in Sent("accept")',
               m.id = n.id, m \notin Sent("accept")
        PROVE  m.value = n.value
    <3>1. m.from = p /\ m.id = prepared[p] /\ n.id = prepared[p] /\ prepared[p] # NullID
      BY <1>4, <2>1 DEF MayAsk
    <3>2. n.id.uid = n.from /\ prepared[p].uid = p
      BY <1>3, <3>1 DEF RequestInv, RequestsWerePrepared, IInv, OwnIdentifiers
    <3> QED BY <1>5, <3>1, <3>2 DEF RoundIsSettled
  <2>2. ASSUME NEW m \in Sent("accept"), NEW n \in Sent("accept"), m.id = n.id
        PROVE  m.value = n.value
    BY <2>2 DEF IInv, SafetyInv, OneValuePerID
  <2> QED BY <2>1, <2>2 DEF OneValuePerID
<1>8. AcceptsAreSafe'
  <2>1. \A i, v : SafeAt(i, v) => SafeAt(i, v)'
    BY <1>2, MessagesOnlyGrow DEF Requests
  <2> QED BY <1>4, <2>1 DEF AcceptsAreSafe, MayAsk, IInv, SafetyInv
<1> QED BY <1>3, <1>6, <1>7, <1>8 DEF SafetyInv

\* The case of a step that counts no promise and takes over no report.
LEMMA QuietStepKeeps ==
  ASSUME IInv, TypeInv', NEW p \in Node, UNCHANGED <<acceptorVars, prepared>>,
         UNCHANGED <<m_lastAcceptedID, m_promisesReceived, m_leader>>,
         SelectionIsFixed',
         \A q \in Node : /\ m_proposalID'[q].uid = q
                         /\ m_proposalID[q].number <= m_proposalID'[q].number,
         \/ m_proposedValue' = m_proposedValue
         \/ /\ m_proposedValue[p] = NoValue
            /\ \A q \in Node \ {p} : m_proposedValue'[q] = m_proposedValue[q],
         NEW value,
         \/ msgs' = msgs
         \/ OnlyPrepares(p, prepared[p]) /\ prepared[p] # NullID
         \/ OnlyAccepts(p, prepared[p], value) /\ MayAsk(p, value)
  PROVE  RequestInv' /\ VoteInv' /\ SafetyInv'
<1>0. msgs \subseteq Message
  BY DEF IInv, TypeInv, TypeOK
<1>1. CountedHavePromised' /\ LeaderHasQuorum'
  <2>1. Sent("promise")' = Sent("promise")
    BY DEF Sent, OnlyPrepares, OnlyAccepts
  <2> QED BY <2>1 DEF IInv, VoteInv, CountedHavePromised, HasPromised, LeaderHasQuorum
<1>2. ASSUME NEW q \in Node, m_proposedValue'[q] # m_proposedValue[q]
      PROVE  m_lastAcceptedID[q] = NullID /\ Unsettled(q)
  <2>1. q = p /\ m_proposedValue[q] = NoValue
    BY <1>2
  <2>2. m_lastAcceptedID[q] = NullID
    BY <1>0, <2>1, ProposedFields, RoleFacts DEF IInv, VoteInv, ReportedWasProposed
  <2>3. Unsettled(q)
    <3> SUFFICES ASSUME NEW m \in Sent("accept"), m.id = prepared[q] PROVE FALSE
      BY DEF Unsettled
    <3>1. m.from = q
      <4>1. m.id.uid = m.from /\ prepared[q] # NullID
        BY <1>0, RequestFields, Facts DEF IInv, RequestInv, RequestsWerePrepared
      <4> QED BY <4>1 DEF IInv, RequestInv, OwnIdentifiers
    <3>2. m.value = NoValue
      BY <2>1, <3>1 DEF IInv, VoteInv, RoundIsSettled
    <3>3. m.value \in Value
      BY <1>0, MessageFields DEF Sent
    <3> QED BY <3>2, <3>3, RoleFacts
  <2> QED BY <2>2, <2>3
<1>3. \A q \in Node : \/ m_lastAcceptedID'[q] = NullID
                      \/ Proposed(m_lastAcceptedID'[q], m_proposedValue'[q])
  BY <1>2 DEF IInv, VoteInv, ReportedWasProposed
<1>4. \A q \in Node : RoundStays(q)
  BY <1>2 DEF RoundStays
<1> QED BY <1>1, <1>3, <1>4, RoundStepKeeps

-----------------------------------------------------------------------------
\* A new round is above all that the proposer has asked, and starts empty.
LEMMA StartRoundKeeps ==
  ASSUME IInv, TypeInv', NEW p \in Node, StartRound(p)
  PROVE  RequestInv' /\ VoteInv' /\ SafetyInv'
<1> DEFINE id == incrementNumber(m_proposalID[p])
<1>0. /\ msgs \subseteq Message /\ prepared \in [Node -> ProposalIDs]
      /\ \A q \in Node : m_proposalID[q] \in ValidIDs
      /\ m_promisesReceived \in [Node -> SUBSET Node] /\ m_leader \in [Node -> BOOLEAN]
      /\ m_proposalID \in [Node -> ValidIDs]
  BY DEF IInv, TypeInv, TypeOK, ProposerTypeOK
<1>1. /\ id \in ValidIDs /\ id.uid = p /\ id \in ProposalIDs
      /\ id.number = m_proposalID[p].number + 1 /\ m_proposalID[p].number \in Nat
  BY <1>0, NextNumber, Facts, FieldTypes DEF IInv, RequestInv, OwnIdentifiers
<1>2. /\ m_leader' = [m_leader EXCEPT ![p] = FALSE]
      /\ m_promisesReceived' = [m_promisesReceived EXCEPT ![p] = {}]
      /\ m_proposalID' = [m_proposalID EXCEPT ![p] = id]
      /\ sendPrepare(p, id)
      /\ UNCHANGED <<m_proposedValue, m_lastAcceptedID, m_peers>>
      /\ prepared' = [prepared EXCEPT ![p] = m_proposalID'[p]]
      /\ UNCHANGED acceptorVars
  BY DEF StartRound, prepareNext, beginRound
<1> HIDE DEF id
<1>3. /\ m_proposalID'[p] = id /\ prepared'[p] = id /\ id # NullID
      /\ m_promisesReceived'[p] = {} /\ ~m_leader'[p]
      /\ \A q \in Node \ {p} : /\ m_proposalID'[q] = m_proposalID[q]
                               /\ prepared'[q] = prepared[q]
                               /\ m_promisesReceived'[q] = m_promisesReceived[q]
                               /\ m_leader'[q] = m_leader[q]
  BY <1>0, <1>1, <1>2, Facts
<1>4. Requests(p, id) /\ Sent("accept")' = Sent("accept")
  <2>1. OnlyPrepares(p, id)
    BY <1>2, SendPrepareSends
  <2>2. Sent("accept")' = Sent("accept")
    BY <2>1 DEF OnlyPrepares, Sent
  <2> QED BY <2>1, <2>2, RequestsOfStep
<1>5. SelectionIsFixed'
  BY <1>2, SelectionKeeps DEF sendPrepare
<1>6. ASSUME NEW q \in Node, prepared[q] # NullID
      PROVE  /\ prepared[q].uid = q /\ prepared[q].number \in Nat
             /\ prepared[q].number <= m_proposalID[q].number
             /\ m_proposalID[q].number \in Nat
  BY <1>0, <1>6, FieldTypes, Facts DEF IInv, RequestInv, OwnIdentifiers
<1>7. OwnIdentifiers'
  <2> SUFFICES ASSUME NEW q \in Node
               PROVE  /\ m_proposalID'[q].uid = q
                      /\ prepared'[q] # NullID =>
                           /\ prepared'[q].uid = q
                           /\ prepared'[q].number <= m_proposalID'[q].number
    BY DEF OwnIdentifiers
  <2>1. CASE q = p
    BY <1>1, <1>3, <2>1
  <2>2. CASE q # p
    BY <1>3, <1>6, <2>2 DEF IInv, RequestInv, OwnIdentifiers
  <2> QED BY <2>1, <2>2
<1>8. RequestInv'
  <2>1. ASSUME NEW q \in Node, prepared[q] # NullID
        PROVE  prepared'[q] # NullID /\ prepared[q].number <= prepared'[q].number
    <3>1. CASE q = p
      BY <1>1, <1>3, <1>6, <2>1, <3>1
    <3>2. CASE q # p
      BY <1>3, <1>6, <2>1, <3>2
    <3> QED BY <3>1, <3>2
  <2> QED BY <1>2, <1>3, <1>4, <1>5, <1>7, <2>1, RequestsKeepRequestInv
<1>9. CountedHavePromised' /\ LeaderHasQuorum'
  <2>1. Sent("promise")' = Sent("promise")
    BY <1>4, RequestsAreNoAnswers
  <2>2. ASSUME NEW q \in Node, NEW a \in m_promisesReceived'[q]
        PROVE  a \in Selected(q) /\ HasPromised(a, q, m_lastAcceptedID[q])'
    BY <1>2, <1>3, <2>1, <2>2 DEF IInv, VoteInv, CountedHavePromised, HasPromised
  <2> QED BY <1>2, <1>3, <2>2 DEF CountedHavePromised, LeaderHasQuorum, IInv, VoteInv
<1>10. RoundIsSettled'
  <2> SUFFICES ASSUME NEW m \in Sent("accept"), m.id = prepared'[m.from]
               PROVE  /\ m.value = m_proposedValue[m.from]
                      /\ QuorumReached(m_promisesReceived'[m.from])
    BY <1>2, <1>4 DEF RoundIsSettled, QuorumReached
  <2>1. m.from \in Node /\ m.id.uid = m.from /\ Asked(m.id)
    BY <1>0, RequestFields DEF IInv, RequestInv, RequestsWerePrepared
  <2>2. m.from # p
    BY <1>1, <1>3, <1>6, <2>1 DEF Asked
  <2> QED BY <1>3, <2>1, <2>2 DEF IInv, VoteInv, RoundIsSettled
<1>11. VoteInv'
  <2>1. \A q \in Node : \/ m_lastAcceptedID'[q] = NullID
                        \/ Proposed(m_lastAcceptedID'[q], m_proposedValue'[q])
    BY <1>2 DEF IInv, VoteInv, ReportedWasProposed
  <2> QED BY <1>2, <1>4, <1>9, <1>10, <2>1, RequestsKeepVoteInv
<1>12. SafetyInv'
  BY <1>4, MessagesOnlyGrow DEF Requests, IInv, SafetyInv, OneValuePerID,
                                AcceptsAreSafe
<1> QED BY <1>8, <1>11, <1>12

\* The same request once more: to the same acceptors, for the same round.
LEMMA RepeatRequestKeeps ==
  ASSUME Careful, IInv, TypeInv', NEW p \in Node, RepeatRequest(p)
  PROVE  RequestInv' /\ VoteInv' /\ SafetyInv'
<1>1. /\ m_proposalID[p] = prepared[p] /\ prepared[p] # NullID
      /\ sendPrepare(p, prepared[p])
      /\ prepared' = [prepared EXCEPT ![p] = prepared[p]]
      /\ UNCHANGED <<acceptorVars, m_proposalID, m_proposedValue, m_peers>>
      /\ UNCHANGED <<m_lastAcceptedID, m_promisesReceived, m_leader>>
  BY DEF RepeatRequest, MaySend, prepareAgain
<1>2. prepared' = prepared
  BY <1>1 DEF IInv, TypeInv, TypeOK
<1>3. SelectionIsFixed'
  BY <1>1, SelectionKeeps DEF sendPrepare
<1>4. OnlyPrepares(p, prepared[p])
  BY <1>1, SendPrepareSends
<1>5. \A q \in Node : /\ m_proposalID'[q].uid = q
                      /\ m_proposalID[q].number <= m_proposalID'[q].number
  BY <1>1 DEF IInv, TypeInv, TypeOK, ProposerTypeOK, ValidIDs, RequestInv,
              OwnIdentifiers
<1> QED BY <1>1, <1>2, <1>3, <1>4, <1>5, QuietStepKeeps

\* A leader's accept request: for the round whose promises it has counted.
LEMMA LeaderMayAsk ==
  ASSUME IInv, NEW p \in Node, m_leader[p], m_proposalID[p] = prepared[p],
         NEW value, m_proposedValue[p] \in {NoValue, value}
  PROVE  /\ prepared[p] # NullID
         /\ QuorumReached(m_promisesReceived[p])
         /\ SafeAt(prepared[p], value)
<1>0. /\ msgs \subseteq Message /\ m_promisesReceived[p] \in SUBSET Node
      /\ prepared[p] # NullID
  BY Facts DEF IInv, TypeInv, TypeOK, ProposerTypeOK
<1>1. QuorumReached(m_promisesReceived[p])
  BY <1>0 DEF IInv, VoteInv, LeaderHasQuorum
<1>2. \/ m_lastAcceptedID[p] = NullID
      \/ Proposed(m_lastAcceptedID[p], value)
  BY <1>0, ProposedFields, RoleFacts DEF IInv, VoteInv, ReportedWasProposed
<1>3. m_lastAcceptedID[p] \in ValidIDs \cup {NullID}
  BY <1>0, <1>2, ProposedFields
<1>4. \A a \in m_promisesReceived[p] : HasPromised(a, p, m_lastAcceptedID[p])
  BY DEF IInv, VoteInv, CountedHavePromised
<1> QED BY <1>0, <1>1, <1>2, <1>3, <1>4, FollowsReportIsSafe

LEMMA ProposeKeeps ==
  ASSUME Careful, IInv, TypeInv', NEW p \in Node, Propose(p)
  PROVE  RequestInv' /\ VoteInv' /\ SafetyInv'
<1>0. /\ m_proposedValue \in [Node -> Value \cup {NoValue}]
      /\ \A q \in Node : /\ m_proposalID[q].uid = q
                         /\ m_proposalID[q].number <= m_proposalID[q].number
  BY DEF IInv, TypeInv, TypeOK, ProposerTypeOK, ValidIDs, RequestInv, OwnIdentifiers
<1>1. /\ UNCHANGED <<acceptorVars, prepared, m_proposalID, m_peers>>
      /\ UNCHANGED <<m_lastAcceptedID, m_promisesReceived, m_leader>>
      /\ m_majorityAcceptors' = m_majorityAcceptors
  BY DEF Propose, setProposal, resendAccept, proposerVars
<1>2. SelectionIsFixed'
  BY <1>1, SelectionKeeps
<1>3. ASSUME NEW value \in Value, m_leader[p] => MaySend(p), setProposal(p, value)
      PROVE  RequestInv' /\ VoteInv' /\ SafetyInv'
  <2>1. /\ m_proposedValue[p] = NoValue /\ m_proposedValue'[p] = value
        /\ \A q \in Node \ {p} : m_proposedValue'[q] = m_proposedValue[q]
    BY <1>0, <1>3 DEF setProposal
  <2>2. CASE m_leader[p] /\ proposerActive[p]
    <3>1. m_proposalID[p] = prepared[p]
      BY <1>3, <2>2 DEF MaySend
    <3>2. OnlyAccepts(p, prepared[p], value)
      BY <1>3, <2>2, <3>1, SendAcceptSends DEF setProposal
    <3>3. MayAsk(p, value)
      BY <1>1, <2>1, <2>2, <3>1, LeaderMayAsk DEF MayAsk, QuorumReached
    <3> QED BY <1>0, <1>1, <1>2, <2>1, <3>2, <3>3, QuietStepKeeps
  <2>3. CASE ~(m_leader[p] /\ proposerActive[p])
    <3>1. msgs' = msgs
      BY <1>3, <2>3 DEF setProposal, Send
    <3> QED BY <1>0, <1>1, <1>2, <2>1, <3>1, QuietStepKeeps
  <2> QED BY <2>2, <2>3
<1>4. CASE MaySend(p) /\ resendAccept(p)
  <2>1. /\ m_leader[p] /\ m_proposalID[p] = prepared[p]
        /\ m_proposedValue' = m_proposedValue
    BY <1>4 DEF MaySend, resendAccept, proposerVars
  <2>2. OnlyAccepts(p, prepared[p], m_proposedValue[p])
    BY <1>4, <2>1, SendAcceptSends DEF resendAccept
  <2>3. MayAsk(p, m_proposedValue[p])
    BY <1>1, <2>1, LeaderMayAsk DEF MayAsk, QuorumReached
  <2> QED BY <1>0, <1>1, <1>2, <2>1, <2>2, <2>3, QuietStepKeeps
<1> QED BY <1>3, <1>4 DEF Propose

-----------------------------------------------------------------------------
\* Another's identifier is observed: only the number of one's own may rise.
LEMMA ObservingKeeps ==
  ASSUME IInv, TypeInv', NEW p \in Node, NEW id \in ValidIDs,
         m_proposalID' = [m_proposalID EXCEPT ![p] = Observed(p, id)],
         UNCHANGED <<acceptorVars, prepared, msgs, m_proposedValue, m_lastAcceptedID>>,
         UNCHANGED <<m_promisesReceived, m_leader, m_peers, m_majorityAcceptors>>
  PROVE  RequestInv' /\ VoteInv' /\ SafetyInv'
<1>1. ASSUME NEW q \in Node
      PROVE  /\ m_proposalID'[q].uid = q
             /\ m_proposalID[q].number <= m_proposalID'[q].number
  <2>1. m_proposalID[q] \in ValidIDs /\ m_proposalID[q].uid = q
    BY DEF IInv, TypeInv, TypeOK, ProposerTypeOK, RequestInv, OwnIdentifiers
  <2>2. \/ m_proposalID'[q] = m_proposalID[q]
        \/ m_proposalID'[q] = CatchUp(m_proposalID[q], id)
    BY DEF Observed, IInv, TypeInv, TypeOK, ProposerTypeOK
  <2>3. m_proposalID[q].number \in Nat
    BY <2>1 DEF ValidIDs
  <2> QED BY <2>1, <2>2, <2>3, CatchUpKeepsOwner
<1>2. SelectionIsFixed'
  BY SelectionKeeps
<1> QED BY <1>1, <1>2, QuietStepKeeps

LEMMA DeliverNACKKeeps ==
  ASSUME IInv, TypeInv', NEW p \in Node, DeliverNACK(p)
  PROVE  RequestInv' /\ VoteInv' /\ SafetyInv'
<1>1. PICK m \in Sent("prepareNACK") \cup Sent("acceptNACK") :
        receiveNACK(p, m.promisedID)
  BY DEF DeliverNACK, receivePrepareNACK, receiveAcceptNACK
<1>2. m.promisedID \in ValidIDs
  BY MessageFields DEF Sent, IInv, TypeInv, TypeOK
<1> QED BY <1>1, <1>2, ObservingKeeps DEF DeliverNACK, receiveNACK

(***************************************************************************)
(* A promise that counts is for the round, from one of the acceptors       *)
(* selected for it, and none is left once a quorum has been counted: the   *)
(* round has no accept request yet, and its value may still change.        *)
(***************************************************************************)
LEMMA CountedPromise ==
  ASSUME IInv, NEW p \in Node, NEW m \in Sent("promise"),
         m.id = Observed(p, m.id), m.from \notin m_promisesReceived[p]
  PROVE  /\ m.id = m_proposalID[p] /\ m.id = prepared[p] /\ prepared[p] # NullID
         /\ m.from \in Selected(p) /\ Unsettled(p)
<1>0. /\ m \in Message /\ m.id \in ValidIDs /\ msgs \subseteq Message
      /\ m_proposalID[p] \in ValidIDs /\ prepared[p] \in ProposalIDs
  BY MessageFields DEF IInv, TypeInv, TypeOK, ProposerTypeOK, Sent
<1>1. m_proposalID[p].uid = p /\ m.id.uid = p
  BY <1>0, CatchUpKeepsOwner DEF Observed, IInv, RequestInv, OwnIdentifiers
<1>2. Asked(m.id) /\ m.from \in Selected(p)
  BY <1>1 DEF IInv, RequestInv, PromisesWereAsked
<1>3. /\ prepared[p] # NullID /\ prepared[p].uid = p
      /\ m.id.number <= prepared[p].number
      /\ prepared[p].number <= m_proposalID[p].number
  BY <1>1, <1>2 DEF Asked, IInv, RequestInv, OwnIdentifiers
<1>4. m.id = m_proposalID[p] /\ m.id = prepared[p]
  BY <1>0, <1>1, <1>3, CaughtUpIsPrepared DEF Observed
<1>5. Unsettled(p)
  <2> SUFFICES ASSUME NEW n \in Sent("accept"), n.id = prepared[p] PROVE FALSE
    BY DEF Unsettled
  <2>1. n.from = p
    BY <1>3 DEF IInv, RequestInv, RequestsWerePrepared
  <2>2. QuorumReached(m_promisesReceived[p])
    BY <2>1 DEF IInv, VoteInv, RoundIsSettled
  <2>3. m_promisesReceived[p] \in SUBSET Selected(p)
    BY DEF IInv, VoteInv, CountedHavePromised
  <2>4. Selected(p) \in SUBSET Node /\ Cardinality(Selected(p)) <= QuorumSize
    <3>1. Node \ {p} \in SUBSET Node
      OBVIOUS
    <3> QED BY <3>1, LeastBound DEF Selected, Least
  <2>5. m_promisesReceived[p] = Selected(p)
    BY <2>2, <2>3, <2>4, NobodyLeft
  <2> QED BY <1>2, <2>5
<1> QED BY <1>2, <1>3, <1>4, <1>5

LEMMA CountPromiseKeeps ==
  ASSUME IInv, TypeInv', NEW p \in Node, NEW m \in Sent("promise"),
         CountPromise(p, m.from, m.id, m.acceptID, m.acceptValue),
         UNCHANGED <<acceptorVars, prepared>>
  PROVE  RequestInv' /\ VoteInv' /\ SafetyInv'
<1> DEFINE promises == m_promisesReceived[p] \cup {m.from}
           last == m_lastAcceptedID'[p]
           value == m_proposedValue'[p]
<1>0. /\ ProposerTypeOK /\ msgs \subseteq Message /\ m \in Message
      /\ m.from \in Node /\ m.acceptID \in ProposalIDs
      /\ m_lastAcceptedID[p] \in ProposalIDs
      /\ m_promisesReceived[p] \in SUBSET Node
      /\ value \in Value \cup {NoValue}
  BY MessageFields DEF IInv, TypeInv, TypeOK, ProposerTypeOK, Sent
<1>1. /\ m.id = Observed(p, m.id) /\ m.from \notin m_promisesReceived[p]
      /\ m_promisesReceived'[p] = promises
      /\ last = IF IsNews(p, m.acceptID) THEN m.acceptID ELSE m_lastAcceptedID[p]
      /\ value = Adopted(p, m.acceptID, m.acceptValue)
      /\ m_leader'[p] => m_leader[p] \/ QuorumReached(promises)
      /\ m_proposalID'[p] = m.id
      /\ OnlyAccepts(p, m.id, value)
      /\ msgs' = msgs \/ (QuorumReached(promises) /\ value # NoValue)
  BY <1>0, CountPromiseEffect
<1>2. /\ m.id = m_proposalID[p] /\ m.id = prepared[p] /\ prepared[p] # NullID
      /\ m.from \in Selected(p) /\ Unsettled(p)
  BY <1>1, CountedPromise
<1>3. ASSUME NEW q \in Node, q # p
      PROVE  /\ m_promisesReceived'[q] = m_promisesReceived[q]
             /\ m_lastAcceptedID'[q] = m_lastAcceptedID[q]
             /\ m_proposedValue'[q] = m_proposedValue[q]
             /\ m_leader'[q] = m_leader[q]
             /\ m_proposalID'[q] = m_proposalID[q]
  BY <1>0, <1>3, ReceivePromiseFrame DEF receivePromise
<1>4. /\ last \in ProposalIDs
      /\ Geq(last, m.acceptID) /\ Geq(last, m_lastAcceptedID[p])
  <2>1. m_lastAcceptedID[p] \in ValidIDs \cup {NullID}
    BY <1>0, ProposedFields DEF IInv, VoteInv, ReportedWasProposed
  <2> QED BY <1>0, <1>1, <2>1, HighestReport
\* It comes with the value that was proposed with it.
<1>5. last = NullID \/ Proposed(last, value)
  <2>1. CASE IsNews(p, m.acceptID)
    <3>1. last = m.acceptID
      BY <1>1, <2>1
    <3>2. m.acceptID = NullID \/ Proposed(m.acceptID, m.acceptValue)
      BY DEF IInv, VoteInv, ReportedWasProposed
    <3>3. CASE Proposed(m.acceptID, m.acceptValue)
      <4>1. m.acceptValue # NoValue
        BY <1>0, <3>3, ProposedFields, RoleFacts
      <4> QED BY <1>1, <2>1, <3>1, <3>3, <4>1 DEF Adopted
    <3> QED BY <3>1, <3>2, <3>3
  <2>2. CASE ~IsNews(p, m.acceptID)
    <3>1. last = m_lastAcceptedID[p] /\ value = m_proposedValue[p]
      BY <1>1, <2>2 DEF Adopted
    <3> QED BY <3>1 DEF IInv, VoteInv, ReportedWasProposed
  <2> QED BY <2>1, <2>2
<1>6. ASSUME NEW a \in promises
      PROVE  a \in Selected(p) /\ HasPromised(a, p, last)
  <2>1. CASE a = m.from
    BY <1>2, <1>4, <2>1 DEF HasPromised
  <2>2. CASE a \in m_promisesReceived[p]
    <3>1. a \in Selected(p)
      BY <2>2 DEF IInv, VoteInv, CountedHavePromised
    <3>2. PICK n \in Sent("promise") :
            /\ n.from = a /\ n.id = prepared[p]
            /\ Geq(m_lastAcceptedID[p], n.acceptID)
      BY <2>2 DEF IInv, VoteInv, CountedHavePromised, HasPromised
    <3>3. Geq(last, n.acceptID)
      BY <1>0, <1>4, <3>2, SentFields, GeqTransitive
    <3> QED BY <3>1, <3>2, <3>3 DEF HasPromised
  <2> QED BY <2>1, <2>2
<1> HIDE DEF promises, last, value
<1>7. Sent("promise")' = Sent("promise")
  BY <1>1 DEF OnlyAccepts, Sent
<1>8. CountedHavePromised'
  <2> SUFFICES ASSUME NEW q \in Node, NEW a \in m_promisesReceived'[q]
               PROVE  a \in Selected(q) /\ HasPromised(a, q, m_lastAcceptedID[q])'
    BY DEF CountedHavePromised
  <2>1. CASE q = p
    <3>1. a \in promises
      BY <1>1, <2>1
    <3>2. a \in Selected(p) /\ HasPromised(a, p, last)
      BY <1>6, <3>1
    <3> QED BY <1>7, <2>1, <3>2 DEF HasPromised, last
  <2>2. CASE q # p
    BY <1>3, <1>7, <2>2 DEF IInv, VoteInv, CountedHavePromised, HasPromised
  <2> QED BY <2>1, <2>2
<1>9. QuorumReached(m_promisesReceived[p]) => QuorumReached(promises)
  BY <1>0, QuorumGrows DEF promises
<1>10. LeaderHasQuorum'
  <2> SUFFICES ASSUME NEW q \in Node, m_leader'[q], prepared[q] # NullID
               PROVE  QuorumReached(m_promisesReceived'[q])
    BY DEF LeaderHasQuorum, QuorumReached
  <2>1. CASE q = p
    BY <1>1, <1>9, <2>1 DEF IInv, VoteInv, LeaderHasQuorum
  <2>2. CASE q # p
    BY <1>3, <2>2 DEF IInv, VoteInv, LeaderHasQuorum
  <2> QED BY <2>1, <2>2
<1>11. \A q \in Node : \/ m_lastAcceptedID'[q] = NullID
                       \/ Proposed(m_lastAcceptedID'[q], m_proposedValue'[q])
  BY <1>3, <1>5 DEF last, value, IInv, VoteInv, ReportedWasProposed
<1>12. \A q \in Node : RoundStays(q)
  BY <1>2, <1>3 DEF RoundStays
<1>13. \/ msgs' = msgs
       \/ OnlyAccepts(p, prepared[p], value) /\ MayAsk(p, value)
  <2>1. ASSUME QuorumReached(promises)
        PROVE  MayAsk(p, value)
    <3>1. last \in ValidIDs \cup {NullID}
      BY <1>0, <1>5, ProposedFields
    <3>2. promises \in SUBSET Node
      BY <1>0 DEF promises
    <3>3. SafeAt(prepared[p], value)
      BY <1>5, <1>6, <2>1, <3>1, <3>2, FollowsReportIsSafe
    <3> QED BY <1>1, <1>2, <2>1, <3>3 DEF MayAsk, value
  <2> QED BY <1>1, <1>2, <2>1
<1>14. \A q \in Node : /\ m_proposalID'[q].uid = q
                       /\ m_proposalID[q].number <= m_proposalID'[q].number
  <2>1. \A q \in Node : m_proposalID'[q] = m_proposalID[q]
    BY <1>1, <1>2, <1>3
  <2> QED BY <2>1 DEF IInv, TypeInv, TypeOK, ProposerTypeOK, ValidIDs, RequestInv,
                      OwnIdentifiers
<1>15. SelectionIsFixed'
  BY SelectionKeeps DEF CountPromise
<1> QED BY <1>8, <1>10, <1>11, <1>12, <1>13, <1>14, <1>15, RoundStepKeeps

LEMMA DeliverPromiseKeeps ==
  ASSUME IInv, TypeInv', NEW p \in Node, DeliverPromise(p)
  PROVE  RequestInv' /\ VoteInv' /\ SafetyInv'
<1>1. PICK m \in Sent("promise") :
        receivePromise(p, m.from, m.id, m.acceptID, m.acceptValue)
  BY DEF DeliverPromise
<1>2. m.id \in ValidIDs
  BY MessageFields DEF Sent, IInv, TypeInv, TypeOK
<1>3. CASE IgnorePromise(p, m.from, m.id)
  BY <1>2, <1>3, ObservingKeeps DEF DeliverPromise, IgnorePromise
<1>4. CASE CountPromise(p, m.from, m.id, m.acceptID, m.acceptValue)
  BY <1>4, CountPromiseKeeps DEF DeliverPromise
<1> QED BY <1>1, <1>3, <1>4 DEF receivePromise

-----------------------------------------------------------------------------
LEMMA InitIInv == Init => IInv
<1> SUFFICES ASSUME Init PROVE IInv
  OBVIOUS
<1>1. /\ m_proposalID = [p \in Node |-> [number |-> 0, uid |-> p]]
      /\ m_lastAcceptedID = [p \in Node |-> NullID]
      /\ m_promisesReceived = [p \in Node |-> {}]
      /\ m_peers = [p \in Node |-> Node \ {p}]
      /\ m_majorityAcceptors = [p \in Node |-> {}]
      /\ m_promisedID = [a \in Node |-> NullID]
      /\ m_acceptedID = [a \in Node |-> NullID]
      /\ prepared = [p \in Node |-> NullID]
      /\ \A cmd : Sent(cmd) = {}
  BY DEF Init, ProposerInit, AcceptorInit, Sent
<1>2. RequestInv
  BY <1>1 DEF RequestInv, SelectionIsFixed, OwnIdentifiers, RequestsWerePrepared,
              PromisesWereAsked
<1>3. VoteInv
  BY <1>1 DEF VoteInv, AcceptedWasProposed, ReportedWasProposed, CountedHavePromised,
              LeaderHasQuorum, RoundIsSettled
<1>4. SafetyInv
  BY <1>1 DEF SafetyInv, OneValuePerID, AcceptsAreSafe
<1> QED BY <1>2, <1>3, <1>4, InitTypeInv DEF IInv

LEMMA StutteringKeepsIInv == IInv /\ UNCHANGED vars => IInv'
<1> SUFFICES ASSUME IInv, UNCHANGED vars PROVE IInv'
  OBVIOUS
<1>1. TypeInv'
  BY NextTypeInv DEF IInv
<1>2. /\ UNCHANGED <<m_proposalID, m_proposedValue, m_lastAcceptedID, m_leader>>
      /\ UNCHANGED <<m_promisesReceived, m_peers, m_majorityAcceptors, prepared>>
      /\ UNCHANGED <<m_promisedID, m_acceptedID, m_acceptedValue, msgs>>
      /\ \A cmd : Sent(cmd)' = Sent(cmd)
  BY DEF vars, proposerVars, acceptorVars, Sent
<1>3. RequestInv'
  BY <1>2 DEF IInv, RequestInv, SelectionIsFixed, OwnIdentifiers,
              RequestsWerePrepared, PromisesWereAsked, Asked
<1>4. VoteInv'
  BY <1>2 DEF IInv, VoteInv, AcceptedWasProposed, ReportedWasProposed, Proposed,
              CountedHavePromised, HasPromised, LeaderHasQuorum, RoundIsSettled
<1>5. SafetyInv'
  BY <1>2, MessagesOnlyGrow DEF IInv, SafetyInv, OneValuePerID, AcceptsAreSafe
<1> QED BY <1>1, <1>3, <1>4, <1>5 DEF IInv

LEMMA NextIInv ==
  ASSUME Careful
  PROVE  IInv /\ [Next]_vars => IInv'
<1> SUFFICES ASSUME IInv, [Next]_vars PROVE IInv'
  OBVIOUS
<1>1. TypeInv'
  BY NextTypeInv DEF IInv
<1>2. CASE UNCHANGED vars
  BY <1>2, StutteringKeepsIInv
<1>3. ASSUME NEW p \in Proposers, ProposerStep(p)
      PROVE  RequestInv' /\ VoteInv' /\ SafetyInv'
  BY <1>1, <1>3, Facts, StartRoundKeeps, RepeatRequestKeeps, ProposeKeeps,
     DeliverPromiseKeeps, DeliverNACKKeeps DEF ProposerStep
<1>4. ASSUME NEW a \in Node, AcceptorStep(a)
      PROVE  RequestInv' /\ VoteInv' /\ SafetyInv'
  BY <1>1, <1>4, AcceptorStepKeeps
<1> QED BY <1>1, <1>2, <1>3, <1>4 DEF Next, IInv

-----------------------------------------------------------------------------
(***************************************************************************)
(* What the invariant says of the values that quorums have approved.       *)
(***************************************************************************)
LEMMA TwoQuorumsMeet ==
  ASSUME 2 * QuorumSize > Cardinality(Node),
         NEW Q \in SUBSET Node, QuorumReached(Q),
         NEW R \in SUBSET Node, QuorumReached(R)
  PROVE  \E a \in Node : a \in Q /\ a \in R
<1>1. /\ Cardinality(Q) \in Nat /\ Cardinality(R) \in Nat
      /\ Cardinality(Node) \in Nat
  BY RoleFacts, FS_Subset, FS_CardinalityType
<1>2. Cardinality(Q) + Cardinality(R) > Cardinality(Node)
  BY <1>1, RoleFacts DEF QuorumReached
<1> QED BY <1>2, RoleFacts, FS_MajoritiesIntersect

\* An approved proposal has been proposed, and its approvers are a quorum.
LEMMA ChosenFields ==
  ASSUME IInv, NEW value \in chosen
  PROVE  \E id \in ValidIDs : /\ Proposed(id, value)
                              /\ Approvers(id, value) \in SUBSET Node
                              /\ QuorumReached(Approvers(id, value))
<1>1. PICK m \in Sent("permit") : QuorumReached(Approvers(m.id, value))
  BY DEF chosen, QuorumReached
<1>2. msgs \subseteq Message /\ m.id \in ValidIDs
  BY MessageFields DEF IInv, TypeInv, TypeOK, Sent
<1>3. Approvers(m.id, value) \in SUBSET Node
  BY <1>2, MessageFields DEF Approvers, Sent
<1>4. Approvers(m.id, value) # {}
  BY <1>1, FS_EmptySet, RoleFacts DEF QuorumReached
<1>5. PICK v \in Sent("permit") : v.id = m.id /\ v.value = value
  BY <1>4 DEF Approvers
<1>6. Proposed(m.id, value)
  BY <1>5 DEF IInv, VoteInv, AcceptedWasProposed
<1> QED BY <1>1, <1>2, <1>3, <1>6

\* What has been chosen below a proposal is the proposal's value.
LEMMA LaterProposalAgrees ==
  ASSUME IInv, 2 * QuorumSize > Cardinality(Node),
         NEW b \in ValidIDs, NEW v, Proposed(b, v),
         NEW c \in ValidIDs, NEW w, Proposed(c, w), Gt(b, c) \/ b = c,
         Approvers(c, w) \in SUBSET Node, QuorumReached(Approvers(c, w))
  PROVE  v = w
<1>1. ASSUME Proposed(c, v) PROVE v = w
  BY <1>1 DEF Proposed, IInv, SafetyInv, OneValuePerID
<1>2. ASSUME Gt(b, c),
             NEW Q \in SUBSET Node, QuorumReached(Q), \A a \in Q : Skips(a, c)
      PROVE  FALSE
  <2>1. PICK a \in Node : a \in Q /\ a \in Approvers(c, w)
    BY <1>2, TwoQuorumsMeet
  <2>2. PICK p \in Sent("promise") : p.from = a /\ Gt(c, p.acceptID) /\ Gt(p.id, c)
    BY <1>2, <2>1 DEF Skips
  <2>3. PICK m \in Sent("permit") : m.from = a /\ m.id = c
    BY <2>1 DEF Approvers
  <2> QED BY <2>2, <2>3 DEF IInv, TypeInv, MessageInv, PromiseIsKept
<1>3. CASE Gt(b, c)
  <2>1. SafeAt(b, v)
    BY DEF Proposed, IInv, SafetyInv, AcceptsAreSafe
  <2> QED BY <1>1, <1>2, <1>3, <2>1 DEF SafeAt
<1> QED BY <1>1, <1>3

AtMostOne == \A v, w \in chosen : v = w

LEMMA OneIsChosen ==
  ASSUME 2 * QuorumSize > Cardinality(Node)
  PROVE  IInv => AtMostOne
<1> SUFFICES ASSUME IInv, NEW v \in chosen, NEW w \in chosen PROVE v = w
  BY DEF AtMostOne
<1>1. PICK b \in ValidIDs : /\ Proposed(b, v) /\ Approvers(b, v) \in SUBSET Node
                            /\ QuorumReached(Approvers(b, v))
  BY ChosenFields
<1>2. PICK c \in ValidIDs : /\ Proposed(c, w) /\ Approvers(c, w) \in SUBSET Node
                            /\ QuorumReached(Approvers(c, w))
  BY ChosenFields
<1>3. Gt(b, c) \/ b = c \/ Gt(c, b)
  BY Facts, Trichotomy
<1> QED BY <1>1, <1>2, <1>3, LaterProposalAgrees

\* No message is taken back, so no choice is.
LEMMA ChosenGrows ==
  ASSUME IInv, IInv', [Next]_vars
  PROVE  chosen \subseteq chosen'
<1>1. msgs \subseteq msgs'
  <2>1. ASSUME NEW p \in Node, ProposerStep(p) PROVE msgs \subseteq msgs'
    BY <2>1 DEF ProposerStep, StartRound, prepareNext, beginRound, RepeatRequest,
       prepareAgain, sendPrepare, Propose, setProposal, resendAccept, DeliverPromise,
       receivePromise, IgnorePromise, CountPromise, DeliverNACK, receivePrepareNACK,
       receiveAcceptNACK, receiveNACK, Send
  <2>2. ASSUME NEW a \in Node, AcceptorStep(a) PROVE msgs \subseteq msgs'
    BY <2>2, AcceptorStepEffect DEF AcceptorEffect, Answers, RaisesPromise,
       RaisesVote, IInv, TypeInv, TypeOK
  <2> QED BY <2>1, <2>2, Facts DEF Next, vars
<1>2. ASSUME NEW id, NEW value
      PROVE  /\ Approvers(id, value) \subseteq Approvers(id, value)'
             /\ Approvers(id, value)' \in SUBSET Node
  BY <1>1, MessageFields DEF Approvers, Sent, IInv, TypeInv, TypeOK
<1>3. ASSUME NEW id, NEW value, QuorumReached(Approvers(id, value))
      PROVE  QuorumReached(Approvers(id, value)')
  BY <1>2, <1>3, QuorumGrows
<1> QED BY <1>1, <1>3 DEF chosen, QuorumReached, Sent

LEMMA InitMapsToInit == Init => C!Init
<1> SUFFICES ASSUME Init PROVE chosen = {}
  BY DEF C!Init
<1> QED BY DEF Init, chosen, Sent

LEMMA StepMapsToStep ==
  ASSUME IInv, IInv', AtMostOne', [Next]_vars
  PROVE  [C!Choose]_chosen
<1>1. chosen \subseteq chosen'
  BY ChosenGrows
<1>2. \A v, w \in chosen' : v = w
  BY DEF AtMostOne
<1>3. chosen' \subseteq Value
  BY DEF chosen
<1>4. CASE chosen = {} /\ chosen' # {}
  <2>1. PICK v \in Value : v \in chosen'
    BY <1>3, <1>4
  <2>2. chosen' = {v}
    BY <1>2, <2>1
  <2> QED BY <1>4, <2>2 DEF C!Choose
<1>5. CASE chosen # {}
  BY <1>1, <1>2, <1>5
<1> QED BY <1>4, <1>5

(***************************************************************************)
(* The protocol implements Consensus, if the owner of each proposer is     *)
(* careful and the quorum size is a majority of the nodes (as 3 is of the  *)
(* five nodes that reset.sh starts): at most one value is ever chosen, and *)
(* no choice is taken back, for any number of nodes and rounds, and        *)
(* whichever messages are lost, repeated or reordered.                     *)
(***************************************************************************)
THEOREM PaxosImplementsConsensus ==
  ASSUME Careful, 2 * QuorumSize > Cardinality(Node)
  PROVE  Spec => ImplementsConsensus
<1>1. IInv /\ [Next]_vars => IInv'
  BY NextIInv
<1>2. IInv => AtMostOne
  BY OneIsChosen
<1>3. IInv /\ IInv' /\ AtMostOne' /\ [Next]_vars => [C!Choose]_chosen
  BY StepMapsToStep
<1> QED BY <1>1, <1>2, <1>3, InitIInv, InitMapsToInit, PTL
        DEF Spec, ImplementsConsensus, C!Spec
=============================================================================
