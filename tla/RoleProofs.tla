----------------------------- MODULE RoleProofs -----------------------------
(***************************************************************************)
(* Facts about the operations of Acceptor and Proposer, whoever calls      *)
(* them: what each keeps true of the fields, and what it does to them seen *)
(* from outside.  The proofs about the roles in their environments, about  *)
(* their composition and about PaxosNode rest on them.                     *)
(***************************************************************************)
EXTENDS Acceptor, Proposer, ProposalIDProofs, FiniteSetTheorems

LEMMA RoleFacts ==
  /\ QuorumSize \in Nat /\ QuorumSize > 0
  /\ IsFiniteSet(Node)
  /\ LeaderAtStart \subseteq BOOLEAN /\ ActiveAtStart \subseteq BOOLEAN
  /\ NoValue \notin Value
  /\ ValidIDs \subseteq ProposalIDs /\ NullID \in ProposalIDs
  /\ NullID \notin ValidIDs
  /\ NoUID \notin Node
<1>1. NullID \notin ValidIDs /\ NoUID \notin Node
  BY NodeAssumption DEF NodeAssumption, ValidIDs, NullID, NoUID
<1> QED BY <1>1, ProposerAssumption, QuorumAssumption, ValidIsID,
           ActiveAtStartAssumption, ValueAssumption, FiniteAssumption
        DEF ProposerAssumption, QuorumAssumption, ActiveAtStartAssumption,
            ValueAssumption, FiniteAssumption

\* A valid identifier has the UID of a node, and NoUID is not one.
LEMMA ValidHasUID ==
  /\ \A id \in ProposalIDs : isValid(id) <=> id \in ValidIDs
  /\ ~isValid(NullID)
<1>1. ASSUME NEW id \in ProposalIDs PROVE isValid(id) <=> id \in ValidIDs
  BY RoleFacts DEF isValid, ProposalIDs, ValidIDs
<1> QED BY <1>1 DEF isValid, NullID

\* What the fields of a message are, by its kind.
LEMMA MessageFields ==
  ASSUME NEW m \in Message
  PROVE  /\ m.from \in Node /\ m.id \in ValidIDs /\ m.id \in ProposalIDs
         /\ m.cmd \in {"prepare", "accept"} => m.acceptors \in SUBSET Node
         /\ m.cmd \in {"promise", "permit", "prepareNACK", "acceptNACK"} =>
              m.to \in Node
         /\ m.cmd = "promise" => /\ m.acceptID \in ProposalIDs
                                 /\ m.acceptValue \in Value \cup {NoValue}
         /\ m.cmd \in {"accept", "permit"} => m.value \in Value
         /\ m.cmd \in {"prepareNACK", "acceptNACK"} =>
              m.promisedID \in ValidIDs /\ m.promisedID \in ProposalIDs
<1>1. ValidIDs \subseteq ProposalIDs
  BY ValidIsID
<1> QED BY <1>1 DEF Message

-----------------------------------------------------------------------------
(***************************************************************************)
(* The acceptor's fields: what is pending is set, and the vote is not      *)
(* above the promise.                                                      *)
(***************************************************************************)
PendingIsSet ==
  \A a \in Node :
    /\ m_promisedID[a] \in ValidIDs \cup {NullID}
    /\ m_acceptedID[a] \in ValidIDs \cup {NullID}
    /\ m_acceptedID[a] \in ValidIDs => m_acceptedValue[a] \in Value
    /\ m_pendingPromiseUID[a] # NoUID => m_promisedID[a] \in ValidIDs
    /\ m_pendingAcceptUID[a] # NoUID => m_acceptedID[a] \in ValidIDs

AcceptedIsPromised == \A a \in Node : Geq(m_promisedID[a], m_acceptedID[a])

AcceptorInv ==
  /\ AcceptorTypeOK
  /\ PendingIsSet
  /\ AcceptedIsPromised

(***************************************************************************)
(* An answer is truthful if it reports the fields of the acceptor that     *)
(* gives it.  Every answer the class sends is.                             *)
(***************************************************************************)
Truthful(m) ==
  /\ m \in Message
  /\ m.cmd \in {"promise", "permit", "prepareNACK", "acceptNACK"}
  /\ m.cmd = "promise" => /\ m.id = m_promisedID[m.from]
                          /\ m.acceptID = m_acceptedID[m.from]
                          /\ m.acceptValue = m_acceptedValue[m.from]
  /\ m.cmd = "permit" => /\ m.id = m_acceptedID[m.from]
                         /\ m.value = m_acceptedValue[m.from]
  /\ m.cmd \in {"prepareNACK", "acceptNACK"} =>
       m.promisedID = m_promisedID[m.from]

\* A call of an acceptor answers, or raises its promise, or its vote with it.
Answers ==
  /\ msgs \subseteq msgs'
  /\ \A m \in msgs' \ msgs : Truthful(m)
  /\ UNCHANGED <<m_promisedID, m_acceptedID, m_acceptedValue>>

RaisesPromise(a, id) ==
  /\ Geq(id, m_promisedID[a])
  /\ m_promisedID' = [m_promisedID EXCEPT ![a] = id]
  /\ UNCHANGED <<m_acceptedID, m_acceptedValue, msgs>>

RaisesVote(a, id, value) ==
  /\ Geq(id, m_promisedID[a])
  /\ m_promisedID' = [m_promisedID EXCEPT ![a] = id]
  /\ m_acceptedID' = [m_acceptedID EXCEPT ![a] = id]
  /\ m_acceptedValue' = [m_acceptedValue EXCEPT ![a] = value]
  /\ UNCHANGED msgs

\* A set of truthful answers, sent by an acceptor that changes nothing else.
LEMMA SendsTruth ==
  ASSUME NEW a \in Node, NEW M, \A m \in M : Truthful(m), SendIfActive(a, M),
         UNCHANGED <<m_promisedID, m_acceptedID, m_acceptedValue>>
  PROVE  Answers
BY DEF Answers, SendIfActive, Send

\* What is recorded or refused is compared with the promise.
LEMMA OutbidsPromise ==
  ASSUME AcceptorInv, NEW a \in Node, NEW id \in ValidIDs,
         Outbids(id, m_promisedID[a]) \/ MayAccept(a, id)
  PROVE  Geq(id, m_promisedID[a])
<1>1. m_promisedID[a] \in ValidIDs \cup {NullID} /\ m_promisedID[a] \in ProposalIDs
  BY DEF AcceptorInv, PendingIsSet, AcceptorTypeOK
<1>2. id \in ProposalIDs
  BY RoleFacts
<1>3. CASE m_promisedID[a] = NullID
  BY <1>2, <1>3, NullIsLeast
<1>4. CASE Gt(id, m_promisedID[a])
  BY <1>1, <1>2, <1>4, GtImpliesGeq
<1> QED BY <1>1, <1>3, <1>4, ValidHasUID DEF Outbids, MayAccept

LEMMA SameFieldsKeepAcceptorInv ==
  ASSUME AcceptorInv, UNCHANGED acceptorVars
  PROVE  AcceptorInv'
BY DEF AcceptorInv, acceptorVars, AcceptorTypeOK, PendingIsSet, AcceptedIsPromised

-----------------------------------------------------------------------------
LEMMA ReceivePrepareKeeps ==
  ASSUME AcceptorInv, NEW a \in Node, NEW from \in Node, NEW id \in ValidIDs,
         receivePrepare(a, from, id)
  PROVE  AcceptorInv' /\ (Answers \/ RaisesPromise(a, id))
<1>0. /\ AcceptorTypeOK /\ PendingIsSet /\ AcceptedIsPromised /\ id \in ProposalIDs
      /\ m_promisedID[a] \in ProposalIDs /\ m_acceptedID[a] \in ProposalIDs
  BY RoleFacts DEF AcceptorInv, AcceptorTypeOK
<1>1. CASE PromiseAgain(a, from, id)
  <2> DEFINE answer == Promise(a, from, id, m_acceptedID[a], m_acceptedValue[a])
  <2>1. Truthful(answer)
    BY <1>0, <1>1 DEF Truthful, Promise, PromiseAgain, Message, AcceptorTypeOK
  <2>2. SendIfActive(a, {answer}) /\ UNCHANGED acceptorVars
    BY <1>1 DEF PromiseAgain
  <2> QED BY <2>1, <2>2, SendsTruth, SameFieldsKeepAcceptorInv DEF acceptorVars
<1>2. CASE RecordPromise(a, from, id)
  <2>1. Geq(id, m_promisedID[a])
    BY <1>2, OutbidsPromise DEF RecordPromise
  <2>2. AcceptorTypeOK'
    BY <1>0, <1>2 DEF RecordPromise, AcceptorTypeOK
  <2>3. PendingIsSet'
    BY <1>0, <1>2 DEF RecordPromise, AcceptorTypeOK, PendingIsSet
  <2>4. AcceptedIsPromised'
    <3>1. Geq(id, m_acceptedID[a])
      BY <1>0, <2>1, GeqTransitive DEF AcceptedIsPromised
    <3> QED BY <1>0, <1>2, <3>1
            DEF RecordPromise, AcceptedIsPromised, AcceptorTypeOK
  <2>5. RaisesPromise(a, id)
    BY <1>2, <2>1 DEF RecordPromise, RaisesPromise
  <2> QED BY <2>2, <2>3, <2>4, <2>5 DEF AcceptorInv
<1>3. CASE DropPrepare(a, id)
  BY <1>3, SameFieldsKeepAcceptorInv DEF DropPrepare, Answers, acceptorVars
<1>4. CASE RefusePrepare(a, from, id)
  <2> DEFINE answer == PrepareNACK(a, from, id, m_promisedID[a])
  <2>1. m_promisedID[a] \in ValidIDs
    BY <1>0, <1>4, ValidHasUID DEF RefusePrepare
  <2>2. Truthful(answer)
    BY <1>0, <2>1 DEF Truthful, PrepareNACK, Message
  <2>3. SendIfActive(a, {answer}) /\ UNCHANGED acceptorVars
    BY <1>4 DEF RefusePrepare
  <2> QED BY <2>2, <2>3, SendsTruth, SameFieldsKeepAcceptorInv DEF acceptorVars
<1> QED BY <1>1, <1>2, <1>3, <1>4 DEF receivePrepare

LEMMA ReceiveAcceptRequestKeeps ==
  ASSUME AcceptorInv, NEW a \in Node, NEW from \in Node, NEW id \in ValidIDs,
         NEW value \in Value, receiveAcceptRequest(a, from, id, value)
  PROVE  AcceptorInv' /\ (Answers \/ RaisesVote(a, id, value))
<1>0. /\ AcceptorTypeOK /\ PendingIsSet /\ AcceptedIsPromised /\ id \in ProposalIDs
      /\ m_promisedID[a] \in ProposalIDs
  BY RoleFacts DEF AcceptorInv, AcceptorTypeOK
<1>1. CASE PermitAgain(a, from, id, value)
  <2> DEFINE answer == Permit(a, from, id, value)
  <2>1. Truthful(answer)
    BY <1>1 DEF Truthful, Permit, PermitAgain, AlreadyAccepted, Message
  <2>2. SendIfActive(a, {answer}) /\ UNCHANGED acceptorVars
    BY <1>1 DEF PermitAgain
  <2> QED BY <2>1, <2>2, SendsTruth, SameFieldsKeepAcceptorInv DEF acceptorVars
<1>2. CASE RecordAccept(a, from, id, value)
  <2>1. Geq(id, m_promisedID[a])
    BY <1>2, OutbidsPromise DEF RecordAccept
  <2>2. AcceptorTypeOK'
    BY <1>0, <1>2 DEF RecordAccept, AcceptorTypeOK
  <2>3. PendingIsSet'
    BY <1>0, <1>2 DEF RecordAccept, AcceptorTypeOK, PendingIsSet
  <2>4. AcceptedIsPromised'
    BY <1>0, <1>2, GeqReflexive DEF RecordAccept, AcceptedIsPromised, AcceptorTypeOK
  <2>5. RaisesVote(a, id, value)
    BY <1>2, <2>1 DEF RecordAccept, RaisesVote
  <2> QED BY <2>2, <2>3, <2>4, <2>5 DEF AcceptorInv
<1>3. CASE DropAccept(a, id, value)
  BY <1>3, SameFieldsKeepAcceptorInv DEF DropAccept, Answers, acceptorVars
<1>4. CASE RefuseAccept(a, from, id, value)
  <2> DEFINE answer == AcceptNACK(a, from, id, m_promisedID[a])
  <2>1. m_promisedID[a] \in ValidIDs
    BY <1>0, <1>4, ValidHasUID DEF RefuseAccept, MayAccept
  <2>2. Truthful(answer)
    BY <1>0, <2>1 DEF Truthful, AcceptNACK, Message
  <2>3. SendIfActive(a, {answer}) /\ UNCHANGED acceptorVars
    BY <1>4 DEF RefuseAccept
  <2> QED BY <2>2, <2>3, SendsTruth, SameFieldsKeepAcceptorInv DEF acceptorVars
<1> QED BY <1>1, <1>2, <1>3, <1>4 DEF receiveAcceptRequest

LEMMA PersistKeeps ==
  ASSUME AcceptorInv, NEW a \in Node, Persist(a)
  PROVE  AcceptorInv' /\ Answers
<1>0. AcceptorTypeOK /\ PendingIsSet /\ AcceptedIsPromised
  BY DEF AcceptorInv
<1>1. \A m \in PendingAnswers(a) : Truthful(m)
  <2>1. ASSUME NEW p \in {m_pendingPromiseUID[a]} \ {NoUID}
        PROVE  Truthful(Promise(a, p, m_promisedID[a], m_acceptedID[a],
                                m_acceptedValue[a]))
    BY <1>0 DEF Truthful, Promise, Message, AcceptorTypeOK, PendingIsSet
  <2>2. ASSUME NEW p \in {m_pendingAcceptUID[a]} \ {NoUID}
        PROVE  Truthful(Permit(a, p, m_acceptedID[a], m_acceptedValue[a]))
    BY <1>0 DEF Truthful, Permit, Message, AcceptorTypeOK, PendingIsSet
  <2> QED BY <2>1, <2>2 DEF PendingAnswers
<1>2. Answers
  BY <1>1, SendsTruth DEF Persist, persisted
<1>3. AcceptorTypeOK'
  BY <1>0 DEF Persist, persisted, ToSave, Saved, AcceptorTypeOK
<1>4. PendingIsSet'
  BY <1>0 DEF Persist, persisted, AcceptorTypeOK, PendingIsSet
<1>5. AcceptedIsPromised'
  BY <1>0 DEF Persist, persisted, AcceptedIsPromised
<1> QED BY <1>2, <1>3, <1>4, <1>5 DEF AcceptorInv

LEMMA SetActiveKeeps ==
  ASSUME AcceptorInv, NEW a \in Node, NEW active \in BOOLEAN, setActive(a, active)
  PROVE  AcceptorInv' /\ Answers
<1>1. AcceptorTypeOK'
  BY DEF setActive, AcceptorInv, AcceptorTypeOK
<1>2. PendingIsSet' /\ AcceptedIsPromised'
  BY DEF setActive, AcceptorInv, PendingIsSet, AcceptedIsPromised
<1> QED BY <1>1, <1>2 DEF AcceptorInv, Answers, setActive

LEMMA AcceptorInitInv == AcceptorInit => AcceptorInv
<1> SUFFICES ASSUME AcceptorInit PROVE AcceptorInv
  OBVIOUS
<1>1. AcceptorTypeOK
  BY RoleFacts DEF AcceptorInit, AcceptorTypeOK, NothingSaved, Saved
<1>2. PendingIsSet
  BY RoleFacts DEF AcceptorInit, PendingIsSet
<1>3. AcceptedIsPromised
  BY RoleFacts, GeqReflexive DEF AcceptorInit, AcceptedIsPromised
<1> QED BY <1>1, <1>2, <1>3 DEF AcceptorInv

-----------------------------------------------------------------------------
(***************************************************************************)
(* What acceptors have told others, compared with their fields.  The       *)
(* bounds say how far the two can be apart; LastVoteGap carries            *)
(* PromiseIsKept over to the acceptor's present vote: it is the vote that  *)
(* was reported, or not below the identifier that was promised.            *)
(***************************************************************************)
PromiseBounds ==
  \A p \in Sent("promise") : /\ Geq(m_promisedID[p.from], p.id)
                             /\ Geq(m_acceptedID[p.from], p.acceptID)
                             /\ Geq(p.id, p.acceptID)

PermitBounds == \A v \in Sent("permit") : Geq(m_acceptedID[v.from], v.id)

RefusalBounds ==
  \A n \in Sent("prepareNACK") \cup Sent("acceptNACK") :
    Geq(m_promisedID[n.from], n.promisedID)

LastVoteGap ==
  \A p \in Sent("promise") : \/ m_acceptedID[p.from] = p.acceptID
                             \/ Geq(m_acceptedID[p.from], p.id)

\* No permit lies strictly between the vote a promise reports and what it
\* promises.
PromiseIsKept ==
  \A p \in Sent("promise"), v \in Sent("permit") :
    v.from = p.from => ~(Gt(v.id, p.acceptID) /\ Gt(p.id, v.id))

MessageInv ==
  /\ msgs \subseteq Message
  /\ PromiseBounds
  /\ PermitBounds
  /\ RefusalBounds
  /\ LastVoteGap
  /\ PromiseIsKept

\* The fields of what has been sent, by its kind.
LEMMA SentFields ==
  ASSUME msgs \subseteq Message
  PROVE  /\ \A p \in Sent("promise") : /\ p.from \in Node /\ p.id \in ProposalIDs
                                       /\ p.acceptID \in ProposalIDs
         /\ \A v \in Sent("permit") : v.from \in Node /\ v.id \in ProposalIDs
         /\ \A n \in Sent("prepareNACK") \cup Sent("acceptNACK") :
              n.from \in Node /\ n.promisedID \in ProposalIDs
BY MessageFields DEF Sent

LEMMA AnswersKeepMessageInv ==
  ASSUME AcceptorInv, MessageInv, Answers
  PROVE  MessageInv'
<1>0. /\ m_promisedID \in [Node -> ProposalIDs]
      /\ m_acceptedID \in [Node -> ProposalIDs]
      /\ msgs \subseteq Message
  BY DEF AcceptorInv, AcceptorTypeOK, MessageInv
<1>1. (msgs \subseteq Message)'
  BY <1>0 DEF Answers, Truthful
<1>2. PromiseBounds'
  <2> SUFFICES ASSUME NEW p \in Sent("promise")'
               PROVE  /\ Geq(m_promisedID[p.from], p.id)
                      /\ Geq(m_acceptedID[p.from], p.acceptID)
                      /\ Geq(p.id, p.acceptID)
    BY DEF PromiseBounds, Answers
  <2>1. CASE p \in msgs
    BY <2>1 DEF MessageInv, PromiseBounds, Sent
  <2>2. CASE p \notin msgs
    BY <2>2, <1>0, <1>1, MessageFields, GeqReflexive
       DEF Answers, Truthful, Sent, AcceptorInv, AcceptedIsPromised
  <2> QED BY <2>1, <2>2
<1>3. PermitBounds'
  <2> SUFFICES ASSUME NEW v \in Sent("permit")'
               PROVE  Geq(m_acceptedID[v.from], v.id)
    BY DEF PermitBounds, Answers
  <2>1. CASE v \in msgs
    BY <2>1 DEF MessageInv, PermitBounds, Sent
  <2>2. CASE v \notin msgs
    BY <2>2, <1>0, <1>1, MessageFields, GeqReflexive DEF Answers, Truthful, Sent
  <2> QED BY <2>1, <2>2
<1>4. RefusalBounds'
  <2> SUFFICES ASSUME NEW n \in (Sent("prepareNACK") \cup Sent("acceptNACK"))'
               PROVE  Geq(m_promisedID[n.from], n.promisedID)
    BY DEF RefusalBounds, Answers
  <2>1. CASE n \in msgs
    BY <2>1 DEF MessageInv, RefusalBounds, Sent
  <2>2. CASE n \notin msgs
    BY <2>2, <1>0, <1>1, MessageFields, GeqReflexive DEF Answers, Truthful, Sent
  <2> QED BY <2>1, <2>2
<1>5. LastVoteGap'
  <2> SUFFICES ASSUME NEW p \in Sent("promise")'
               PROVE  \/ m_acceptedID[p.from] = p.acceptID
                      \/ Geq(m_acceptedID[p.from], p.id)
    BY DEF LastVoteGap, Answers
  <2>1. CASE p \in msgs
    BY <2>1 DEF MessageInv, LastVoteGap, Sent
  <2>2. CASE p \notin msgs
    BY <2>2 DEF Answers, Truthful, Sent
  <2> QED BY <2>1, <2>2
<1>6. PromiseIsKept'
  <2> SUFFICES ASSUME NEW p \in Sent("promise")', NEW v \in Sent("permit")',
                      v.from = p.from
               PROVE  ~(Gt(v.id, p.acceptID) /\ Gt(p.id, v.id))
    BY DEF PromiseIsKept
  <2>1. /\ p \in msgs' /\ p.cmd = "promise"
        /\ v \in msgs' /\ v.cmd = "permit"
    BY DEF Sent
  <2>2. /\ p.id \in ProposalIDs /\ p.acceptID \in ProposalIDs
        /\ v.id \in ProposalIDs /\ p.from \in Node
        /\ m_acceptedID[p.from] \in ProposalIDs
    BY <2>1, <1>0, <1>1, MessageFields
  <2>3. Geq(m_acceptedID[p.from], v.id)
    BY <1>3 DEF PermitBounds, Answers
  <2>4. CASE v \notin msgs
    \* The new permit is of the present vote.
    <3>1. v.id = m_acceptedID[p.from]
      BY <2>1, <2>4 DEF Answers, Truthful
    <3>2. \/ m_acceptedID[p.from] = p.acceptID
          \/ Geq(m_acceptedID[p.from], p.id)
      BY <1>5 DEF LastVoteGap, Answers
    <3> QED BY <3>1, <3>2, <2>2, GeqReflexive, NotGt
  <2>5. CASE p \notin msgs
    \* The new promise reports the present vote, which bounds every permit.
    BY <2>1, <2>2, <2>3, <2>5, NotGt DEF Answers, Truthful
  <2>6. CASE v \in msgs /\ p \in msgs
    BY <2>1, <2>6 DEF MessageInv, PromiseIsKept, Sent
  <2> QED BY <2>4, <2>5, <2>6
<1> QED BY <1>1, <1>2, <1>3, <1>4, <1>5, <1>6 DEF MessageInv

\* Recording a promise or a vote raises the fields.
LEMMA RaisedFieldsKeepMessageInv ==
  ASSUME AcceptorInv, AcceptorInv', MessageInv, UNCHANGED msgs,
         \A b \in Node : /\ Geq(m_promisedID'[b], m_promisedID[b])
                         /\ \/ m_acceptedID'[b] = m_acceptedID[b]
                            \/ Geq(m_acceptedID'[b], m_promisedID[b])
  PROVE  MessageInv'
<1>0. /\ \A b \in Node : /\ m_promisedID[b] \in ProposalIDs
                         /\ m_promisedID'[b] \in ProposalIDs
                         /\ m_acceptedID[b] \in ProposalIDs
                         /\ m_acceptedID'[b] \in ProposalIDs
      /\ msgs \subseteq Message
      /\ \A cmd : Sent(cmd)' = Sent(cmd)
  BY DEF AcceptorInv, MessageInv, AcceptorTypeOK, Sent
<1>1. \A b \in Node : Geq(m_acceptedID'[b], m_acceptedID[b])
  BY <1>0, GeqReflexive, GeqTransitive DEF AcceptorInv, AcceptedIsPromised
<1>2. PromiseBounds'
  <2> SUFFICES ASSUME NEW p \in Sent("promise")
               PROVE  /\ Geq(m_promisedID'[p.from], p.id)
                      /\ Geq(m_acceptedID'[p.from], p.acceptID)
                      /\ Geq(p.id, p.acceptID)
    BY <1>0 DEF PromiseBounds
  <2>1. p.from \in Node /\ p.id \in ProposalIDs /\ p.acceptID \in ProposalIDs
    BY <1>0, SentFields
  <2>2. /\ Geq(m_promisedID[p.from], p.id) /\ Geq(m_acceptedID[p.from], p.acceptID)
        /\ Geq(p.id, p.acceptID)
    BY DEF MessageInv, PromiseBounds
  <2> QED BY <1>0, <1>1, <2>1, <2>2, GeqTransitive
<1>3. PermitBounds'
  <2> SUFFICES ASSUME NEW v \in Sent("permit")
               PROVE  Geq(m_acceptedID'[v.from], v.id)
    BY <1>0 DEF PermitBounds
  <2>1. v.from \in Node /\ v.id \in ProposalIDs
    BY <1>0, SentFields
  <2>2. Geq(m_acceptedID[v.from], v.id)
    BY DEF MessageInv, PermitBounds
  <2> QED BY <1>0, <1>1, <2>1, <2>2, GeqTransitive
<1>4. RefusalBounds'
  <2> SUFFICES ASSUME NEW n \in Sent("prepareNACK") \cup Sent("acceptNACK")
               PROVE  Geq(m_promisedID'[n.from], n.promisedID)
    BY <1>0 DEF RefusalBounds
  <2>1. n.from \in Node /\ n.promisedID \in ProposalIDs
    BY <1>0, SentFields
  <2>2. Geq(m_promisedID[n.from], n.promisedID)
    BY DEF MessageInv, RefusalBounds
  <2> QED BY <1>0, <2>1, <2>2, GeqTransitive
<1>5. LastVoteGap'
  <2> SUFFICES ASSUME NEW p \in Sent("promise")
               PROVE  \/ m_acceptedID'[p.from] = p.acceptID
                      \/ Geq(m_acceptedID'[p.from], p.id)
    BY <1>0 DEF LastVoteGap
  <2>1. p.from \in Node /\ p.id \in ProposalIDs
    BY <1>0, SentFields
  <2>2. CASE m_acceptedID'[p.from] = m_acceptedID[p.from]
    BY <2>2 DEF MessageInv, LastVoteGap
  <2>3. CASE Geq(m_acceptedID'[p.from], m_promisedID[p.from])
    \* A new vote is not below what has been promised.
    <3>1. Geq(m_promisedID[p.from], p.id)
      BY DEF MessageInv, PromiseBounds
    <3> QED BY <1>0, <3>1, <2>1, <2>3, GeqTransitive
  <2> QED BY <2>1, <2>2, <2>3
<1>6. PromiseIsKept'
  BY <1>0 DEF MessageInv, PromiseIsKept
<1> QED BY <1>0, <1>2, <1>3, <1>4, <1>5, <1>6 DEF MessageInv

\* Whatever a call of an acceptor does.
LEMMA AcceptorKeepsMessageInv ==
  ASSUME AcceptorInv, AcceptorInv', MessageInv, NEW a \in Node,
         NEW id \in ValidIDs, NEW value,
         Answers \/ RaisesPromise(a, id) \/ RaisesVote(a, id, value)
  PROVE  MessageInv'
<1>1. CASE Answers
  BY <1>1, AnswersKeepMessageInv
<1>2. CASE RaisesPromise(a, id) \/ RaisesVote(a, id, value)
  <2>1. \A b \in Node : /\ Geq(m_promisedID'[b], m_promisedID[b])
                        /\ \/ m_acceptedID'[b] = m_acceptedID[b]
                           \/ Geq(m_acceptedID'[b], m_promisedID[b])
    BY <1>2, GeqReflexive
       DEF RaisesPromise, RaisesVote, AcceptorInv, AcceptorTypeOK
  <2> QED BY <1>2, <2>1, RaisedFieldsKeepMessageInv DEF RaisesPromise, RaisesVote
<1> QED BY <1>1, <1>2

\* What proposers send is no answer.
LEMMA RequestsKeepMessageInv ==
  ASSUME MessageInv, UNCHANGED <<m_promisedID, m_acceptedID>>,
         msgs' \subseteq Message, msgs \subseteq msgs',
         \A m \in msgs' \ msgs : m.cmd \in {"prepare", "accept"}
  PROVE  MessageInv'
<1>1. \A cmd \in {"promise", "permit", "prepareNACK", "acceptNACK"} :
        Sent(cmd)' = Sent(cmd)
  BY DEF Sent
<1> QED BY <1>1 DEF MessageInv, PromiseBounds, PermitBounds, RefusalBounds,
                LastVoteGap, PromiseIsKept
-----------------------------------------------------------------------------
(***************************************************************************)
(* observeProposal: an identifier stays its owner's and does not go down;  *)
(* it catches up with one of the owner's own only if that was ahead.       *)
(***************************************************************************)
LEMMA CatchUpKeepsOwner ==
  ASSUME NEW mine \in ValidIDs, NEW id \in ValidIDs
  PROVE  /\ CatchUp(mine, id) \in ValidIDs
         /\ CatchUp(mine, id).uid = mine.uid
         /\ mine.number <= CatchUp(mine, id).number
<1>1. /\ mine.number \in Nat /\ id.number \in Nat /\ mine.uid \in Node
      /\ mine \in ProposalIDs /\ id \in ProposalIDs
  BY RoleFacts DEF ValidIDs
<1>2. CASE Gt(id, mine)
  <2>1. CatchUp(mine, id) = [mine EXCEPT !.number = id.number]
    BY <1>2 DEF CatchUp, setNumber
  <2>2. mine.number <= id.number
    BY <1>1, <1>2, GtDef
  <2> QED BY <1>1, <2>1, <2>2 DEF ValidIDs
<1>3. CASE ~Gt(id, mine)
  BY <1>1, <1>3 DEF CatchUp
<1> QED BY <1>2, <1>3

\* An identifier that a proposer takes for its own, and that is not above the
\* one it last asked to prepare, is that one.
LEMMA CaughtUpIsPrepared ==
  ASSUME NEW p \in Node, NEW mine \in ValidIDs, NEW id \in ValidIDs,
         NEW asked \in ProposalIDs, mine.uid = p, id = CatchUp(mine, id),
         asked.uid = p, id.number <= asked.number, asked.number <= mine.number
  PROVE  id = mine /\ id = asked
<1>1. /\ id \in ProposalIDs /\ mine \in ProposalIDs
      /\ id.number \in Nat /\ mine.number \in Nat /\ asked.number \in Nat
  BY RoleFacts, FieldTypes
<1>2. id.uid = p
  BY CatchUpKeepsOwner
<1>3. ~Gt(id, mine)
  <2>1. p \in Nat
    BY NodeAssumption DEF NodeAssumption
  <2> QED BY <1>1, <1>2, <2>1, GtDef
<1>4. id = mine
  BY <1>3 DEF CatchUp
<1> QED BY <1>1, <1>2, <1>4, SameFields

LEMMA NextNumber ==
  ASSUME NEW id \in ValidIDs
  PROVE  /\ incrementNumber(id) \in ValidIDs
         /\ incrementNumber(id).uid = id.uid
         /\ incrementNumber(id).number = id.number + 1
BY DEF ValidIDs, incrementNumber

\* What is added to the known peers, and the choice among them, are nodes.
LEMMA SelectionTypes ==
  ASSUME ProposerTypeOK, NEW p \in Node
  PROVE  SelectMajorityAcceptors(p) \in SUBSET Node
BY DEF ProposerTypeOK, SelectMajorityAcceptors, Least

LEMMA AcceptTypes ==
  ASSUME ProposerTypeOK, NEW p \in Node, NEW id \in ValidIDs, NEW value \in Value
  PROVE  AcceptMessages(p, id, value) \subseteq Message
<1>1. m_majorityAcceptors[p] \in SUBSET Node
  BY DEF ProposerTypeOK
<1>2. Accept(p, m_majorityAcceptors[p], id, value) \in Message
  BY <1>1 DEF Accept, Message
<1> QED BY <1>2 DEF AcceptMessages

LEMMA SendPrepareTypes ==
  ASSUME ProposerTypeOK, msgs \subseteq Message, NEW p \in Node,
         NEW id \in ValidIDs, sendPrepare(p, id)
  PROVE  /\ m_majorityAcceptors' \in [Node -> SUBSET Node]
         /\ msgs' \subseteq Message
<1>1. SelectMajorityAcceptors(p) \in SUBSET Node
  BY SelectionTypes
<1>2. Prepare(p, SelectMajorityAcceptors(p), id) \in Message
  BY <1>1 DEF Prepare, Message
<1>3. msgs' \subseteq Message
  BY <1>2 DEF sendPrepare, Send
<1> QED BY <1>1, <1>3 DEF sendPrepare, ProposerTypeOK

-----------------------------------------------------------------------------
LEMMA CountPromiseTypes ==
  ASSUME ProposerTypeOK, msgs \subseteq Message, NEW p \in Node,
         NEW a \in Node, NEW id \in ValidIDs,
         NEW acceptID \in ProposalIDs, NEW acceptValue \in Value \cup {NoValue},
         CountPromise(p, a, id, acceptID, acceptValue)
  PROVE  ProposerTypeOK' /\ msgs' \subseteq Message
<1> DEFINE promises == m_promisesReceived[p] \cup {a}
           value == Adopted(p, acceptID, acceptValue)
<1>1. /\ m_promisesReceived' = [m_promisesReceived EXCEPT ![p] = promises]
      /\ m_lastAcceptedID' = IF IsNews(p, acceptID)
                             THEN [m_lastAcceptedID EXCEPT ![p] = acceptID]
                             ELSE m_lastAcceptedID
      /\ m_proposedValue' = [m_proposedValue EXCEPT ![p] = value]
      /\ m_leader' = [m_leader EXCEPT ![p] = @ \/ QuorumReached(promises)]
      /\ m_proposalID' = [m_proposalID EXCEPT ![p] = id]
      /\ Send(FirstAccept(p, id, promises, value))
      /\ UNCHANGED <<proposerActive, m_peers, m_majorityAcceptors>>
  BY DEF CountPromise
<1>2. promises \in SUBSET Node
  BY DEF ProposerTypeOK
<1>3. value \in Value \cup {NoValue}
  BY DEF Adopted, ProposerTypeOK
<1>4. (m_leader[p] \/ QuorumReached(promises)) \in BOOLEAN
  BY DEF ProposerTypeOK, QuorumReached
<1>5. FirstAccept(p, id, promises, value) \subseteq Message
  BY <1>3, AcceptTypes DEF FirstAccept
<1> HIDE DEF promises, value
<1>6. m_leader' \in [Node -> BOOLEAN]
  BY <1>1, <1>4 DEF ProposerTypeOK
<1>7. /\ m_proposalID' \in [Node -> ValidIDs]
      /\ m_proposedValue' \in [Node -> Value \cup {NoValue}]
      /\ m_lastAcceptedID' \in [Node -> ProposalIDs]
      /\ m_promisesReceived' \in [Node -> SUBSET Node]
  BY <1>1, <1>2, <1>3 DEF ProposerTypeOK
<1>8. msgs' \subseteq Message
  BY <1>1, <1>5 DEF Send
<1> QED BY <1>1, <1>6, <1>7, <1>8 DEF ProposerTypeOK

\* Any call of receivePromise, whoever the promise was for.
LEMMA ReceivePromiseTypes ==
  ASSUME ProposerTypeOK, msgs \subseteq Message, NEW p \in Node,
         NEW a \in Node, NEW id \in ValidIDs,
         NEW acceptID \in ProposalIDs, NEW acceptValue \in Value \cup {NoValue},
         receivePromise(p, a, id, acceptID, acceptValue)
  PROVE  ProposerTypeOK' /\ msgs' \subseteq Message
<1>1. CASE IgnorePromise(p, a, id)
  <2>1. Observed(p, id) \in ValidIDs
    BY CatchUpKeepsOwner DEF Observed, ProposerTypeOK
  <2> QED BY <1>1, <2>1 DEF IgnorePromise, ProposerTypeOK
<1>2. CASE CountPromise(p, a, id, acceptID, acceptValue)
  BY <1>2, CountPromiseTypes
<1> QED BY <1>1, <1>2 DEF receivePromise

\* A request on the network went from a node, with its identifier, to nodes.
LEMMA RequestFields ==
  ASSUME msgs \subseteq Message, NEW m \in Sent("prepare") \cup Sent("accept")
  PROVE  m.from \in Node /\ m.id \in ValidIDs /\ m.acceptors \in SUBSET Node
BY DEF Sent, Message

LEMMA BeginRoundTypes ==
  ASSUME ProposerTypeOK, msgs \subseteq Message, NEW p \in Node,
         NEW id \in ValidIDs, beginRound(p, id)
  PROVE  ProposerTypeOK' /\ msgs' \subseteq Message
<1>1. m_majorityAcceptors' \in [Node -> SUBSET Node] /\ msgs' \subseteq Message
  BY SendPrepareTypes DEF beginRound
<1> QED BY <1>1 DEF beginRound, ProposerTypeOK

LEMMA PrepareTypes ==
  ASSUME ProposerTypeOK, msgs \subseteq Message, NEW p \in Node,
         prepareNext(p) \/ prepareAgain(p)
  PROVE  ProposerTypeOK' /\ msgs' \subseteq Message
<1>1. m_proposalID[p] \in ValidIDs /\ incrementNumber(m_proposalID[p]) \in ValidIDs
  BY NextNumber DEF ProposerTypeOK
<1>2. CASE prepareNext(p)
  BY <1>1, <1>2, BeginRoundTypes DEF prepareNext
<1>3. CASE prepareAgain(p)
  <2>1. m_majorityAcceptors' \in [Node -> SUBSET Node] /\ msgs' \subseteq Message
    BY <1>1, <1>3, SendPrepareTypes DEF prepareAgain
  <2> QED BY <1>3, <2>1 DEF prepareAgain, ProposerTypeOK
<1> QED BY <1>2, <1>3

LEMMA ProposingTypes ==
  ASSUME ProposerTypeOK, msgs \subseteq Message, NEW p \in Node,
         (\E value \in Value : setProposal(p, value)) \/ resendAccept(p)
  PROVE  ProposerTypeOK' /\ msgs' \subseteq Message
<1>1. ASSUME NEW value \in Value, setProposal(p, value)
      PROVE  ProposerTypeOK' /\ msgs' \subseteq Message
  <2>1. AcceptMessages(p, m_proposalID[p], value) \subseteq Message
    BY AcceptTypes DEF ProposerTypeOK
  <2>2. msgs' \subseteq Message
    BY <1>1, <2>1 DEF setProposal, Send
  <2> QED BY <1>1, <2>2 DEF setProposal, ProposerTypeOK
<1>2. CASE resendAccept(p)
  <2>1. AcceptMessages(p, m_proposalID[p], m_proposedValue[p]) \subseteq Message
    BY <1>2, AcceptTypes DEF resendAccept, ProposerTypeOK
  <2>2. msgs' \subseteq Message
    BY <1>2, <2>1 DEF resendAccept, Send
  <2> QED BY <1>2, <2>2 DEF resendAccept, proposerVars, ProposerTypeOK
<1> QED BY <1>1, <1>2

LEMMA NACKTypes ==
  ASSUME ProposerTypeOK, msgs \subseteq Message, NEW p \in Node,
         NEW promisedID \in ValidIDs, receiveNACK(p, promisedID)
  PROVE  ProposerTypeOK' /\ msgs' \subseteq Message
<1>1. Observed(p, promisedID) \in ValidIDs
  BY CatchUpKeepsOwner DEF Observed, ProposerTypeOK
<1> QED BY <1>1 DEF receiveNACK, ProposerTypeOK

\* A ping, and what the owner does to the proposer's flags.
LEMMA QuietTypes ==
  ASSUME ProposerTypeOK, NEW p \in Node,
         \/ \E flag \in BOOLEAN : setLeader(p, flag) \/ setProposerActive(p, flag)
         \/ \E sender \in Node, peers \in SUBSET Node :
              HandlePingMessage(p, sender, peers)
  PROVE  ProposerTypeOK'
BY DEF setLeader, setProposerActive, HandlePingMessage, AddPeerInfo, ProposerTypeOK

LEMMA ProposerInitTypes ==
  ASSUME NEW peers \in [Node -> SUBSET Node], ProposerInit(peers)
  PROVE  ProposerTypeOK
BY RoleFacts DEF ProposerInit, ProposerTypeOK, ValidIDs

-----------------------------------------------------------------------------
(***************************************************************************)
(* SelectMajorityAcceptors: no more than quorumSize acceptors are chosen.  *)
(* Each of them has a different number of peers below it.                  *)
(***************************************************************************)
LEMMA LeastBound ==
  ASSUME NEW S \in SUBSET Node
  PROVE  /\ IsFiniteSet(Least(S)) /\ Cardinality(Least(S)) \in Nat
         /\ Cardinality(Least(S)) <= QuorumSize
<1> DEFINE Below(s) == {t \in S : t < s}
           rank == [s \in Least(S) |-> Cardinality(Below(s))]
<1>1. S \subseteq Nat /\ IsFiniteSet(S)
  BY NodeAssumption, FiniteAssumption, FS_Subset
     DEF NodeAssumption, FiniteAssumption
<1>2. ASSUME NEW s \in S
      PROVE  IsFiniteSet(Below(s)) /\ Cardinality(Below(s)) \in Nat
  <2>1. Below(s) \in SUBSET S
    OBVIOUS
  <2> QED BY <1>1, <2>1, FS_Subset, FS_CardinalityType
<1>3. rank \in [Least(S) -> 0..(QuorumSize - 1)]
  BY <1>2, RoleFacts DEF Least
<1>4. ASSUME NEW s \in S, NEW t \in S, s < t
      PROVE  Cardinality(Below(s)) # Cardinality(Below(t))
  <2>0. s \in Nat /\ t \in Nat /\ \A u \in S : u \in Nat
    BY <1>1
  <2>1. ASSUME NEW u \in Below(s) PROVE u \in Below(t)
    <3>1. u \in Nat /\ u < s
      BY <2>0
    <3> QED BY <1>4, <2>0, <3>1
  <2>2. s \in Below(t) /\ s \notin Below(s)
    BY <1>4, <2>0
  <2>3. Below(s) \in SUBSET Below(t) /\ Below(s) # Below(t)
    BY <2>1, <2>2
  <2> QED BY <1>2, <2>3, FS_Subset
<1>5. ASSUME NEW s \in Least(S), NEW t \in Least(S), rank[s] = rank[t]
      PROVE  s = t
  <2>1. s \in S /\ t \in S /\ s \in Nat /\ t \in Nat
    BY <1>1 DEF Least
  <2>2. ~(s < t) /\ ~(t < s)
    BY <1>4, <1>5, <2>1
  <2> QED BY <2>1, <2>2
<1>6. rank \in Injection(Least(S), 0..(QuorumSize - 1))
  BY <1>3, <1>5 DEF Injection, IsInjective
<1>7. /\ IsFiniteSet(0..(QuorumSize - 1))
      /\ Cardinality(0..(QuorumSize - 1)) = QuorumSize
  BY RoleFacts, FS_Interval
<1> QED BY <1>6, <1>7, FS_Injection, FS_CardinalityType

\* Once as many have answered as were asked, nobody is left to answer.
LEMMA NobodyLeft ==
  ASSUME NEW asked \in SUBSET Node, Cardinality(asked) <= QuorumSize,
         NEW counted \in SUBSET asked, QuorumReached(counted)
  PROVE  counted = asked
<1>1. IsFiniteSet(asked) /\ Cardinality(asked) \in Nat
  BY FiniteAssumption, FS_Subset, FS_CardinalityType DEF FiniteAssumption
<1>2. Cardinality(counted) <= Cardinality(asked) /\ Cardinality(counted) \in Nat
  BY <1>1, FS_Subset, FS_CardinalityType
<1> QED BY <1>1, <1>2, RoleFacts, FS_Subset DEF QuorumReached

-----------------------------------------------------------------------------
(***************************************************************************)
(* What each call sends: a prepare request for the identifier it is given, *)
(* accept requests for one value, or nothing.                              *)
(***************************************************************************)
OnlyPrepares(p, id) ==
  /\ msgs \subseteq msgs'
  /\ \A m \in msgs' \ msgs : /\ m.cmd = "prepare" /\ m.from = p /\ m.id = id
                             /\ m.acceptors = SelectMajorityAcceptors(p)
                             /\ m.acceptors # {}

OnlyAccepts(p, id, value) ==
  /\ msgs \subseteq msgs'
  /\ \A m \in msgs' \ msgs : /\ m.cmd = "accept" /\ m.from = p /\ m.id = id
                             /\ m.value = value
                             /\ m.acceptors = m_majorityAcceptors[p]

LEMMA SendPrepareSends ==
  ASSUME NEW p, NEW id, sendPrepare(p, id)
  PROVE  OnlyPrepares(p, id)
BY DEF OnlyPrepares, sendPrepare, Send, Prepare

LEMMA SendAcceptSends ==
  ASSUME NEW p, NEW id, NEW value, Send(AcceptMessages(p, id, value))
  PROVE  OnlyAccepts(p, id, value)
BY DEF OnlyAccepts, Send, AcceptMessages, Accept

LEMMA SilenceSends ==
  ASSUME NEW p, NEW id, NEW value, Send({}) \/ msgs' = msgs
  PROVE  OnlyAccepts(p, id, value)
BY DEF OnlyAccepts, Send

\* Whatever proposers send, it is a request.
LEMMA ProposerSendsKeepMessageInv ==
  ASSUME MessageInv, UNCHANGED acceptorVars, msgs' \subseteq Message,
         NEW p, NEW id, NEW value,
         OnlyPrepares(p, id) \/ OnlyAccepts(p, id, value)
  PROVE  MessageInv'
<1>1. UNCHANGED <<m_promisedID, m_acceptedID>>
  BY DEF acceptorVars
<1> QED BY <1>1, RequestsKeepMessageInv DEF OnlyPrepares, OnlyAccepts

(***************************************************************************)
(* What a call of receivePromise does, as seen by the owner: the promise   *)
(* is ignored but for its identifier, or counted.                          *)
(***************************************************************************)
LEMMA CountPromiseEffect ==
  ASSUME ProposerTypeOK, NEW p \in Node, NEW a, NEW id, NEW acceptID,
         NEW acceptValue, CountPromise(p, a, id, acceptID, acceptValue)
  PROVE  LET promises == m_promisesReceived[p] \cup {a} IN
         /\ id = Observed(p, id) /\ a \notin m_promisesReceived[p]
         /\ m_promisesReceived'[p] = promises
         /\ m_lastAcceptedID'[p] = IF IsNews(p, acceptID) THEN acceptID
                                                          ELSE m_lastAcceptedID[p]
         /\ m_proposedValue'[p] = Adopted(p, acceptID, acceptValue)
         /\ m_leader'[p] => m_leader[p] \/ QuorumReached(promises)
         /\ m_proposalID'[p] = id
         /\ OnlyAccepts(p, id, m_proposedValue'[p])
         /\ msgs' = msgs \/ /\ QuorumReached(promises)
                            /\ m_proposedValue'[p] # NoValue
<1> DEFINE promises == m_promisesReceived[p] \cup {a}
           value == Adopted(p, acceptID, acceptValue)
<1>1. /\ id = Observed(p, id) /\ a \notin m_promisesReceived[p]
      /\ m_promisesReceived' = [m_promisesReceived EXCEPT ![p] = promises]
      /\ m_lastAcceptedID' = IF IsNews(p, acceptID)
                             THEN [m_lastAcceptedID EXCEPT ![p] = acceptID]
                             ELSE m_lastAcceptedID
      /\ m_proposedValue' = [m_proposedValue EXCEPT ![p] = value]
      /\ m_leader' = [m_leader EXCEPT ![p] = @ \/ QuorumReached(promises)]
      /\ m_proposalID' = [m_proposalID EXCEPT ![p] = id]
      /\ Send(FirstAccept(p, id, promises, value))
  BY DEF CountPromise, Counts
<1> HIDE DEF promises, value
<1>2. /\ m_promisesReceived'[p] = promises
      /\ m_lastAcceptedID'[p] = IF IsNews(p, acceptID) THEN acceptID
                                                       ELSE m_lastAcceptedID[p]
      /\ m_proposedValue'[p] = value
      /\ m_proposalID'[p] = id
  BY <1>1 DEF ProposerTypeOK
<1>3. m_leader'[p] => m_leader[p] \/ QuorumReached(promises)
  BY <1>1 DEF ProposerTypeOK
<1>4. OnlyAccepts(p, id, value)
  BY <1>1, SendAcceptSends, SilenceSends DEF FirstAccept
<1>5. msgs' = msgs \/ (QuorumReached(promises) /\ value # NoValue)
  BY <1>1 DEF FirstAccept, Send
<1> QED BY <1>1, <1>2, <1>3, <1>4, <1>5 DEF promises, value

\* Whom it leaves alone.
LEMMA ReceivePromiseFrame ==
  ASSUME ProposerTypeOK, NEW p \in Node, NEW a, NEW id, NEW acceptID,
         NEW acceptValue, receivePromise(p, a, id, acceptID, acceptValue),
         NEW q \in Node, q # p
  PROVE  /\ m_promisesReceived'[q] = m_promisesReceived[q]
         /\ m_lastAcceptedID'[q] = m_lastAcceptedID[q]
         /\ m_proposedValue'[q] = m_proposedValue[q]
         /\ m_leader'[q] = m_leader[q]
         /\ m_proposalID'[q] = m_proposalID[q]
BY DEF receivePromise, IgnorePromise, CountPromise, ProposerTypeOK

\* The highest report so far is as high as the one before and as the new one.
LEMMA HighestReport ==
  ASSUME NEW p \in Node, NEW acceptID \in ProposalIDs, NEW last,
         m_lastAcceptedID[p] \in ValidIDs \cup {NullID},
         last = IF IsNews(p, acceptID) THEN acceptID ELSE m_lastAcceptedID[p]
  PROVE  /\ last \in ProposalIDs
         /\ Geq(last, acceptID) /\ Geq(last, m_lastAcceptedID[p])
<1>0. m_lastAcceptedID[p] \in ProposalIDs
  BY RoleFacts
<1>1. CASE ~isValid(m_lastAcceptedID[p])
  <2>1. m_lastAcceptedID[p] = NullID /\ last = acceptID
    BY <1>0, <1>1, ValidHasUID DEF IsNews
  <2> QED BY <2>1, NullIsLeast, GeqReflexive
<1>2. CASE Gt(acceptID, m_lastAcceptedID[p])
  <2>1. last = acceptID
    BY <1>2 DEF IsNews
  <2> QED BY <1>0, <1>2, <2>1, GtImpliesGeq, GeqReflexive
<1>3. CASE isValid(m_lastAcceptedID[p]) /\ ~Gt(acceptID, m_lastAcceptedID[p])
  <2>1. last = m_lastAcceptedID[p]
    BY <1>3 DEF IsNews
  <2> QED BY <1>0, <1>3, <2>1, NotGt, GeqReflexive
<1> QED BY <1>1, <1>2, <1>3

LEMMA QuorumGrows ==
  ASSUME NEW S, NEW T \in SUBSET Node, S \subseteq T, QuorumReached(S)
  PROVE  QuorumReached(T)
<1>1. IsFiniteSet(T)
  BY RoleFacts, FS_Subset
<1>2. /\ Cardinality(S) <= Cardinality(T)
      /\ Cardinality(S) \in Nat /\ Cardinality(T) \in Nat
  BY <1>1, FS_Subset, FS_CardinalityType
<1> QED BY <1>2, RoleFacts DEF QuorumReached
=============================================================================
