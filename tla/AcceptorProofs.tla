--------------------------- MODULE AcceptorProofs ---------------------------
(***************************************************************************)
(* Proofs about the acceptor in AcceptorEnv: what holds of it whatever the *)
(* network and the proposers do, for any set of nodes and of identifiers;  *)
(* first for processes that stay up, then for processes that restart.      *)
(***************************************************************************)
EXTENDS AcceptorEnv, RoleProofs

HandledOK == handled \subseteq (Acceptors \X {"prepare", "accept"} \X RequestIDs)

IInv == AcceptorInv /\ MessageInv /\ HandledOK

-----------------------------------------------------------------------------
LEMMA Requests ==
  /\ \A a \in Acceptors : a \in Node
  /\ \A id \in RequestIDs : id \in ValidIDs /\ id \in ProposalIDs /\ id.uid \in Node
BY EnvAssumption, ValidIsID DEF EnvAssumption, ValidIDs

\* Every call of an acceptor but those of a restart: what it does to the
\* fields, which stay in order.
LEMMA CallsKeep ==
  ASSUME AcceptorInv, Next
  PROVE  /\ AcceptorInv'
         /\ \E a \in Acceptors :
              \/ Answers
              \/ \E id \in RequestIDs : RaisesPromise(a, id)
              \/ \E id \in RequestIDs, value \in Value : RaisesVote(a, id, value)
<1>1. ASSUME NEW a \in Acceptors, NEW id \in RequestIDs, PrepareArrives(a, id)
      PROVE  AcceptorInv' /\ (Answers \/ RaisesPromise(a, id))
  BY <1>1, Requests, ReceivePrepareKeeps DEF PrepareArrives
<1>2. ASSUME NEW a \in Acceptors, NEW id \in RequestIDs, NEW value \in Value,
             AcceptArrives(a, id, value)
      PROVE  AcceptorInv' /\ (Answers \/ RaisesVote(a, id, value))
  BY <1>2, Requests, ReceiveAcceptRequestKeeps DEF AcceptArrives
<1>3. ASSUME NEW a \in Acceptors, OwnerActs(a)
      PROVE  AcceptorInv' /\ Answers
  BY <1>3, Requests, PersistKeeps, SetActiveKeeps DEF OwnerActs
<1> QED BY <1>1, <1>2, <1>3 DEF Next

LEMMA HandledStaysOK ==
  ASSUME HandledOK, Next
  PROVE  HandledOK'
<1>1. ASSUME NEW a \in Acceptors, NEW cmd \in {"prepare", "accept"},
             NEW id \in RequestIDs, Deliver(a, cmd, id)
      PROVE  HandledOK'
  <2>1. <<a, cmd, id>> \in Acceptors \X {"prepare", "accept"} \X RequestIDs
    OBVIOUS
  <2> QED BY <1>1, <2>1 DEF HandledOK, Deliver
<1> QED BY <1>1 DEF Next, PrepareArrives, AcceptArrives, OwnerActs, HandledOK

LEMMA InitIInv == Init => IInv
<1> SUFFICES ASSUME Init PROVE IInv
  OBVIOUS
<1>1. AcceptorInv
  BY AcceptorInitInv DEF Init
<1>2. MessageInv
  BY DEF Init, MessageInv, PromiseBounds, PermitBounds, RefusalBounds,
         LastVoteGap, PromiseIsKept, Sent
<1> QED BY <1>1, <1>2 DEF Init, IInv, HandledOK

LEMMA NextIInv == IInv /\ [Next]_vars => IInv'
<1> SUFFICES ASSUME IInv, [Next]_vars PROVE IInv'
  OBVIOUS
<1>1. CASE UNCHANGED vars
  <2>1. AcceptorInv' /\ Answers
    BY <1>1, SameFieldsKeepAcceptorInv DEF vars, acceptorVars, Answers, IInv
  <2> QED BY <1>1, <2>1, AnswersKeepMessageInv DEF vars, IInv, HandledOK
<1>2. CASE Next
  <2>1. AcceptorInv'
    BY <1>2, CallsKeep DEF IInv
  <2>2. MessageInv'
    BY <1>2, <2>1, CallsKeep, Requests, AcceptorKeepsMessageInv,
       AnswersKeepMessageInv DEF IInv
  <2> QED BY <1>2, <2>1, <2>2, HandledStaysOK DEF IInv
<1> QED BY <1>1, <1>2

LEMMA InductiveInvariant == Spec => []IInv
BY InitIInv, NextIInv, PTL DEF Spec

(***************************************************************************)
(* Every field and every message sent has its type: in particular no       *)
(* promise or permit goes out for an identifier or a value that is unset.  *)
(***************************************************************************)
THEOREM TypeCorrect == Spec => []TypeOK
<1>1. IInv => TypeOK
  BY DEF IInv, AcceptorInv, MessageInv, HandledOK, TypeOK
<1> QED BY <1>1, InductiveInvariant, PTL

(***************************************************************************)
(* A promise for id reports the acceptor's last vote below id: no permit   *)
(* of that acceptor, however late, lies strictly between the two.          *)
(***************************************************************************)
THEOREM LastVoteReported == Spec => []PromisesReportLastVote
<1>1. IInv => PromisesReportLastVote
  BY DEF IInv, MessageInv, PromiseIsKept, PromisesReportLastVote
<1> QED BY <1>1, InductiveInvariant, PTL

\* Only recording changes a vote, and it looks at what was promised.
LEMMA VoteIsNotBelowPromise ==
  ASSUME IInv, [Next]_vars, NEW a \in Acceptors,
         Gt(m_acceptedID'[a], m_acceptedID[a])
  PROVE  /\ m_acceptedID'[a] \in ProposalIDs
         /\ Geq(m_acceptedID'[a], m_promisedID[a])
<1>1. a \in Node /\ m_acceptedID[a] \in ProposalIDs
  BY Requests DEF IInv, AcceptorInv, AcceptorTypeOK
<1>2. m_acceptedID'[a] # m_acceptedID[a]
  BY <1>1, GtImpliesGeq
<1>3. Next
  BY <1>2 DEF vars, acceptorVars
<1>4. PICK b \in Acceptors, id \in RequestIDs, value \in Value :
        RaisesVote(b, id, value)
  BY <1>2, <1>3, CallsKeep DEF IInv, Answers, RaisesPromise
<1>5. b = a /\ m_acceptedID'[a] = id
  BY <1>1, <1>2, <1>4 DEF RaisesVote, IInv, AcceptorInv, AcceptorTypeOK
<1> QED BY <1>4, <1>5, Requests DEF RaisesVote

(***************************************************************************)
(* An acceptor that has told anyone, in a promise or a refusal, that it    *)
(* promised n never again records a vote below n.                          *)
(***************************************************************************)
THEOREM BoundsAreKept == Spec => NoVoteBelowBound
<1>1. ASSUME IInv, [Next]_vars
      PROVE  [\A a \in Acceptors :
                Gt(m_acceptedID'[a], m_acceptedID[a])
                  => \A n \in Bounds(a) : Geq(m_acceptedID'[a], n)]_vars
  <2> SUFFICES ASSUME NEW a \in Acceptors,
                      Gt(m_acceptedID'[a], m_acceptedID[a]),
                      NEW n \in Bounds(a)
               PROVE  Geq(m_acceptedID'[a], n)
    OBVIOUS
  <2>1. /\ m_acceptedID'[a] \in ProposalIDs /\ m_promisedID[a] \in ProposalIDs
        /\ Geq(m_acceptedID'[a], m_promisedID[a])
    BY <1>1, VoteIsNotBelowPromise, Requests DEF IInv, AcceptorInv, AcceptorTypeOK
  <2>2. n \in ProposalIDs
    BY <1>1, SentFields DEF IInv, MessageInv, Bounds
  <2>3. Geq(m_promisedID[a], n)
    BY <1>1 DEF IInv, MessageInv, PromiseBounds, RefusalBounds, Bounds
  <2> QED BY <2>1, <2>2, <2>3, GeqTransitive
<1> QED BY <1>1, InductiveInvariant, PTL DEF Spec, NoVoteBelowBound

-----------------------------------------------------------------------------
(***************************************************************************)
(* Processes that restart.  A restart takes the fields back to what is on  *)
(* disk, so others must not have been told more than that.  The invariant  *)
(* compares both the fields and the disk with what has been sent.          *)
(*                                                                         *)
(* It takes Once: an identifier that is promised again at once, without    *)
(* waiting for the disk, may be one that was recorded but never saved.     *)
(* With Once that branch is never taken, as HandledInv says: the request   *)
(* for what is promised, or voted for, has been handled.                   *)
(***************************************************************************)
DiskIsBehind ==
  \A a \in Node :
    /\ disk[a].promisedID \in ValidIDs \cup {NullID}
    /\ disk[a].acceptedID \in ValidIDs \cup {NullID}
    /\ disk[a].acceptedID \in ValidIDs => disk[a].acceptedValue \in Value
    /\ Geq(disk[a].promisedID, disk[a].acceptedID)
    /\ Geq(m_promisedID[a], disk[a].promisedID)
    /\ Geq(m_acceptedID[a], disk[a].acceptedID)

WasHandled(a, promisedID, acceptedID) ==
  /\ promisedID \in ValidIDs => <<a, "prepare", promisedID>> \in handled
  /\ acceptedID \in ValidIDs => <<a, "accept", acceptedID>> \in handled

HandledInv ==
  /\ \A a \in Node : /\ WasHandled(a, m_promisedID[a], m_acceptedID[a])
                     /\ WasHandled(a, disk[a].promisedID, disk[a].acceptedID)
  /\ \A p \in Sent("promise") : <<p.from, "prepare", p.id>> \in handled

\* The vote x of an acceptor that has sent the promise p.
Agrees(x, p) == x = p.acceptID \/ Geq(x, p.id)

DiskGap ==
  \A p \in Sent("promise") : /\ Agrees(m_acceptedID[p.from], p)
                             /\ Agrees(disk[p.from].acceptedID, p)

DiskInv ==
  /\ DiskIsBehind
  /\ HandledInv
  /\ AnswersAreDurable
  /\ DiskGap
  /\ PromisesReportLastVote

DurableInv == AcceptorInv /\ HandledOK /\ msgs \subseteq Message /\ DiskInv

LEMMA DiskTypes ==
  ASSUME AcceptorInv, NEW a \in Node
  PROVE  /\ disk[a].promisedID \in ProposalIDs /\ disk[a].acceptedID \in ProposalIDs
         /\ disk[a].acceptedValue \in Value \cup {NoValue}
         /\ m_promisedID[a] \in ProposalIDs /\ m_acceptedID[a] \in ProposalIDs
BY DEF AcceptorInv, AcceptorTypeOK, Saved

\* Refusals and handled requests that are added disturb nothing.
LEMMA RefusalsKeepDiskInv ==
  ASSUME DiskInv, UNCHANGED <<m_promisedID, m_acceptedID, disk>>,
         handled \subseteq handled', msgs \subseteq msgs',
         \A m \in msgs' \ msgs : m.cmd \in {"prepareNACK", "acceptNACK"}
  PROVE  DiskInv'
<1>1. Sent("promise")' = Sent("promise") /\ Sent("permit")' = Sent("permit")
  BY DEF Sent
<1> QED BY <1>1 DEF DiskInv, DiskIsBehind, HandledInv, WasHandled,
                AnswersAreDurable, DiskGap, Agrees, PromisesReportLastVote

\* A promise that is recorded.
LEMMA RecordedPromiseKeepsDiskInv ==
  ASSUME AcceptorInv, DiskInv, NEW a \in Node, NEW id \in ValidIDs,
         RaisesPromise(a, id), UNCHANGED disk, handled \subseteq handled',
         <<a, "prepare", id>> \in handled'
  PROVE  DiskInv'
<1>0. id \in ProposalIDs /\ m_promisedID \in [Node -> ProposalIDs]
  BY RoleFacts DEF AcceptorInv, AcceptorTypeOK
<1>1. \A b \in Node : Geq(m_promisedID'[b], m_promisedID[b])
  BY <1>0, GeqReflexive DEF RaisesPromise
<1>2. DiskIsBehind'
  <2>1. \A b \in Node : Geq(m_promisedID'[b], disk[b].promisedID)
    BY <1>0, <1>1, DiskTypes, GeqTransitive DEF RaisesPromise, DiskInv, DiskIsBehind
  <2> QED BY <2>1 DEF DiskInv, DiskIsBehind, RaisesPromise
<1>3. HandledInv'
  BY <1>0 DEF DiskInv, HandledInv, WasHandled, RaisesPromise, Sent
<1>4. AnswersAreDurable' /\ DiskGap' /\ PromisesReportLastVote'
  BY DEF DiskInv, AnswersAreDurable, DiskGap, Agrees, PromisesReportLastVote,
         RaisesPromise, Sent
<1> QED BY <1>2, <1>3, <1>4 DEF DiskInv

\* A vote that is recorded: it is not below what is on disk, and so not below
\* any promise that has been sent.
LEMMA RecordedVoteKeepsDiskInv ==
  ASSUME AcceptorInv, msgs \subseteq Message, DiskInv, NEW a \in Node,
         NEW id \in ValidIDs, NEW value, RaisesVote(a, id, value),
         UNCHANGED disk, handled \subseteq handled',
         <<a, "prepare", id>> \in handled', <<a, "accept", id>> \in handled'
  PROVE  DiskInv'
<1>0. /\ id \in ProposalIDs
      /\ m_promisedID \in [Node -> ProposalIDs] /\ m_acceptedID \in [Node -> ProposalIDs]
  BY RoleFacts DEF AcceptorInv, AcceptorTypeOK
<1>1. /\ Geq(id, m_promisedID[a]) /\ Geq(id, m_acceptedID[a])
      /\ Geq(id, disk[a].promisedID) /\ Geq(id, disk[a].acceptedID)
  BY <1>0, DiskTypes, GeqTransitive
     DEF RaisesVote, AcceptorInv, AcceptedIsPromised, DiskInv, DiskIsBehind
<1>2. DiskIsBehind'
  BY <1>0, <1>1 DEF RaisesVote, DiskInv, DiskIsBehind
<1>3. HandledInv'
  BY <1>0 DEF DiskInv, HandledInv, WasHandled, RaisesVote, Sent
<1>4. AnswersAreDurable' /\ PromisesReportLastVote'
  BY DEF DiskInv, AnswersAreDurable, PromisesReportLastVote, RaisesVote, Sent
<1>5. DiskGap'
  <2> SUFFICES ASSUME NEW p \in Sent("promise")
               PROVE  /\ Agrees(m_acceptedID'[p.from], p)
                      /\ Agrees(disk'[p.from].acceptedID, p)
    BY DEF DiskGap, Sent, RaisesVote
  <2>1. p.from \in Node /\ p.id \in ProposalIDs
    BY SentFields
  <2>2. CASE p.from # a
    BY <1>0, <2>1, <2>2 DEF RaisesVote, DiskInv, DiskGap
  <2>3. CASE p.from = a
    <3>1. Geq(id, p.id)
      BY <1>0, <1>1, <2>1, <2>3, DiskTypes, GeqTransitive DEF DiskInv, AnswersAreDurable
    <3> QED BY <1>0, <2>3, <3>1 DEF RaisesVote, DiskInv, DiskGap, Agrees
  <2> QED BY <2>2, <2>3
<1> QED BY <1>2, <1>3, <1>4, <1>5 DEF DiskInv

-----------------------------------------------------------------------------
\* With Once, no promise and no permit is given at once.
LEMMA PrepareArrivesKeepsDurable ==
  ASSUME Once, DurableInv, NEW a \in Acceptors, NEW id \in RequestIDs,
         PrepareArrives(a, id)
  PROVE  DurableInv'
<1>0. a \in Node /\ id \in ValidIDs /\ id.uid \in Node
  BY Requests
<1>1. AcceptorInv' /\ (Answers \/ RaisesPromise(a, id))
  BY <1>0, ReceivePrepareKeeps DEF PrepareArrives, DurableInv
<1>2. /\ <<a, "prepare", id>> \notin handled
      /\ handled' = handled \cup {<<a, "prepare", id>>}
      /\ HandledOK'
  <2>1. <<a, "prepare", id>> \in Acceptors \X {"prepare", "accept"} \X RequestIDs
    OBVIOUS
  <2> QED BY <2>1 DEF PrepareArrives, Deliver, HandledOK, DurableInv
<1>3. m_promisedID[a] # id
  BY <1>0, <1>2 DEF DurableInv, DiskInv, HandledInv, WasHandled
<1>4. UNCHANGED disk
  BY DEF PrepareArrives, receivePrepare, PromiseAgain, RecordPromise, DropPrepare,
         RefusePrepare, acceptorVars
<1>5. CASE RecordPromise(a, id.uid, id)
  <2>1. RaisesPromise(a, id) /\ UNCHANGED msgs
    BY <1>0, <1>5, OutbidsPromise DEF RecordPromise, RaisesPromise, DurableInv
  <2> QED BY <1>0, <1>1, <1>2, <1>4, <2>1, RecordedPromiseKeepsDiskInv DEF DurableInv
<1>6. CASE RefusePrepare(a, id.uid, id) \/ DropPrepare(a, id)
  <2>1. /\ UNCHANGED <<m_promisedID, m_acceptedID>>
        /\ msgs \subseteq msgs'
        /\ \A m \in msgs' \ msgs : m.cmd \in {"prepareNACK", "acceptNACK"}
    BY <1>6 DEF RefusePrepare, DropPrepare, acceptorVars, SendIfActive, Send, PrepareNACK
  <2>2. DiskInv'
    BY <1>2, <1>4, <2>1, RefusalsKeepDiskInv DEF DurableInv
  <2>3. msgs' \subseteq Message
    BY <1>1 DEF Answers, RaisesPromise, Truthful, DurableInv
  <2> QED BY <1>1, <1>2, <2>2, <2>3 DEF DurableInv
<1> QED BY <1>3, <1>5, <1>6 DEF PrepareArrives, receivePrepare, PromiseAgain

LEMMA AcceptArrivesKeepsDurable ==
  ASSUME Once, DurableInv, NEW a \in Acceptors, NEW id \in RequestIDs,
         NEW value \in Value, AcceptArrives(a, id, value)
  PROVE  DurableInv'
<1>0. a \in Node /\ id \in ValidIDs /\ id.uid \in Node
  BY Requests
<1>1. AcceptorInv' /\ (Answers \/ RaisesVote(a, id, value))
  BY <1>0, ReceiveAcceptRequestKeeps DEF AcceptArrives, DurableInv
<1>2. /\ <<a, "accept", id>> \notin handled
      /\ handled' = handled \cup {<<a, "accept", id>>}
      /\ HandledOK'
  <2>1. <<a, "accept", id>> \in Acceptors \X {"prepare", "accept"} \X RequestIDs
    OBVIOUS
  <2> QED BY <2>1 DEF AcceptArrives, Deliver, HandledOK, DurableInv
<1>3. m_acceptedID[a] # id
  BY <1>0, <1>2 DEF DurableInv, DiskInv, HandledInv, WasHandled
<1>4. UNCHANGED disk
  BY DEF AcceptArrives, receiveAcceptRequest, PermitAgain, RecordAccept, DropAccept,
         RefuseAccept, acceptorVars
<1>5. CASE RecordAccept(a, id.uid, id, value)
  <2>1. RaisesVote(a, id, value) /\ UNCHANGED msgs
    BY <1>0, <1>5, OutbidsPromise DEF RecordAccept, RaisesVote, DurableInv
  <2>2. <<a, "prepare", id>> \in handled
    BY DEF AcceptArrives, HasPromised, DurableInv, DiskInv, HandledInv
  <2>3. DiskInv'
    BY <1>0, <1>2, <1>4, <2>1, <2>2, RecordedVoteKeepsDiskInv DEF DurableInv
  <2> QED BY <1>1, <1>2, <2>1, <2>3 DEF DurableInv
<1>6. CASE RefuseAccept(a, id.uid, id, value) \/ DropAccept(a, id, value)
  <2>1. /\ UNCHANGED <<m_promisedID, m_acceptedID>>
        /\ msgs \subseteq msgs'
        /\ \A m \in msgs' \ msgs : m.cmd \in {"prepareNACK", "acceptNACK"}
    BY <1>6 DEF RefuseAccept, DropAccept, acceptorVars, SendIfActive, Send, AcceptNACK
  <2>2. DiskInv'
    BY <1>2, <1>4, <2>1, RefusalsKeepDiskInv DEF DurableInv
  <2>3. msgs' \subseteq Message
    BY <1>1 DEF Answers, RaisesVote, Truthful, DurableInv
  <2> QED BY <1>1, <1>2, <2>2, <2>3 DEF DurableInv
<1> QED BY <1>3, <1>5, <1>6 DEF AcceptArrives, receiveAcceptRequest, PermitAgain, AlreadyAccepted

\* What is sent has been saved a moment before.
LEMMA PersistKeepsDurable ==
  ASSUME DurableInv, NEW a \in Node, Persist(a), UNCHANGED handled
  PROVE  DurableInv'
<1>0. /\ AcceptorInv' /\ Answers
      /\ m_promisedID[a] \in ProposalIDs /\ m_acceptedID[a] \in ProposalIDs
      /\ m_acceptedID \in [Node -> ProposalIDs]
      /\ disk \in [Node -> Saved]
  BY PersistKeeps DEF DurableInv, AcceptorInv, AcceptorTypeOK
<1>1. msgs' \subseteq Message
  BY <1>0 DEF Answers, Truthful, DurableInv
<1>2. /\ disk' = [disk EXCEPT ![a] = ToSave(a)]
      /\ UNCHANGED <<m_promisedID, m_acceptedID, m_acceptedValue>>
  BY DEF Persist, persisted
<1>3. /\ disk'[a].promisedID = m_promisedID[a]
      /\ disk'[a].acceptedID = m_acceptedID[a]
      /\ disk'[a].acceptedValue = m_acceptedValue[a]
      /\ \A b \in Node \ {a} : disk'[b] = disk[b]
  BY <1>0, <1>2 DEF ToSave
<1>4. \A m \in msgs' \ msgs : Truthful(m) /\ m.from = a
  BY <1>0 DEF Answers, Persist, persisted, SendIfActive, Send, PendingAnswers, Promise, Permit
<1>5. DiskIsBehind'
  BY <1>0, <1>2, <1>3, GeqReflexive
     DEF DurableInv, DiskInv, DiskIsBehind, AcceptorInv, PendingIsSet, AcceptedIsPromised
<1>6. HandledInv'
  <2>1. \A b \in Node : WasHandled(b, disk'[b].promisedID, disk'[b].acceptedID)
    BY <1>3 DEF DurableInv, DiskInv, HandledInv
  <2>2. \A p \in Sent("promise")' : <<p.from, "prepare", p.id>> \in handled
    BY <1>1, <1>4, MessageFields DEF DurableInv, DiskInv, HandledInv, WasHandled, Sent, Truthful
  <2> QED BY <1>2, <2>1, <2>2 DEF DurableInv, DiskInv, HandledInv, WasHandled
<1>7. AnswersAreDurable'
  <2>1. ASSUME NEW m \in msgs', m.cmd \in {"promise", "permit"}
        PROVE  /\ m.cmd = "promise" => Geq(disk'[m.from].promisedID, m.id)
               /\ m.cmd = "permit" => Geq(disk'[m.from].acceptedID, m.id)
    <3>1. CASE m \notin msgs
      BY <1>0, <1>3, <1>4, <3>1, GeqReflexive DEF Truthful
    <3>2. CASE m \in msgs /\ m.from # a
      <4>1. m.from \in Node
        BY <1>1, MessageFields
      <4> QED BY <1>3, <2>1, <3>2, <4>1 DEF DurableInv, DiskInv, AnswersAreDurable, Sent
    <3>3. CASE m \in msgs /\ m.from = a
      <4>1. m.id \in ProposalIDs
        BY <1>1, MessageFields
      <4>2. /\ m.cmd = "promise" => Geq(disk[a].promisedID, m.id)
            /\ m.cmd = "permit" => Geq(disk[a].acceptedID, m.id)
        BY <2>1, <3>3 DEF DurableInv, DiskInv, AnswersAreDurable, Sent
      <4>3. Geq(m_promisedID[a], disk[a].promisedID) /\ Geq(m_acceptedID[a], disk[a].acceptedID)
        BY DEF DurableInv, DiskInv, DiskIsBehind
      <4>4. disk[a].promisedID \in ProposalIDs /\ disk[a].acceptedID \in ProposalIDs
        BY DiskTypes DEF DurableInv
      <4> QED BY <1>0, <1>3, <3>3, <4>1, <4>2, <4>3, <4>4, GeqTransitive
    <3> QED BY <3>1, <3>2, <3>3
  <2> QED BY <2>1 DEF AnswersAreDurable, Sent
<1>8. DiskGap'
  <2> SUFFICES ASSUME NEW p \in msgs', p.cmd = "promise"
               PROVE  /\ Agrees(m_acceptedID[p.from], p)
                      /\ Agrees(disk'[p.from].acceptedID, p)
    BY <1>2 DEF DiskGap, Sent
  <2>1. p.from \in Node
    BY <1>1, MessageFields
  <2>2. Agrees(m_acceptedID[p.from], p)
    BY <1>4 DEF DurableInv, DiskInv, DiskGap, Sent, Truthful, Agrees
  <2>3. CASE p.from = a
    BY <1>3, <2>2, <2>3
  <2>4. CASE p.from # a
    BY <1>3, <1>4, <2>1, <2>2, <2>4 DEF DurableInv, DiskInv, DiskGap, Sent
  <2> QED BY <2>2, <2>3, <2>4
<1>9. PromisesReportLastVote'
  <2> SUFFICES ASSUME NEW p \in msgs', p.cmd = "promise", NEW v \in msgs', v.cmd = "permit",
                      v.from = p.from
               PROVE  ~(Gt(v.id, p.acceptID) /\ Gt(p.id, v.id))
    BY DEF PromisesReportLastVote, Sent
  <2>1. /\ p.id \in ProposalIDs /\ p.acceptID \in ProposalIDs
        /\ v.id \in ProposalIDs /\ p.from \in Node
        /\ m_acceptedID[p.from] \in ProposalIDs
    BY <1>0, <1>1, MessageFields
  <2>2. CASE v \notin msgs
    \* The new permit is of the present vote.
    <3>1. v.id = m_acceptedID[p.from]
      BY <1>4, <2>2 DEF Truthful
    <3>2. Agrees(m_acceptedID[p.from], p)
      BY <1>2, <1>8 DEF DiskGap, Sent
    <3> QED BY <3>1, <3>2, <2>1, GeqReflexive, NotGt DEF Agrees
  <2>3. CASE p \notin msgs
    \* The new promise reports the vote on disk, which bounds every permit.
    <3>1. p.acceptID = m_acceptedID[p.from] /\ p.from = a
      BY <1>4, <2>3 DEF Truthful
    <3>2. Geq(disk'[p.from].acceptedID, v.id)
      BY <1>7 DEF AnswersAreDurable, Sent
    <3> QED BY <1>3, <2>1, <3>1, <3>2, NotGt
  <2>4. CASE v \in msgs /\ p \in msgs
    BY <2>4 DEF DurableInv, DiskInv, PromisesReportLastVote, Sent
  <2> QED BY <2>2, <2>3, <2>4
<1> QED BY <1>0, <1>1, <1>5, <1>6, <1>7, <1>8, <1>9 DEF DurableInv, DiskInv, HandledOK

(***************************************************************************)
(* A restart, with the disk as it was or with what was being saved.        *)
(***************************************************************************)
LEMMA RestartKeepsDurable ==
  ASSUME DurableInv, NEW a \in Node, RestartNode(a)
  PROVE  DurableInv'
<1>1. PICK saved \in {disk[a], ToSave(a)}, active \in ActiveAtStart :
        /\ recover(a, saved)
        /\ disk' = [disk EXCEPT ![a] = saved]
        /\ m_pendingPromiseUID' = [m_pendingPromiseUID EXCEPT ![a] = NoUID]
        /\ m_pendingAcceptUID' = [m_pendingAcceptUID EXCEPT ![a] = NoUID]
        /\ acceptorActive' = [acceptorActive EXCEPT ![a] = active]
        /\ UNCHANGED <<msgs, handled>>
  BY DEF RestartNode, Restart
<1>2. AcceptorTypeOK /\ PendingIsSet /\ AcceptedIsPromised /\ DiskIsBehind
  BY DEF DurableInv, AcceptorInv, DiskInv
<1>3. /\ saved \in Saved
      /\ saved.promisedID \in ValidIDs \cup {NullID}
      /\ saved.acceptedID \in ValidIDs \cup {NullID}
      /\ saved.acceptedID \in ValidIDs => saved.acceptedValue \in Value
      /\ Geq(saved.promisedID, saved.acceptedID)
      /\ Geq(saved.promisedID, disk[a].promisedID)
      /\ Geq(saved.acceptedID, disk[a].acceptedID)
      /\ WasHandled(a, saved.promisedID, saved.acceptedID)
      /\ \A p \in Sent("promise") : p.from = a => Agrees(saved.acceptedID, p)
  <2>1. CASE saved = disk[a]
    BY <1>2, <2>1, DiskTypes, GeqReflexive
       DEF AcceptorTypeOK, DiskIsBehind, DurableInv, DiskInv, HandledInv, DiskGap
  <2>2. CASE saved = ToSave(a)
    <3>1. ToSave(a) \in Saved
      BY <1>2 DEF ToSave, Saved, AcceptorTypeOK
    <3> QED BY <1>2, <2>2, <3>1
            DEF ToSave, PendingIsSet, AcceptedIsPromised, DiskIsBehind, DurableInv,
                DiskInv, HandledInv, DiskGap
  <2> QED BY <2>1, <2>2
<1>4. /\ m_promisedID' = [m_promisedID EXCEPT ![a] = saved.promisedID]
      /\ m_acceptedID' = [m_acceptedID EXCEPT ![a] = saved.acceptedID]
      /\ m_acceptedValue' = [m_acceptedValue EXCEPT ![a] = saved.acceptedValue]
  BY <1>1 DEF recover
<1>5. AcceptorTypeOK'
  BY <1>1, <1>2, <1>3, <1>4, RoleFacts DEF AcceptorTypeOK, Saved
<1>6. PendingIsSet' /\ AcceptedIsPromised'
  BY <1>1, <1>2, <1>3, <1>4 DEF AcceptorTypeOK, PendingIsSet, AcceptedIsPromised
<1>7. /\ \A b \in Node \ {a} : /\ disk'[b] = disk[b]
                               /\ m_promisedID'[b] = m_promisedID[b]
                               /\ m_acceptedID'[b] = m_acceptedID[b]
      /\ disk'[a] = saved
      /\ m_promisedID'[a] = saved.promisedID
      /\ m_acceptedID'[a] = saved.acceptedID
  BY <1>1, <1>2, <1>4 DEF AcceptorTypeOK
<1>8. saved.promisedID \in ProposalIDs /\ saved.acceptedID \in ProposalIDs
  BY <1>3 DEF Saved
<1>9. DiskIsBehind'
  BY <1>2, <1>3, <1>7, <1>8, GeqReflexive DEF DiskIsBehind
<1>10. HandledInv'
  <2>1. HandledInv
    BY DEF DurableInv, DiskInv
  <2>2. ASSUME NEW b \in Node
        PROVE  /\ WasHandled(b, m_promisedID[b], m_acceptedID[b])'
               /\ WasHandled(b, disk[b].promisedID, disk[b].acceptedID)'
    <3>1. CASE b = a
      BY <1>1, <1>3, <1>7, <3>1 DEF WasHandled
    <3>2. CASE b # a
      <4>1. /\ WasHandled(b, m_promisedID[b], m_acceptedID[b])
            /\ WasHandled(b, disk[b].promisedID, disk[b].acceptedID)
        BY <2>1 DEF HandledInv
      <4>2. /\ disk'[b] = disk[b] /\ handled' = handled
            /\ m_promisedID'[b] = m_promisedID[b]
            /\ m_acceptedID'[b] = m_acceptedID[b]
        BY <1>1, <1>7, <3>2
      <4> QED BY <4>1, <4>2 DEF WasHandled
    <3> QED BY <3>1, <3>2
  <2> QED BY <1>1, <2>1, <2>2 DEF HandledInv, Sent
<1>11. AnswersAreDurable'
  <2>1. ASSUME NEW m \in msgs, m.cmd \in {"promise", "permit"}, m.from = a
        PROVE  /\ m.cmd = "promise" => Geq(saved.promisedID, m.id)
               /\ m.cmd = "permit" => Geq(saved.acceptedID, m.id)
    <3>1. m.id \in ProposalIDs
      BY MessageFields DEF DurableInv
    <3>2. /\ m.cmd = "promise" => Geq(disk[a].promisedID, m.id)
          /\ m.cmd = "permit" => Geq(disk[a].acceptedID, m.id)
      BY <2>1 DEF DurableInv, DiskInv, AnswersAreDurable, Sent
    <3> QED BY <1>3, <1>8, <3>1, <3>2, DiskTypes, GeqTransitive DEF DurableInv
  <2>2. \A m \in msgs : m.from \in Node
    BY MessageFields DEF DurableInv
  <2> QED BY <1>1, <1>7, <2>1, <2>2 DEF DurableInv, DiskInv, AnswersAreDurable, Sent
<1>12. DiskGap'
  <2>1. \A p \in Sent("promise") : p.from \in Node
    BY SentFields DEF DurableInv
  <2> QED BY <1>1, <1>3, <1>7, <2>1 DEF DurableInv, DiskInv, DiskGap, Agrees, Sent
<1>13. PromisesReportLastVote'
  BY <1>1 DEF DurableInv, DiskInv, PromisesReportLastVote, Sent
<1> QED BY <1>1, <1>5, <1>6, <1>9, <1>10, <1>11, <1>12, <1>13
        DEF DurableInv, DiskInv, AcceptorInv, HandledOK

-----------------------------------------------------------------------------
LEMMA InitDurable == Init => DurableInv
<1> SUFFICES ASSUME Init PROVE DurableInv
  OBVIOUS
<1>1. AcceptorInv /\ HandledOK
  BY AcceptorInitInv DEF Init, HandledOK
<1>2. DiskIsBehind
  BY RoleFacts, GeqReflexive DEF Init, AcceptorInit, NothingSaved, DiskIsBehind
<1>3. HandledInv
  BY RoleFacts DEF Init, AcceptorInit, NothingSaved, HandledInv, WasHandled, Sent
<1>4. AnswersAreDurable /\ DiskGap /\ PromisesReportLastVote
  BY DEF Init, AnswersAreDurable, DiskGap, PromisesReportLastVote, Sent
<1> QED BY <1>1, <1>2, <1>3, <1>4 DEF Init, DurableInv, DiskInv

LEMMA NextDurable ==
  ASSUME Once
  PROVE  DurableInv /\ [NextWithRestarts]_vars => DurableInv'
<1> SUFFICES ASSUME DurableInv, [NextWithRestarts]_vars PROVE DurableInv'
  OBVIOUS
<1>1. CASE UNCHANGED vars
  <2>1. AcceptorInv'
    BY <1>1, SameFieldsKeepAcceptorInv DEF vars, DurableInv
  <2>2. DiskInv'
    BY <1>1, RefusalsKeepDiskInv DEF vars, acceptorVars, DurableInv
  <2> QED BY <1>1, <2>1, <2>2 DEF vars, DurableInv, HandledOK
<1>2. ASSUME NEW a \in Acceptors, OwnerActs(a)
      PROVE  DurableInv'
  <2>1. CASE Persist(a)
    BY <1>2, <2>1, Requests, PersistKeepsDurable DEF OwnerActs
  <2>2. CASE \E active \in BOOLEAN \ {acceptorActive[a]} : setActive(a, active)
    <3>1. AcceptorInv'
      BY <2>2, Requests, SetActiveKeeps DEF DurableInv
    <3>2. UNCHANGED <<m_promisedID, m_acceptedID, disk, msgs, handled>>
      BY <1>2, <2>2 DEF OwnerActs, setActive
    <3>3. DiskInv'
      BY <3>2, RefusalsKeepDiskInv DEF DurableInv
    <3> QED BY <3>1, <3>2, <3>3 DEF DurableInv, HandledOK
  <2> QED BY <1>2, <2>1, <2>2 DEF OwnerActs
<1>3. ASSUME Next PROVE DurableInv'
  BY <1>2, <1>3, PrepareArrivesKeepsDurable, AcceptArrivesKeepsDurable DEF Next
<1> QED BY <1>1, <1>3, Requests, RestartKeepsDurable DEF NextWithRestarts

(***************************************************************************)
(* With requests that arrive once, nothing is promised or permitted to     *)
(* anyone before it is on disk, wherever processes restart: also between   *)
(* the save and the call of persisted().                                   *)
(***************************************************************************)
THEOREM AnswersSurviveRestarts ==
  ASSUME Once
  PROVE  SpecWithRestarts => []AnswersAreDurable
<1>1. DurableInv => AnswersAreDurable
  BY DEF DurableInv, DiskInv
<1> QED BY <1>1, InitDurable, NextDurable, PTL DEF SpecWithRestarts

(***************************************************************************)
(* Nor does a restart make a promise's report untrue: the new process      *)
(* never votes strictly between what the old one reported and promised.    *)
(***************************************************************************)
THEOREM ReportsSurviveRestarts ==
  ASSUME Once
  PROVE  SpecWithRestarts => []PromisesReportLastVote
<1>1. DurableInv => PromisesReportLastVote
  BY DEF DurableInv, DiskInv
<1> QED BY <1>1, InitDurable, NextDurable, PTL DEF SpecWithRestarts
=============================================================================
