------------------------------ MODULE Acceptor ------------------------------
(***************************************************************************)
(* The Acceptor class (paxos/acceptor.h, paxos/acceptor.cpp), one instance *)
(* per node.  Variables carry the names of the class's fields; m_active,   *)
(* which all three roles have, is acceptorActive here.  The time of the    *)
(* last prepare request, read only by PaxosNode's election timer, is not   *)
(* part of this module.                                                    *)
(*                                                                         *)
(* The class never touches stable storage.  Its owner is told by           *)
(* persistenceRequired() that there is something to save, saves the three  *)
(* getters' values, and calls persisted(); after a restart it hands them   *)
(* to recover().  disk[a] is what the owner has saved.                     *)
(***************************************************************************)
EXTENDS Messenger

VARIABLES m_promisedID, m_acceptedID, m_acceptedValue,
          m_pendingPromiseUID, m_pendingAcceptUID, acceptorActive, disk

acceptorVars == <<m_promisedID, m_acceptedID, m_acceptedValue,
                  m_pendingPromiseUID, m_pendingAcceptUID, acceptorActive, disk>>

Saved == [promisedID : ProposalIDs, acceptedID : ProposalIDs,
          acceptedValue : Value \cup {NoValue}]

NothingSaved ==
  [promisedID |-> NullID, acceptedID |-> NullID, acceptedValue |-> NoValue]

AcceptorTypeOK ==
  /\ m_promisedID \in [Node -> ProposalIDs]
  /\ m_acceptedID \in [Node -> ProposalIDs]
  /\ m_acceptedValue \in [Node -> Value \cup {NoValue}]
  /\ m_pendingPromiseUID \in [Node -> Node \cup {NoUID}]
  /\ m_pendingAcceptUID \in [Node -> Node \cup {NoUID}]
  /\ acceptorActive \in [Node -> BOOLEAN]
  /\ disk \in [Node -> Saved]

AcceptorInit ==
  /\ m_promisedID = [a \in Node |-> NullID]
  /\ m_acceptedID = [a \in Node |-> NullID]
  /\ m_acceptedValue = [a \in Node |-> NoValue]
  /\ m_pendingPromiseUID = [a \in Node |-> NoUID]
  /\ m_pendingAcceptUID = [a \in Node |-> NoUID]
  /\ acceptorActive \in [Node -> ActiveAtStart]
  /\ disk = [a \in Node |-> NothingSaved]

\* Every answer is behind a test of m_active.
SendIfActive(a, M) == Send(IF acceptorActive[a] THEN M ELSE {})

-----------------------------------------------------------------------------
(***************************************************************************)
(* receivePrepare.  The branches: the identifier already promised is       *)
(* promised again at once; a higher one is recorded, and answered when it  *)
(* has been persisted, unless an earlier promise is still waiting for      *)
(* that, in which case the request is dropped; a lower one is refused.     *)
(***************************************************************************)
PromiseAgain(a, from, id) ==
  /\ isValid(m_promisedID[a])
  /\ id = m_promisedID[a]
  /\ SendIfActive(a, {Promise(a, from, id, m_acceptedID[a], m_acceptedValue[a])})
  /\ UNCHANGED acceptorVars

\* Mutant of Outbids: any other identifier is taken for a higher one.
OutbidsIfDifferent(id, current) == ~isValid(current) \/ id # current

Outbids(id, current) == ~isValid(current) \/ Gt(id, current)

\* Mutant of RecordPromise: the promise is sent without waiting for persisted().
RecordPromiseAndSend(a, from, id) ==
  /\ Outbids(id, m_promisedID[a])
  /\ m_pendingPromiseUID[a] = NoUID
  /\ m_promisedID' = [m_promisedID EXCEPT ![a] = id]
  /\ SendIfActive(a, {Promise(a, from, id, m_acceptedID[a], m_acceptedValue[a])})
  /\ UNCHANGED <<m_acceptedID, m_acceptedValue, m_pendingPromiseUID,
                 m_pendingAcceptUID, acceptorActive, disk>>

RecordPromise(a, from, id) ==
  /\ Outbids(id, m_promisedID[a])
  /\ m_pendingPromiseUID[a] = NoUID
  /\ m_promisedID' = [m_promisedID EXCEPT ![a] = id]
  /\ m_pendingPromiseUID' = IF acceptorActive[a]
                            THEN [m_pendingPromiseUID EXCEPT ![a] = from]
                            ELSE m_pendingPromiseUID
  /\ UNCHANGED <<m_acceptedID, m_acceptedValue, m_pendingAcceptUID,
                 acceptorActive, disk, msgs>>

DropPrepare(a, id) ==
  /\ Outbids(id, m_promisedID[a])
  /\ m_pendingPromiseUID[a] # NoUID
  /\ UNCHANGED <<acceptorVars, msgs>>

RefusePrepare(a, from, id) ==
  /\ isValid(m_promisedID[a])
  /\ Gt(m_promisedID[a], id)
  /\ SendIfActive(a, {PrepareNACK(a, from, id, m_promisedID[a])})
  /\ UNCHANGED acceptorVars

receivePrepare(a, from, id) ==
  \/ PromiseAgain(a, from, id)
  \/ RecordPromise(a, from, id)
  \/ DropPrepare(a, id)
  \/ RefusePrepare(a, from, id)

-----------------------------------------------------------------------------
(***************************************************************************)
(* receiveAcceptRequest.  Its first test precedes the comparison with the  *)
(* promise: a proposal accepted before is permitted again even when a      *)
(* higher identifier has been promised since.                              *)
(***************************************************************************)
AlreadyAccepted(a, id, value) ==
  /\ isValid(m_acceptedID[a])
  /\ id = m_acceptedID[a]
  /\ value = m_acceptedValue[a]

PermitAgain(a, from, id, value) ==
  /\ AlreadyAccepted(a, id, value)
  /\ SendIfActive(a, {Permit(a, from, id, value)})
  /\ UNCHANGED acceptorVars

\* Mutant of MayAccept: compares with the last vote instead of the promise.
MayAcceptAfterVote(a, id) == ~isValid(m_acceptedID[a]) \/ Geq(id, m_acceptedID[a])

MayAccept(a, id) == ~isValid(m_promisedID[a]) \/ Geq(id, m_promisedID[a])

RecordAccept(a, from, id, value) ==
  /\ ~AlreadyAccepted(a, id, value)
  /\ MayAccept(a, id)
  /\ m_pendingAcceptUID[a] = NoUID
  /\ m_promisedID' = [m_promisedID EXCEPT ![a] = id]
  /\ m_acceptedID' = [m_acceptedID EXCEPT ![a] = id]
  /\ m_acceptedValue' = [m_acceptedValue EXCEPT ![a] = value]
  /\ m_pendingAcceptUID' = IF acceptorActive[a]
                           THEN [m_pendingAcceptUID EXCEPT ![a] = from]
                           ELSE m_pendingAcceptUID
  /\ UNCHANGED <<m_pendingPromiseUID, acceptorActive, disk, msgs>>

DropAccept(a, id, value) ==
  /\ ~AlreadyAccepted(a, id, value)
  /\ MayAccept(a, id)
  /\ m_pendingAcceptUID[a] # NoUID
  /\ UNCHANGED <<acceptorVars, msgs>>

RefuseAccept(a, from, id, value) ==
  /\ ~AlreadyAccepted(a, id, value)
  /\ ~MayAccept(a, id)
  /\ SendIfActive(a, {AcceptNACK(a, from, id, m_promisedID[a])})
  /\ UNCHANGED acceptorVars

receiveAcceptRequest(a, from, id, value) ==
  \/ PermitAgain(a, from, id, value)
  \/ RecordAccept(a, from, id, value)
  \/ DropAccept(a, id, value)
  \/ RefuseAccept(a, from, id, value)

-----------------------------------------------------------------------------
persistenceRequired(a) ==
  m_pendingAcceptUID[a] # NoUID \/ m_pendingPromiseUID[a] # NoUID

\* What the getters return, which is what the owner saves.
ToSave(a) == [promisedID |-> m_promisedID[a], acceptedID |-> m_acceptedID[a],
              acceptedValue |-> m_acceptedValue[a]]

\* Mutant of PendingAnswers: a promise is sent whichever answer was pending.
AllAnswers(a) ==
       {Promise(a, m_pendingPromiseUID[a], m_promisedID[a], m_acceptedID[a],
                m_acceptedValue[a])}
  \cup {Permit(a, p, m_acceptedID[a], m_acceptedValue[a])
          : p \in {m_pendingAcceptUID[a]} \ {NoUID}}

\* The answers that waited for stable storage, with the identifiers of now.
PendingAnswers(a) ==
       {Promise(a, p, m_promisedID[a], m_acceptedID[a], m_acceptedValue[a])
          : p \in {m_pendingPromiseUID[a]} \ {NoUID}}
  \cup {Permit(a, p, m_acceptedID[a], m_acceptedValue[a])
          : p \in {m_pendingAcceptUID[a]} \ {NoUID}}

persisted(a) ==
  /\ SendIfActive(a, PendingAnswers(a))
  /\ m_pendingPromiseUID' = [m_pendingPromiseUID EXCEPT ![a] = NoUID]
  /\ m_pendingAcceptUID' = [m_pendingAcceptUID EXCEPT ![a] = NoUID]
  /\ UNCHANGED <<m_promisedID, m_acceptedID, m_acceptedValue, acceptorActive>>

\* The owner's part: save, then report it.
Persist(a) ==
  /\ persistenceRequired(a)
  /\ disk' = [disk EXCEPT ![a] = ToSave(a)]
  /\ persisted(a)

setActive(a, active) ==
  /\ acceptorActive' = [acceptorActive EXCEPT ![a] = active]
  /\ UNCHANGED <<m_promisedID, m_acceptedID, m_acceptedValue,
                 m_pendingPromiseUID, m_pendingAcceptUID, disk, msgs>>

\* Mutant of recover: the promise is not restored beyond the last vote.
recoverVoteOnly(a, saved) ==
  /\ m_promisedID' = [m_promisedID EXCEPT ![a] = saved.acceptedID]
  /\ m_acceptedID' = [m_acceptedID EXCEPT ![a] = saved.acceptedID]
  /\ m_acceptedValue' = [m_acceptedValue EXCEPT ![a] = saved.acceptedValue]

recover(a, saved) ==
  /\ m_promisedID' = [m_promisedID EXCEPT ![a] = saved.promisedID]
  /\ m_acceptedID' = [m_acceptedID EXCEPT ![a] = saved.acceptedID]
  /\ m_acceptedValue' = [m_acceptedValue EXCEPT ![a] = saved.acceptedValue]

(***************************************************************************)
(* The process dies and a new one starts: a new Acceptor, then recover     *)
(* with what is on disk.  It may die between the write to disk and the     *)
(* call of persisted().                                                    *)
(***************************************************************************)
Restart(a) ==
  \E saved \in {disk[a]} \cup (IF persistenceRequired(a) THEN {ToSave(a)} ELSE {}) :
    \E active \in ActiveAtStart :
      /\ recover(a, saved)
      /\ disk' = [disk EXCEPT ![a] = saved]
      /\ m_pendingPromiseUID' = [m_pendingPromiseUID EXCEPT ![a] = NoUID]
      /\ m_pendingAcceptUID' = [m_pendingAcceptUID EXCEPT ![a] = NoUID]
      /\ acceptorActive' = [acceptorActive EXCEPT ![a] = active]
      /\ UNCHANGED msgs
=============================================================================
