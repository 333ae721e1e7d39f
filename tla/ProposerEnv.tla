---------------------------- MODULE ProposerEnv -----------------------------
(***************************************************************************)
(* Proposers under the calls their owner may make and the answers that     *)
(* acceptors may give.  An answer is to a request that was sent to that    *)
(* acceptor, and may arrive any number of times.  An acceptor may report   *)
(* a vote of others below the identifier it promises, and what the         *)
(* proposer itself has asked it to accept, in this round or an earlier     *)
(* one.  Its promises for one identifier report the same vote, except that *)
(* a later one may report its vote for that very identifier.               *)
(*                                                                         *)
(* The owner is the embedding program.  Whether it is Careful is a         *)
(* parameter.  If it is, it repeats a prepare request (prepare(false)),    *)
(* and lets the proposer send accept requests by setProposal or            *)
(* resendAccept, only while the proposer's identifier is the one it last   *)
(* prepared; and it repeats a prepare request only to the acceptors that   *)
(* have had it, or to a first choice of acceptors.                         *)
(***************************************************************************)
EXTENDS Proposer

CONSTANTS Proposers,     \* the nodes whose proposer is observed
          PeersAtStart,  \* the peers each of them knows to begin with
          MaxNumber,     \* bound on the numbers of identifiers
          Careful

ASSUME EnvAssumption ==
  /\ Proposers \subseteq Node
  /\ PeersAtStart \subseteq Node
  /\ MaxNumber \in Nat
  /\ Careful \in BOOLEAN

VARIABLES prepared,   \* prepared[p]: the identifier last passed to sendPrepare
          heard       \* the promises delivered, of each acceptor and
                      \* identifier the first

vars == <<proposerVars, msgs, prepared, heard>>

OtherIDs(p) == [number : 1..MaxNumber, uid : Node \ {p}]

\* The owner may let p send a request for its present identifier.
MaySend(p) == Careful => m_proposalID[p] = prepared[p]

StartsRound(p) ==
  /\ m_proposalID[p].number < MaxNumber
  /\ prepareNext(p)
  /\ prepared' = [prepared EXCEPT ![p] = m_proposalID'[p]]
  /\ UNCHANGED heard

RepeatsRequest(p) ==
  /\ MaySend(p)
  /\ Careful => m_majorityAcceptors[p] \in {{}, SelectMajorityAcceptors(p)}
  /\ prepareAgain(p)
  /\ prepared' = [prepared EXCEPT ![p] = m_proposalID[p]]
  /\ UNCHANGED heard

\* A value given to a proposer that is no leader is only remembered.
Proposes(p) ==
  /\ \/ \E value \in Value : (m_leader[p] => MaySend(p)) /\ setProposal(p, value)
     \/ MaySend(p) /\ resendAccept(p)
  /\ UNCHANGED <<prepared, heard>>

\* The owner takes the lead away, suspends the proposer or resumes it.
OwnerActs(p) ==
  /\ \/ m_leader[p] /\ setLeader(p, FALSE)
     \/ \E active \in BOOLEAN \ {proposerActive[p]} : setProposerActive(p, active)
  /\ UNCHANGED <<prepared, heard>>

PeersJoin(p) ==
  /\ \E sender \in Node \ {p}, peers \in SUBSET Node :
       HandlePingMessage(p, sender, peers)
  /\ UNCHANGED <<prepared, heard>>

\* The votes of others an acceptor may report in a promise for id.
Reports(p, id) ==
  {<<NullID, NoValue>>} \cup ({i \in OtherIDs(p) : Gt(id, i)} \X Value)

\* The votes that a may have cast at p's request, up to id.
OwnVotes(p, a, id) ==
  {<<m.id, m.value>> : m \in {r \in Sent("accept") : /\ r.from = p /\ Geq(id, r.id)
                                                     /\ a \in r.acceptors}}

PromiseArrives(p) ==
  \E request \in Sent("prepare") : \E a \in request.acceptors :
    \E report \in Reports(p, request.id) \cup OwnVotes(p, a, request.id) :
      LET promise == Promise(a, p, request.id, report[1], report[2])
          before == {h \in heard : /\ h.from = a /\ h.to = p
                                   /\ h.id = request.id}
      IN  /\ request.from = p
          /\ before = {} \/ promise \in before \/ report[1] = request.id
          /\ heard' = IF before = {} THEN heard \cup {promise} ELSE heard
          /\ receivePromise(p, a, promise.id, promise.acceptID, promise.acceptValue)
          /\ UNCHANGED prepared

\* persisted() may answer p's request with a promise made to another node.
StrayPromiseArrives(p) ==
  \E request \in Sent("prepare"), id \in OtherIDs(p) : \E a \in request.acceptors :
      /\ request.from = p
      /\ Gt(id, request.id)
      /\ receivePromise(p, a, id, NullID, NoValue)
      /\ UNCHANGED <<prepared, heard>>

NACKArrives(p) ==
  /\ \E promisedID \in OtherIDs(p) :
       \/ \E request \in Sent("prepare") : /\ request.from = p
                                           /\ Gt(promisedID, request.id)
                                           /\ receivePrepareNACK(p, promisedID)
       \/ \E request \in Sent("accept") : /\ request.from = p
                                          /\ Gt(promisedID, request.id)
                                          /\ receiveAcceptNACK(p, promisedID)
  /\ UNCHANGED <<prepared, heard>>

Init ==
  /\ ProposerInit([p \in Node |-> PeersAtStart \ {p}])
  /\ msgs = {}
  /\ prepared = [p \in Node |-> NullID]
  /\ heard = {}

Next == \E p \in Proposers :
          \/ StartsRound(p)
          \/ RepeatsRequest(p)
          \/ Proposes(p)
          \/ OwnerActs(p)
          \/ PeersJoin(p)
          \/ PromiseArrives(p)
          \/ StrayPromiseArrives(p)
          \/ NACKArrives(p)

Spec == Init /\ [][Next]_vars

-----------------------------------------------------------------------------
TypeOK ==
  /\ ProposerTypeOK
  /\ msgs \subseteq Message
  /\ prepared \in [Node -> ProposalIDs]
  /\ heard \subseteq Message

Voters(p, id) == {m.from : m \in {h \in heard : h.to = p /\ h.id = id}}

(***************************************************************************)
(* An accept request for id is sent only after a quorum has promised id    *)
(* (comment in Proposer::setProposal: "only the leader can issue accept    *)
(* requests, because leader means that the prepare request has been        *)
(* approved by a majority of acceptors").  The promises counted, the       *)
(* leader flag and the identifier are updated by different calls, and the  *)
(* identifier also by answers from others.                                 *)
(***************************************************************************)
AcceptHasQuorum ==
  \A m \in Sent("accept") : Cardinality(Voters(m.from, m.id)) >= QuorumSize

(***************************************************************************)
(* A proposal identifier stands for one proposal (proposalid.h: it "is     *)
(* globally unique"): no two accept requests pair it with different values.*)
(***************************************************************************)
OneValuePerID ==
  \A m, n \in Sent("accept") : m.id = n.id => m.value = n.value

(***************************************************************************)
(* The rule that makes a new round respect the old ones: if any acceptor   *)
(* of the quorum reported a vote, the value sent is one that some acceptor *)
(* reported with a vote at least as high as all of theirs.  The proposer   *)
(* keeps m_lastAcceptedID and the value across rounds, so the report it    *)
(* follows may come from an earlier round.                                 *)
(***************************************************************************)
ValueFollowsHighestReport ==
  \A m \in Sent("accept") :
    LET reports == {h \in heard : h.to = m.from /\ h.id = m.id} IN
    (\E h \in reports : isValid(h.acceptID))
      => \E best \in heard : /\ best.to = m.from
                             /\ best.acceptValue = m.value
                             /\ \A h \in reports : Geq(best.acceptID, h.acceptID)
=============================================================================
