---------------------------- MODULE PaxosNodeEnv ----------------------------
(***************************************************************************)
(* Nodes under the calls of their owner, the timers of the event loop, and *)
(* what others may send them: heartbeats of other leaders and prepare      *)
(* requests at any time, answers to the requests the node has sent.  Every *)
(* message may be late, repeated or lost.  The owner may make its calls at *)
(* any time, prepare(false) under an identifier that answers have raised   *)
(* since the last request included; setLeaderProposalID it does not call.  *)
(*                                                                         *)
(* A promise may report any vote of others below its identifier, and what  *)
(* the node itself has asked that acceptor to accept up to it: only the    *)
(* first promise of an acceptor counts, so later ones need not agree.      *)
(*                                                                         *)
(* round, promised and refused are history variables: no action depends on *)
(* them.  Answers raise the number of an identifier within a round, so a   *)
(* round may have several identifiers.                                     *)
(***************************************************************************)
EXTENDS PaxosNode

CONSTANTS Observers,    \* the nodes observed
          ForeignIDs,   \* the identifiers of others that the node sees
          PrepareIDs,   \* those that others ask the node to promise
          MaxNumber,    \* bound on the numbers of a node's identifiers
          MaxRestarts   \* bound of the model

ASSUME EnvAssumption ==
  /\ Observers \subseteq Node
  /\ PrepareIDs \subseteq ForeignIDs
  /\ ForeignIDs \subseteq {id \in ValidIDs : id.uid \notin Observers}
  /\ MaxNumber \in Nat /\ MaxRestarts \in Nat

VARIABLES round,      \* round[n]: the number n began its last round with, by
                      \* prepare(true); 0 before the first one
          promised,   \* promised[n]: the acceptors that have promised n an
                      \* identifier of that round
          refused,    \* refused[n]: those that have refused an accept request
                      \* of that round
          restarts    \* how often processes have restarted

historyVars == <<round, promised, refused, restarts>>

vars == <<acceptorVars, proposerVars, nodeVars, msgs, historyVars>>

Requests(n, cmd) == {m \in Sent(cmd) : m.from = n}

RoomForRound(id) == id.number < MaxNumber

\* n has begun the round of the identifier that it has from now on.
RoundBegun(n) ==
  /\ round' = [round EXCEPT ![n] = m_proposalID'[n].number]
  /\ promised' = [promised EXCEPT ![n] = {}]
  /\ refused' = [refused EXCEPT ![n] = {}]
  /\ UNCHANGED restarts

\* The answers of the present round, once a has answered a request for id.
WithAnswer(answers, n, a, id) ==
  IF id.number >= round[n] THEN [answers EXCEPT ![n] = @ \cup {a}] ELSE answers

OwnerPrepares(n) ==
  /\ RoomForRound(m_proposalID[n])
  /\ prepare(n) \/ (~leaderAlive[n] /\ acquireLeadership(n)) \/ pollLiveness(n)
  /\ RoundBegun(n)

OwnerActs(n) ==
  /\ \/ repeatPrepare(n)
     \/ leaderAlive[n] /\ acquireLeadership(n)
     \/ pulse(n)
     \/ setNodeActive(n, ~acceptorActive[n])
  /\ UNCHANGED historyVars

TimePasses(n) ==
  /\ LeaderTimesOut(n) \/ PrepareWindowCloses(n)
  /\ UNCHANGED historyVars

PulseTimer(n) == pulseOfCopy(n) /\ UNCHANGED historyVars

HeartbeatArrives(n) ==
  /\ \E id \in ForeignIDs : receiveHeartbeat(n, id.uid, id)
  /\ UNCHANGED historyVars

PrepareArrives(n) ==
  /\ \E id \in PrepareIDs : receiveNodePrepare(n, id.uid, id)
  /\ UNCHANGED historyVars

\* The votes acceptor a may report to n in a promise for id: of others, and of
\* n itself, in this round or an earlier one.
Reports(n, a, id) ==
  {<<NullID, NoValue>>} \cup ({i \in ForeignIDs : Gt(id, i)} \X Value)
    \cup {<<m.id, m.value>> : m \in {r \in Requests(n, "accept") :
                                       a \in r.acceptors /\ Geq(id, r.id)}}

PromiseArrives(n) ==
  \E request \in Requests(n, "prepare") : \E a \in request.acceptors :
    \E report \in Reports(n, a, request.id) :
      /\ receiveNodePromise(n, a, request.id, report[1], report[2])
      /\ promised' = WithAnswer(promised, n, a, request.id)
      /\ UNCHANGED <<round, refused, restarts>>

\* The identifiers of others above one that n has asked to promise.
Higher(n) ==
  {id \in ForeignIDs : \E request \in Requests(n, "prepare") : Gt(id, request.id)}

Asked(n) == UNION {request.acceptors : request \in Requests(n, "prepare")}

\* persisted() may answer n's request with a promise made to another node.
StrayPromiseArrives(n) ==
  /\ \E id \in Higher(n), a \in Asked(n) : receiveNodePromise(n, a, id, NullID, NoValue)
  /\ UNCHANGED historyVars

\* A node that acquires the leadership answers a refusal with a new round.
PrepareNACKArrives(n) ==
  /\ \E promisedID \in Higher(n) :
       /\ m_acquiringLeadership[n] => RoomForRound(Observed(n, promisedID))
       /\ receiveNodePrepareNACK(n, promisedID)
  /\ IF m_acquiringLeadership[n] THEN RoundBegun(n) ELSE UNCHANGED historyVars

AcceptNACKArrives(n) ==
  \E request \in Requests(n, "accept"), promisedID \in ForeignIDs :
    \E a \in request.acceptors :
      /\ Gt(promisedID, request.id)
      /\ receiveNodeAcceptNACK(n, a, request.id, promisedID)
      /\ refused' = WithAnswer(refused, n, a, request.id)
      /\ UNCHANGED <<round, promised, restarts>>

\* Nobody is known at the start; a ping tells n of all others.
PingArrives(n) ==
  /\ m_peers[n] = {}
  /\ \E m \in Node \ {n} : HandlePingMessage(n, m, Node)
  /\ UNCHANGED <<acceptorVars, nodeVars, historyVars>>

RestartNode(n) ==
  /\ restarts < MaxRestarts
  /\ restarts' = restarts + 1
  /\ RestartPaxosNode(n)
  /\ UNCHANGED <<round, promised, refused>>

Init ==
  /\ NodeInit([n \in Node |-> {}])
  /\ msgs = {}
  /\ round = [n \in Node |-> 0]
  /\ promised = [n \in Node |-> {}]
  /\ refused = [n \in Node |-> {}]
  /\ restarts = 0

Next == \E n \in Observers :
          \/ OwnerPrepares(n)
          \/ OwnerActs(n)
          \/ TimePasses(n)
          \/ PulseTimer(n)
          \/ HeartbeatArrives(n)
          \/ PrepareArrives(n)
          \/ PromiseArrives(n)
          \/ StrayPromiseArrives(n)
          \/ PrepareNACKArrives(n)
          \/ AcceptNACKArrives(n)
          \/ PingArrives(n)

\* The event loop runs the heartbeat timer again and again.  Nobody else in the
\* program calls pulse.
Fairness == \A n \in Observers : WF_vars(PulseTimer(n))

Spec == Init /\ [][Next]_vars /\ Fairness

SpecWithRestarts ==
  Init /\ [][Next \/ \E n \in Observers : RestartNode(n)]_vars /\ Fairness

-----------------------------------------------------------------------------
(***************************************************************************)
(* Type correctness; an identifier keeps the UID of its owner; and a node  *)
(* knows the UID and the identifier of its leader, or neither.             *)
(***************************************************************************)
TypeOK ==
  /\ AcceptorTypeOK
  /\ ProposerTypeOK
  /\ NodeTypeOK
  /\ msgs \subseteq Message
  /\ round \in [Node -> Nat]
  /\ promised \in [Node -> SUBSET Node]
  /\ refused \in [Node -> SUBSET Node]
  /\ restarts \in 0..MaxRestarts
  /\ \A n \in Node : /\ m_proposalID[n].uid = n
                     /\ m_leaderUID[n] = NoUID <=> m_leaderProposalID[n] = NullID

(***************************************************************************)
(* Who announces itself was elected: when a node first sends a heartbeat   *)
(* with an identifier of its present round, a quorum has promised it       *)
(* identifiers of this round, not of an earlier one.  (Comment in          *)
(* Proposer::setProposal: leader means that a majority has approved the    *)
(* prepare request.)  They need not have promised the same identifier:     *)
(* what others answer raises the number under the promises counted, and    *)
(* prepare(false) then asks for the raised one.  The leader flag, which    *)
(* the constructor does not set, may happen to be set at the start, and    *)
(* makes the node and the timer's copy announce themselves before the      *)
(* first round.                                                            *)
(***************************************************************************)
AnnouncesIfElected ==
  [][\A n \in Observers : \A id \in heartbeats'[n] \ heartbeats[n] :
       id.number >= round'[n] => \/ copyLeads[n] /\ round'[n] = 0
                                \/ Cardinality(promised'[n]) >= QuorumSize]_vars

(***************************************************************************)
(* Refusals are counted towards deposing the leader within one round: all  *)
(* acceptors in m_acceptNACKs have refused an accept request of the        *)
(* present round, though refusals arrive late, twice, and after others     *)
(* that changed the identifier they are compared with.                     *)
(***************************************************************************)
RefusalsOfOneRound == \A n \in Observers : m_acceptNACKs[n] \subseteq refused[n]

(***************************************************************************)
(* A node never goes back to a leader of a lower identifier, except when   *)
(* a quorum of refusals, while it is leader itself, has made it forget     *)
(* whom it followed.                                                       *)
(***************************************************************************)
LeaderNeverRegresses ==
  [][\A n \in Observers :
       \/ Geq(m_leaderProposalID'[n], m_leaderProposalID[n])
       \/ /\ m_leader[n] /\ ~m_leader'[n]
          /\ m_leaderUID'[n] = NoUID /\ m_leaderProposalID'[n] = NullID
          /\ Cardinality(m_acceptNACKs'[n]) >= QuorumSize]_vars

(***************************************************************************)
(* A leader makes itself known (comment on PaxosNode::pulse: heartbeats    *)
(* are sent "in order to elect the leadership of the cluster"): a node     *)
(* that stays leader sends a heartbeat with the identifier it has then.    *)
(* The timer does not see to it: its copy is not the node that was elected.*)
(***************************************************************************)
LeaderIsAnnounced ==
  \A n \in Observers :
    m_leader[n] ~> (~m_leader[n] \/ m_proposalID[n] \in heartbeats[n])
=============================================================================
