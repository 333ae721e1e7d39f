----------------------------- MODULE Messenger ------------------------------
(***************************************************************************)
(* The messages of the protocol (paxos/proto.h) and the interface through  *)
(* which the roles send them (paxos/messenger.h), as Server implements it. *)
(*                                                                         *)
(* msgs is the set of all messages ever sent.  A message that is in msgs   *)
(* may be handed to its receiver now, later, twice or never: delivery over *)
(* the UDP sockets the program can be started with loses, duplicates and   *)
(* reorders, and even over TCP the first message to a peer without an open *)
(* connection only opens that connection (Server::SendMessageToPeer).      *)
(* A request to several acceptors is one record that names them all.       *)
(***************************************************************************)
EXTENDS ProposalID, FiniteSets

CONSTANTS Value,         \* the non-empty strings that are proposed
          NoValue,       \* the empty string
          QuorumSize,    \* given to every role when the node is started
          ActiveAtStart  \* the values that m_active, which every role has
                         \* and no constructor sets, may start with

ASSUME ValueAssumption == NoValue \notin Value

ASSUME QuorumAssumption == QuorumSize \in Nat \ {0}

ASSUME FiniteAssumption == IsFiniteSet(Node)

ASSUME ActiveAtStartAssumption ==
  ActiveAtStart \subseteq BOOLEAN /\ ActiveAtStart # {}

VARIABLE msgs

Message ==
       [cmd : {"prepare"}, from : Node, acceptors : SUBSET Node, id : ValidIDs]
  \cup [cmd : {"promise"}, from : Node, to : Node, id : ValidIDs,
        acceptID : ProposalIDs, acceptValue : Value \cup {NoValue}]
  \cup [cmd : {"accept"}, from : Node, acceptors : SUBSET Node, id : ValidIDs,
        value : Value]
  \cup [cmd : {"permit"}, from : Node, to : Node, id : ValidIDs,
        value : Value]
  \cup [cmd : {"prepareNACK", "acceptNACK"}, from : Node, to : Node,
        id : ValidIDs, promisedID : ValidIDs]

Sent(cmd) == {m \in msgs : m.cmd = cmd}

Send(M) == msgs' = msgs \cup M

Prepare(p, acceptors, id) ==
  [cmd |-> "prepare", from |-> p, acceptors |-> acceptors, id |-> id]

Promise(a, p, id, acceptID, acceptValue) ==
  [cmd |-> "promise", from |-> a, to |-> p, id |-> id,
   acceptID |-> acceptID, acceptValue |-> acceptValue]

Accept(p, acceptors, id, value) ==
  [cmd |-> "accept", from |-> p, acceptors |-> acceptors, id |-> id,
   value |-> value]

Permit(a, p, id, value) ==
  [cmd |-> "permit", from |-> a, to |-> p, id |-> id, value |-> value]

PrepareNACK(a, p, id, promisedID) ==
  [cmd |-> "prepareNACK", from |-> a, to |-> p, id |-> id,
   promisedID |-> promisedID]

AcceptNACK(a, p, id, promisedID) ==
  [cmd |-> "acceptNACK", from |-> a, to |-> p, id |-> id,
   promisedID |-> promisedID]
=============================================================================
