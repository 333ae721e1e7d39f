# cpppaxos in TLA+

Specifications, model checks and proofs for the Paxos program in `src/`: a
single-decree Paxos node in C++ whose roles (proposer, acceptor, learner) are
event-driven classes, wrapped by `PaxosNode` (leadership by heartbeat) and
`Server` (peers, connections, message encoding, timers). One process runs one
event loop; there are no threads. All concurrency is between nodes, over
messages, and between a role and its owner (who decides when to prepare, to
propose, to save the acceptor's state, to suspend a role).

## 1. Inventory

| Component | State | Operations | Correct when |
|---|---|---|---|
| `ProposalID` (`paxos/proposalid.*`) | number, UID | comparison, increment, `setNumber` | the comparison is a total order; `isValid` means owned by a node |
| `Acceptor` (`paxos/acceptor.*`) | promised and accepted identifier, accepted value, the UIDs whose answers wait for storage, active flag | `receivePrepare`, `receiveAcceptRequest`, `persistenceRequired`, `persisted`, `recover`, `setActive` | what it has told others about its promises and votes stays true |
| `Proposer` (`paxos/proposer.*`) | identifier, value, highest reported vote, promises received, leader and active flags | `prepare`, `setProposal`, `receivePromise`, `receivePrepareNACK`, `receiveAcceptNACK`, `observeProposal`, `resendAccept`, `setLeader`, `setActive` | an accept request has a quorum of promises behind it, one value per identifier, and the value the promises call for |
| `Learner` (`paxos/learner.*`) | per proposal two counts, per acceptor its last vote, the final value | `receiveAccepted` | learns only what a quorum approved; learns it once, for good; learns it at all |
| `Messenger`, messages (`paxos/messenger.h`, `paxos/proto.h`) | - | one send per message kind, notifications | carries an identifier unchanged |
| `Server`: choice of acceptors | known peers, last selection, cursor | `SelectMajorityAcceptors`, `sendPrepare`, `sendAccept` | a request reaches a quorum |
| `Server`: membership | peers, stable peers | ping, pong, `AddPeerInfo`, `updateStablePeers` | the peers of all nodes become the same |
| `Server`: dispatch, connections | socket maps | `HandlePacket`, `HandleMessage`, `HandleClose`, `SendMessageToPeer` | the two maps stay inverse; a message gets through in the end |
| `PaxosNode` (`paxos/paxos_node.*`) | leader UID and identifier, last heartbeat, refusals of accept requests | `pollLiveness`, `receiveHeartbeat`, `pulse`, `acquireLeadership`, and the handlers it wraps | one leader per identifier; a leader that is refused by a quorum steps down |
| Timers (`eztimer.h`), entry (`main.cpp`, `reset.sh`) | - | ping 5 s, pulse 10 s | - |
| `deps` | | sockets, marshalling, logging | outside the repository (a submodule) |

How they interact. `Server` implements `Messenger`, so a role sends by calling
back into `Server`, which picks the addressees and writes to sockets; the
handlers of a node run one at a time. `Acceptor` does not touch storage: its
owner asks `persistenceRequired()`, saves the three getters' values, and calls
`persisted()`, which sends the answers that were held back. `Proposer` and
`Learner` save nothing.

What is hard about it: promises and votes are answered late, with the fields
of that later moment; repeated requests and refusals are answered at once;
the proposer's identifier, its promises and its leader flag are updated by
different calls; a learner's table is updated through an iterator whose target
has just been overwritten; everything may be lost, repeated or reordered, and a
node may restart at any point.

**State of the code.** At this commit `Server::HandleMessage` passes only ping,
pong and heartbeat on: the six protocol messages are decoded and then dropped.
`PaxosNode` does not call `setProposal`, `persisted`, `receiveAcceptRequest` or
`receiveAccepted`, and nobody calls `pollLiveness`. The roles and `PaxosNode`
are therefore modelled through their class interfaces, the missing owner being
a parameter or an environment; results about them say what any program that
drives these classes can rely on. `Server`'s own part (peers, connections, the
heartbeat timer) is modelled as it runs.

## 2. Modules

| Module | Content |
|---|---|
| `ProposalID` | Identifiers. A UID is its rank in the order of strings, 0 the empty one |
| `Messenger` | Message records; `msgs`, the set of everything sent; constants all roles share |
| `Acceptor` | The class: one operator per operation, one disjunct per branch. `disk` is what the owner saved; `Restart` a new process and `recover` |
| `AcceptorEnv` | Any network and any proposers around acceptors; the acceptor's properties |
| `Proposer` | The class, with `Server`'s choice of the acceptors that requests go to, and pings that make peers known |
| `ProposerEnv` | Any owner, and acceptors that answer as acceptors may; the proposer's properties |
| `Learner` | The class, with the aliased iterator and the uninitialised counts |
| `LearnerEnv` | Permits in any order, repeated, with changes of vote; which counts began uninitialised; the learner's properties |
| `Consensus` | What the roles promise together: at most one value chosen, for good |
| `Paxos` | Proposers and acceptors composed over `msgs`; implements `Consensus` |
| `PaxosNode` | The class over `Acceptor` and `Proposer`: who is followed, heartbeats, refusals that depose a leader, the two time-outs, the heartbeat timer as `Server` binds it, restart |
| `PaxosNodeEnv` | Any owner, other leaders and acceptors around a node; which answers were for its present round; the properties of leadership |
| `Roster` | What `Server` promises about the peers it knows |
| `Membership` | `Server`'s pings, stable peer, socket maps and connections, with failures and restarts; implements `Roster` |
| `RoleProofs` | Lemmas about the operations of `Acceptor` and `Proposer`, for the proofs about whatever is built from them |
| `ProposalIDProofs`, `AcceptorProofs`, `ProposerProofs`, `LearnerProofs`, `PaxosProofs`, `PaxosNodeProofs`, `MembershipProofs` | Theorems |
| `MCAcceptor`, `MCProposer`, `MCLearner`, `MCPaxos`, `MCPaxosNode`, `MCMembership` | Instances for TLC |

Correspondence. A variable that is a field of a class has the field's name and
is a function from nodes; `m_active`, a field of all three, is
`acceptorActive` and `proposerActive`. An operator that models a method has the
method's name, its branches are operators named for what they do, and its
calls of `Messenger` add to `msgs`. The time stamps, the log, the notifications
that `Server` implements as empty functions and the learner's `m_value`, which
nothing reads, are left out.

`msgs` only grows. A message in it may be handled now, later, several times or
never: this covers loss, repetition and reordering, including the first message
to a peer, which `SendMessageToPeer` drops after opening the connection. A
request to several acceptors is one record.

Time. `PaxosNode` reads clocks in two comparisons. Each is a flag: `leaderAlive`
is raised by a heartbeat of the leader that is followed, `prepareFresh` by any
prepare request, and a step of its own takes each down at any moment. That
covers every setting of the periods, the deployed one included, where the
time-out is a hundredth of the heartbeat period.

Heartbeats. `heartbeats[n]` is what n has sent; to the node observed, any
heartbeat of another leader may arrive at any time. The timer does not pulse the
node: `Server` binds it to a copy that `std::bind` makes in the constructor, whose
`m_leader` stays what it was then (`copyLeads`) and whose identifier has number 0.
Nothing else in the program calls `pulse`; an owner may (`OwnerActs`).

Answers. A promise reports any vote below its identifier that others may have
asked for, or a vote at the proposer's own request, of the present round or an
earlier one. It may also be one made to another proposer, since `persisted()`
sends it with the fields of that moment (`StrayPromiseArrives`).

What the properties compare with is kept beside the program's state. History
variables, on which no action depends, are `guessed` in `LearnerEnv` (the
identifiers whose counts began uninitialised) and `round`, `promised` and `refused`
in `PaxosNodeEnv` (the number a round began with, and who has promised and refused
in it). `prepared` and `heard` in `ProposerEnv` (the identifier prepared last, the
promises that came) are also what a careful owner, and an acceptor that answers
again, go by.

Connections. `sockets[n]` is what the socket library holds for a process, `up`
whether anyone is at the other end; the two maps of `Server` are separate
variables that its handlers have to keep in step with it. A socket is a
pointer, and a freed one may be used again. A process that is sent a message of
the consensus protocol closes the connection, since `HandleMessage` answers
false. Accepted sockets are in neither map and are left out.

### Parameters that stand for an undecided owner or environment

- `Once` (acceptor): no request is delivered twice and an accept request
  follows the promise of its identifier. Without it the acceptor is not safe
  against restarts (see `acceptor_forgets` for one that remains even with it).
- `Careful` (proposer): the owner proposes, and repeats a prepare request, only
  while the identifier is the one it prepared; it repeats a request only to
  acceptors that have had it. Without the first, `proposer_bumped`. Without the
  second, a promise from beyond the quorum may change the value of a leader that
  has already sent an accept request.
- `LeaderAtStart`, `ActiveAtStart`, `Garbage`: what the members that no
  constructor sets may read as. `proposer` and `node` start with the leader flag
  TRUE, the other runs with FALSE; the theorems hold for both. With TRUE, an
  owner that is not careful and calls `prepare(false)` or `setProposal` first has
  an accept request sent without any promise, and a node may announce itself until
  its first round. `Garbage` is -1, 0, 1 and 2 in both runs of the learner. The acceptor runs start inactive and
  let the owner change the flag at any time.

The owner of a `PaxosNode` is not restricted: it may call every operation but
`setLeaderProposalID` at any time. `prepare(false)` in particular may follow an
answer that has raised the identifier. The request then carries the raised one
while the promises counted were for the one before, so a node may become leader,
and announce the raised identifier, with no quorum for any single identifier: after
a promise for (1,n) and a refusal that names 2, `prepare(false)` and one promise
for (2,n) from another acceptor are enough. What is true of any owner is that the
quorum answered the present round (`AnnouncesIfElected`).

## 3. Runs

Passing:

| Run | Shows | Bounds |
|---|---|---|
| `acceptor` | Type correctness; a promise's report of the last vote stays true; no vote below an announced bound | One acceptor (they do not interact), identifiers (1,1) (1,2) (2,1): a tie broken by UID, a second round of the same node; two values; requests stop once three different answers exist |
| `acceptor_restart` | With `Once` and restarts anywhere, also between the save and `persisted()`: answers others count on are durable, reports stay true | As above, six answers: all three identifiers can be prepared and accepted |
| `proposer` | An accept request has a quorum; one value per identifier; the value follows the highest report, also of earlier rounds and of votes at its own requests | One proposer of four nodes, quorum two, two rounds; one peer known at the start, which is too few, and others that join at any time; requests and answers repeated; the leader flag set at the start. Values are symmetric |
| `learner` | The value learned has a quorum of approvals, unless the counts of that very identifier began uninitialised; of acceptors that keep their vote, a learner needs exactly one more than a quorum; a complete learner stays so | Three acceptors, quorum two, three identifiers, votes changed and repeated in any order; uninitialised counts read as -1, 0, 1 or 2: too low, right, and high enough to learn at the first approval |
| `paxos` | `Consensus` is implemented: two competing rounds choose at most one value, and keep it | Three nodes, quorum two, two proposers with one round each (the higher must adopt what the lower may have chosen), requests repeated |
| `node` | A node first announces an identifier of a round when a quorum has answered that round; refusals of different rounds are not added up; leaders are followed upwards | One node of three, quorum two, identifiers up to number 2: two rounds, or one that is raised; three foreign identifiers: below its own of number 1, above it with the same number, and one of number 2 that raises it; heartbeats, promises, also stray ones, refusals, time-outs and the owner's calls in any order; started with no peers and the leader flag set |
| `membership` | The socket maps match the sockets; a stable peer is named; `Roster` is implemented; all nodes come to know each other | Three nodes with stable peers as in `reset.sh`, four addresses and pointers, one failed connection, one restart, one ping of each node on its way |

Each bound leaves room for the case that matters: each property is falsified,
at the same bounds, by a plausible error in the operator it depends on. Those
variants stand before the operators they vary, under "Mutant of ...".

Runs that end in a violation, each a statement of the repository about itself
that its code does not keep:

| Run | Statement | What happens |
|---|---|---|
| `acceptor_forgets` | A refusal says the acceptor approves nothing below `promisedID` (`proposer.cpp:124`) | The refusal is sent before the promise is saved; after a restart a lower vote is recorded |
| `proposer_bumped` | Leader means a majority has promised the identifier (`proposer.cpp:66`) | A refusal raises the identifier's number; the flag and the promises stay. `PaxosNode::prepare(false)` after such a raise, above, is the same defect met from the other side |
| `node_restart` | Leader means a majority has promised (`proposer.cpp:66`); a number only increases (`proposalid.h:8`) | A new process counts from zero, takes late promises of two rounds of its former life for its own and adds them up |
| `node_pulse` | Heartbeats elect the cluster's leader (`paxos_node.cpp:154`) | The timer pulses a copy of the node; a node elected after another leader was known is never announced |
| `learner_garbage` | A final value has a majority of approvals (`learner.cpp:74`) | A changed vote creates an entry with uninitialised counts, one of which reads high; this takes no reordering |

One disagreement shows in a run that passes. `learner.h:18` says that every
approval adds one to the count, and `learner.cpp:74` that a majority is enough;
but the first approval enters as zero (`learner.cpp:68`), so a learner needs
quorum + 1 approvals while only a quorum of acceptors is asked. `LearnsOneLate`
states what the code does, as an equivalence: not before, and not after.

Met while modelling, and without a run of their own: a refusal while acquiring
leadership starts a round at once, without the conditions `pollLiveness` names
(`paxos_node.cpp:97`, `:207`); a follower that is elected by late promises stays
leader beside the one it follows (`paxos_node.cpp:189`); a leader refused by a
quorum with higher numbers is not deposed, because the identifier is raised before
the refused one is compared with it (`paxos_node.cpp:215`).

### Fairness

Only two specifications assume any, and each only what `Server::Run` does: it
handles what the sockets deliver and then checks the timers, for ever.

- `PaxosNodeEnv`: weak fairness of the heartbeat timer, which pulses the copy.
  Nothing is assumed of messages, the owner or time-outs. It matters only to
  `node_pulse`, where it makes the refutation one that stands although the timer
  runs: `LeaderIsAnnounced` is the only temporal property stated of a node, and
  the code does not have it.
- `membership`: weak fairness of each node's ping timer, of the handling of a
  ping that has arrived, and of the closing of a socket whose other end is gone.
  Failures and restarts may happen but are finitely many (`MaxFaults`,
  `MaxRestarts`): with a connection that fails for ever nothing is promised.
  `EventuallyComplete` is about nodes that come back at their address: known
  peers keep the first address heard of.

Deadlock detection is on in every run. The acceptor, proposer, learner and
composed models have self-loops (an answer that is sent again).

## 4. Proofs

Every invariant, action property and refinement that a passing run checks is
stated and proved by a theorem: for every set of nodes and values, quorum size and bound
on rounds, restarts and failures, in place of the runs' small ones.

| Theorem | States | Hypothesis beside the constants' named assumptions |
|---|---|---|
| `AcceptorProofs!TypeCorrect` | `TypeOK` | |
| `AcceptorProofs!LastVoteReported` | `PromisesReportLastVote` | |
| `AcceptorProofs!BoundsAreKept` | `NoVoteBelowBound` | |
| `AcceptorProofs!AnswersSurviveRestarts` | `AnswersAreDurable`, with restarts | `Once` |
| `AcceptorProofs!ReportsSurviveRestarts` | `PromisesReportLastVote`, with restarts | `Once` |
| `ProposerProofs!ProposerTypeCorrect` | `TypeOK` | |
| `ProposerProofs!QuorumBehindAccepts` | `AcceptHasQuorum` | `Careful` |
| `ProposerProofs!OneProposalPerIdentifier` | `OneValuePerID` | `Careful` |
| `ProposerProofs!HighestReportIsFollowed` | `ValueFollowsHighestReport` | `Careful` |
| `LearnerProofs!LearnerTypeCorrect` | `TypeOK` | |
| `LearnerProofs!LearnsOnlyWithQuorum` | `GuessedOrHasQuorum` | |
| `LearnerProofs!LearnsExactlyOneLate` | `LearnsOneLate` | |
| `PaxosProofs!PaxosTypeCorrect` | `TypeOK` | |
| `PaxosProofs!PaxosImplementsConsensus` | `ImplementsConsensus` | `Careful`, the quorum size is a majority |
| `PaxosNodeProofs!NodeTypeCorrect` | `TypeOK`, with and without restarts | |
| `PaxosNodeProofs!LeaderOnlyRises` | `LeaderNeverRegresses` | |
| `PaxosNodeProofs!RefusalsAreOfOneRound` | `RefusalsOfOneRound` | |
| `PaxosNodeProofs!AnnouncedNodesWereElected` | `AnnouncesIfElected` | |
| `MembershipProofs!MembershipTypeCorrect` | `TypeOK` | |
| `MembershipProofs!SocketMapsAreExact` | `MapsMatchSockets` | |
| `MembershipProofs!ServerKeepsRoster` | `ImplementsRoster` | |
| `MembershipProofs!StablePeerIsRecognised` | `StablePeerIsNamed` | |

Where `Careful` is needed, `proposer_bumped` shows what happens without it; for
`Once`, see below. The theorems about a node are about `Spec`, in which processes
do not restart, except where the table says otherwise (`node_restart`). Each inductive invariant was checked by TLC on the instance of its
component before it was proved.

**Identifiers.** `ProposalIDProofs`: the comparison is a total order
(`GeqReflexive`, `GeqTransitive`, `GeqAntisymmetric`, `NotGt`), and the default
identifier is below every other one (`NullIsLeast`).

**Acceptor.** `PromisesReportLastVote` relates messages to messages and is not
inductive. The invariant ties each kind of message to the acceptor's fields:

- the accepted identifier is at most the promised one, and an identifier in
  a pending answer is a valid one (`AcceptorInv`);
- a promise, or the bound in a refusal, is at most `m_promisedID`; a permit is
  at most `m_acceptedID`; and `m_acceptedID`, which bounds any vote yet to be
  reported, does not lie strictly between a promise's report and its identifier
  (`MessageInv`).

Both fields only grow, which is why what was true of the messages stays so
(`RaisedFieldsKeepMessageInv`), and every answer is built from the fields of
the moment (`AnswersKeepMessageInv`); each action is one or both. These lemmas
are in `RoleProofs`, since the composition needs them too.

With restarts the fields no longer only grow: they fall back to what is on disk.
`DurableInv` therefore says of the disk what `MessageInv` says of the fields:
it is behind the fields, and consistent in itself (`DiskIsBehind`); no promise
or permit of the acceptor is ahead of it (`AnswersAreDurable`); and neither the
vote on disk nor the one in memory lies between a promise's report and its
identifier (`DiskGap`). An answer that waited is sent after the save, so it
carries no more than the disk holds. An answer that is repeated at once, for the
identifier the acceptor has already promised or accepted, does not wait, and may
tell of what was never saved: this is the branch that `Once` excludes, and
`HandledInv` is how the proof sees that it does, as the request for whatever an
acceptor has promised or accepted has been handled.

**Learner.** The learner does not remember who it counted, so the invariant
behind `LearnsOnlyWithQuorum` relates a count to the permits that arrived:
unless it began uninitialised, `acceptCount` is at most the number of acceptors
that have approved the identifier and whose last approval is not lower
(`CountsAreBacked`). An approval that is counted comes from an acceptor that was
not yet among them (`NewBacker`), since the code drops an approval that is not
newer than the last one; and no step makes a backer of another identifier stop
being one, as the last approval only rises (`BackersStay`). Vote changes are not
excluded: the aliased iterator takes down the count of the new identifier, and may
remove its entry, which leaves the bound true. What an uninitialised count reads as
is not restricted either. Such a count is the one thing nothing can be said of,
and an identifier that was learned on the strength of it is in `guessed`.

`LearnsExactlyOneLate` is about acceptors that keep their vote. Then no count
begins uninitialised and the learner counts exactly (`CountsExactly`): a count is
one less than the number of approvers, since the first is entered as zero, and
there are no more of these than a quorum before the learner is complete.

**Proposer.** The invariant `RoundInv` ties `m_leader` to the messages through
four facts: the identifiers are a node's own, and the one it prepared last is
not above the present one, so a new round is new (`OwnIdentifiers`); every
request carries an identifier that was prepared (`RequestsWerePrepared`);
whoever is in `m_promisesReceived` has promised the identifier prepared last
(`CountedHavePromised`); and a leader that has begun a round has a quorum there
(`LeaderHasQuorum`; before the first round the flag is what the memory held). A
refusal that raises the identifier leaves all four alone, and a careful owner
then has nothing to send.

What an accept request carries needs more. `receivePromise` takes over a
reported value at any time, also after an accept request of the round has been
sent; what prevents it is how `Server` chooses the addressees. A round goes to
one selection of acceptors (`RoundGoesToSelection`) of at most a quorum
(`SelectionIsBounded`, from the lemma `LeastBound` about the selection), and
only these can answer it (`CountedWereAsked`). So once a quorum has been counted
nobody is left to answer (`NobodyLeft`), the value of the round is settled
(`RoundIsSettled`), and everyone asked has been heard (`AllHaveAnswered`). Up to
that point the proposer follows a report that reached it, at least as high as
any other (`LastWasHeard`, `HeardWereCounted`), whether the vote was cast at the
request of others or at its own of an earlier round.

**Composition.** `PaxosImplementsConsensus` is the agreement theorem. An
acceptor *skips* an identifier if it has sent a promise for a higher one with a
report of a lower one: by `MessageInv` it has not voted for the identifier and
never will (`Skips`). A value is *safe* at an identifier if for every lower one
either a quorum skips it, or the value was proposed with it (`SafeAt`). The
invariant says that every accept request carries a safe value
(`AcceptsAreSafe`) and that an identifier has one value (`OneValuePerID`); the
rest of `IInv` follows an identifier and a value through the requests, the
acceptors' fields, the promises and back (`RequestInv`, `VoteInv`). A leader's
value is safe because it is the value of the highest report among the promises of
a quorum (`FollowsReportIsSafe`): above that report the quorum skips, below it
the reported proposal was safe itself. Two quorums meet (`TwoQuorumsMeet`), so
what is chosen and what is proposed later agree (`LaterProposalAgrees`,
`OneIsChosen`); and as `msgs` only grows, so does what is chosen
(`ChosenGrows`). The model starts with all nodes knowing each other, so that a
proposer's selection is always the same (`SelectionIsFixed`).

That the quorum size is a majority is not enforced by the code: `main.cpp:149`
starts every node with 3, and `reset.sh` starts five of them.

**PaxosNode.** `LeaderOnlyRises` follows from the types alone, operation by
operation, restarts excluded. For the rounds, `RoundInv` has three parts. The
number a round began with is not above that of the node's identifier
(`RoundsAreBehind`): so a new round is above all earlier requests, and an answer to
one of these is told from an answer to the present round by its number. Whoever is
counted has answered the present round (`CountedAnswered`): the counts are
forgotten where a round begins, and an answer is counted only for the identifier
of the moment. A leader was elected in the present round, or, before the first,
is one because the flag happened to be set (`LeaderWasElected`). Nothing here speaks of what
identifier the round has by then: answers raise its number, and a promise for the
raised one counts beside those for the earlier. What a node announces is its own
identifier, or the number 0 of the timer's copy, which lies below every round
(`WhoAnnounces`, `CopyIsFixed`). A promise made to another node is never counted,
but may raise the identifier. Restarts are excluded because `node_restart` refutes
the property with them.

**Membership.** `TypeOK /\ MapsMatchSockets` is inductive, once there is one
map per node (`OnePerNode`). Opening several sockets at once is the step that
takes work: the new pointers and the new addresses are matched one to one,
because the pointers are as many as the addresses and their order is that of the
addresses. `Learn` and `Forget` of `Roster` follow step by step: only
`HandlePingMessage` and a restart change `m_peers`. The name of a stable peer is
set when its address is first heard of, and stays right because an address
belongs to one node only, wherever it is heard of: at home, among the known
peers of any node, or in a ping on its way (`HeardAtUsed`, `HeardAtOwn`). This
rests on the model's restart, which brings a node back at its old address or at one
that nobody has used.

**Only model-checked**: `EventuallyComplete`, the one liveness property that holds,
since liveness under fairness is beyond the prover. The five violations are
counterexamples, found by TLC on small instances. How the heartbeats of several
nodes act on each other, and the learner beside the other roles, are neither
checked nor proved in one composition (section 5).

## 5. Not modelled, and what is left

Not modelled:

- framing in `HandlePacket` and `Listen` (what the socket library asks of its
  user), encoding, logging, `dumpStatus`, program start;
- pongs and round-trip times, which nothing reads; `RemovePeerInfo` and
  `setLeaderProposalID`, which nobody calls;
- the 32-bit wrap of numbers: unbounded in the model, out of reach of a
  bounded run;
- the empty string as a proposed value;
- several `PaxosNode`s against each other, and the learner against the other
  roles: each is checked in an environment that can do what the others can.
  The state of three full nodes is beyond TLC here.

Possible extensions: a learned value is the chosen value, in the composition;
`Consensus` with acceptors that restart under `Once`, from `DurableInv` in place
of `MessageInv`; selections that change between rounds, in the composition.
Duelling proposers and a dead peer that every selection contains are liveness
questions for TLC.
