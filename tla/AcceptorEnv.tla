---------------------------- MODULE AcceptorEnv -----------------------------
(***************************************************************************)
(* Acceptors in the hands of any network and any proposers: every request  *)
(* may arrive at any time, in any order, any number of times, and the      *)
(* value of an accept request is arbitrary.  What holds here holds of an   *)
(* acceptor whatever the rest of the system does.                          *)
(*                                                                         *)
(* With Once the requests are those of a proposer that issues each         *)
(* identifier once, over a network that does not duplicate: an acceptor is *)
(* handed each request at most once, and the accept request of an          *)
(* identifier only after it has promised that identifier.                  *)
(***************************************************************************)
EXTENDS Acceptor

CONSTANTS Acceptors,   \* the nodes whose acceptor is observed
          RequestIDs,  \* the identifiers in requests
          MaxMessages, \* bound of the model: no request arrives once so
                       \* many different answers have been sent
          Once

ASSUME EnvAssumption ==
  /\ Acceptors \subseteq Node
  /\ RequestIDs \subseteq ValidIDs
  /\ MaxMessages \in Nat
  /\ Once \in BOOLEAN

VARIABLE handled       \* with Once, the requests delivered so far

vars == <<acceptorVars, msgs, handled>>

Deliver(a, cmd, id) ==
  /\ Cardinality(msgs) < MaxMessages
  /\ Once => <<a, cmd, id>> \notin handled
  /\ handled' = IF Once THEN handled \cup {<<a, cmd, id>>} ELSE handled

HasPromised(a, id) == \E m \in Sent("promise") : m.from = a /\ m.id = id

PrepareArrives(a, id) ==
  /\ Deliver(a, "prepare", id)
  /\ receivePrepare(a, id.uid, id)

AcceptArrives(a, id, value) ==
  /\ Once => HasPromised(a, id)
  /\ Deliver(a, "accept", id)
  /\ receiveAcceptRequest(a, id.uid, id, value)

OwnerActs(a) ==
  /\ \/ Persist(a)
     \/ \E active \in BOOLEAN \ {acceptorActive[a]} : setActive(a, active)
  /\ UNCHANGED handled

RestartNode(a) == Restart(a) /\ UNCHANGED handled

Init == AcceptorInit /\ msgs = {} /\ handled = {}

Next == \E a \in Acceptors :
          \/ \E id \in RequestIDs : PrepareArrives(a, id)
          \/ \E id \in RequestIDs, value \in Value : AcceptArrives(a, id, value)
          \/ OwnerActs(a)

NextWithRestarts == Next \/ \E a \in Acceptors : RestartNode(a)

Spec == Init /\ [][Next]_vars

SpecWithRestarts == Init /\ [][NextWithRestarts]_vars

-----------------------------------------------------------------------------
(***************************************************************************)
(* Type correctness, of the fields and of everything sent.                 *)
(***************************************************************************)
TypeOK ==
  /\ AcceptorTypeOK
  /\ msgs \subseteq Message
  /\ handled \subseteq (Acceptors \X {"prepare", "accept"} \X RequestIDs)

(***************************************************************************)
(* A promise for id that reports the vote acceptID means that the acceptor *)
(* votes for nothing between the two, neither before nor after: none of    *)
(* its permits, sent earlier or later, lies strictly between.  It is what  *)
(* lets a proposer choose a value from the reports it collects; it has to  *)
(* survive promises sent late (persisted() answers with the fields of that *)
(* moment), requests dropped while an answer is pending, and repeats.      *)
(***************************************************************************)
PromisesReportLastVote ==
  \A p \in Sent("promise"), v \in Sent("permit") :
    v.from = p.from => ~(Gt(v.id, p.acceptID) /\ Gt(p.id, v.id))

\* The bound below which a message says its sender will not vote.
Bounds(a) ==   {m.id : m \in {p \in Sent("promise") : p.from = a}}
          \cup {m.promisedID : m \in {n \in Sent("prepareNACK") \cup Sent("acceptNACK") :
                                      n.from = a}}

(***************************************************************************)
(* An acceptor that has told anyone, in a promise or in a refusal, that it *)
(* has promised n never again records a vote below n (the comment on       *)
(* Proposer::receivePrepareNACK states it of refusals).  Recording a vote  *)
(* raises m_acceptedID; a restart, which may lower it, is not a vote.      *)
(***************************************************************************)
NoVoteBelowBound ==
  [][\A a \in Acceptors :
       Gt(m_acceptedID'[a], m_acceptedID[a])
         => \A n \in Bounds(a) : Geq(m_acceptedID'[a], n)]_vars

(***************************************************************************)
(* Nothing is promised or permitted to anyone before it is on disk.  It is *)
(* what makes a restart harmless: the new process knows every promise and  *)
(* every vote that others count on.                                        *)
(***************************************************************************)
AnswersAreDurable ==
  /\ \A p \in Sent("promise") : Geq(disk[p.from].promisedID, p.id)
  /\ \A v \in Sent("permit") : Geq(disk[v.from].acceptedID, v.id)
=============================================================================
