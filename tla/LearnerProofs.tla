---------------------------- MODULE LearnerProofs ----------------------------
(***************************************************************************)
(* Proofs about the learner in LearnerEnv: for any set of nodes, any       *)
(* quorum size, and permits in any order and number.                       *)
(***************************************************************************)
EXTENDS LearnerEnv, ProposalIDProofs, FiniteSetTheorems

(***************************************************************************)
(* The inductive invariant.  The acceptors that back a count are those     *)
(* that have approved the identifier and have since approved nothing       *)
(* lower: an acceptor backs a count at most once, because its permit is    *)
(* dropped when it has approved that identifier or a higher one.           *)
(***************************************************************************)
Backers(l, id) == {a \in Approvers(l, id) : Geq(m_acceptors[l][a], id)}

CountIsBacked(l, id) ==
  id \in guessed[l] \/ m_proposals[l][id].acceptCount <= Cardinality(Backers(l, id))

CountsAreBacked == \A l \in Node : \A id \in DOMAIN m_proposals[l] : CountIsBacked(l, id)

KnownHaveApproved ==
  \A l, a \in Node :
    /\ m_acceptors[l][a] \in ValidIDs \cup {NullID}
    /\ Known(l, a) => \E m \in Handed(l, a) : m.id = m_acceptors[l][a]

IInv == TypeOK /\ CountsAreBacked /\ KnownHaveApproved /\ GuessedOrHasQuorum

\* The part of it that holds whatever a new entry's counts read as.
BaseInv == TypeOK /\ KnownHaveApproved

-----------------------------------------------------------------------------
LEMMA Facts ==
  /\ Learners \subseteq Node /\ Approved \subseteq ValidIDs
  /\ Garbage \subseteq Int
  /\ ValidIDs \subseteq ProposalIDs /\ NullID \in ProposalIDs
  /\ QuorumSize \in Nat
BY EnvAssumption, LearnerAssumption, QuorumAssumption, ValidIsID
   DEF EnvAssumption, LearnerAssumption, QuorumAssumption

LEMMA ValidIsNotNull ==
  /\ ~isValid(NullID)
  /\ \A id \in ValidIDs : isValid(id) /\ ~Geq(NullID, id)
<1>1. ASSUME NEW id \in ValidIDs PROVE isValid(id) /\ ~Geq(NullID, id)
  <2>1. id.uid \in Node /\ id.uid # NoUID /\ id \in ProposalIDs
    BY NodeAssumption, ValidIsID DEF NodeAssumption, ValidIDs, NoUID
  <2> QED BY <2>1, GeqDef, FieldTypes, ValidIsID DEF isValid, NullID, NoUID
<1> QED BY <1>1 DEF isValid, NullID

\* Only nodes approve, so the approvers of anything can be counted.
LEMMA FiniteApprovers ==
  ASSUME msgs \subseteq Message, NEW S, NEW l, NEW id, S \subseteq Approvers(l, id)
  PROVE  IsFiniteSet(S) /\ Cardinality(S) \in Nat
<1>1. Approvers(l, id) \subseteq Node
  BY DEF Approvers, Message
<1> QED BY <1>1, FiniteAssumption, FS_Subset, FS_CardinalityType DEF FiniteAssumption

-----------------------------------------------------------------------------
(***************************************************************************)
(* What a table is before the new approval is counted: as it was, except   *)
(* that the entry of the new identifier may be gone or freshly created.    *)
(***************************************************************************)
LEMMA TableBeforeCounting ==
  ASSUME NEW l \in Node, NEW a \in Node, NEW id \in ValidIDs,
         IsTable(m_proposals[l]), NEW table \in BeforeCounting(l, a, id)
  PROVE  /\ IsTable(table)
         /\ DOMAIN table \subseteq DOMAIN m_proposals[l] \cup {id}
         /\ \A i \in DOMAIN table : i # id => /\ i \in DOMAIN m_proposals[l]
                                              /\ table[i] = m_proposals[l][i]
         /\ id \in DOMAIN table =>
              \/ /\ id \in DOMAIN m_proposals[l]
                 /\ table[id].acceptCount = m_proposals[l][id].acceptCount
              \/ Known(l, a) /\ id \notin DOMAIN m_proposals[l]
<1> DEFINE t == m_proposals[l]
<1>1. /\ DOMAIN t \subseteq ValidIDs
      /\ \A i \in DOMAIN t : t[i] \in Proposal
      /\ t \in [DOMAIN t -> Proposal]
  BY DEF IsTable
<1>2. CASE ~Known(l, a)
  BY <1>1, <1>2 DEF BeforeCounting, IsTable
<1>3. CASE Known(l, a)
  <2>1. PICK old \in IF id \in DOMAIN t THEN {t[id]} ELSE DefaultProposals :
          table = IF old.retentionCount = 1 THEN Erase(t, id)
                  ELSE Put(t, id, [old EXCEPT !.retentionCount = @ - 1])
    BY <1>3 DEF BeforeCounting, LessRetained
  <2>2. /\ old \in Proposal
        /\ \/ id \in DOMAIN t /\ old.acceptCount = t[id].acceptCount
           \/ id \notin DOMAIN t
    BY <1>1, <2>1, Facts DEF DefaultProposals, Proposal
  <2>3. CASE old.retentionCount = 1
    BY <1>1, <2>1, <2>3 DEF Erase, IsTable
  <2>4. CASE old.retentionCount # 1
    <3> DEFINE new == [old EXCEPT !.retentionCount = @ - 1]
    <3>1. new \in Proposal /\ new.acceptCount = old.acceptCount
      BY <2>2 DEF Proposal
    <3>2. table = Put(t, id, new)
      BY <2>1, <2>4
    <3> HIDE DEF new
    <3>3. /\ DOMAIN table = DOMAIN t \cup {id}
          /\ table[id] = new
          /\ \A i \in DOMAIN t : i # id => table[i] = t[i]
          /\ table \in [DOMAIN table -> Proposal]
      BY <1>1, <3>1, <3>2 DEF Put
    <3> QED BY <1>1, <1>3, <2>2, <3>1, <3>3 DEF IsTable
  <2> QED BY <2>3, <2>4
<1> QED BY <1>2, <1>3

\* Counting an approval adds at most one, and to its identifier only.
LEMMA CountedTable ==
  ASSUME NEW table, IsTable(table), NEW id \in ValidIDs
  PROVE  /\ IsTable(Counted(table, id))
         /\ DOMAIN Counted(table, id) = DOMAIN table \cup {id}
         /\ \A i \in DOMAIN table : i # id => Counted(table, id)[i] = table[i]
         /\ Counted(table, id)[id].acceptCount =
              IF id \in DOMAIN table THEN table[id].acceptCount + 1 ELSE 0
<1>1. /\ DOMAIN table \subseteq ValidIDs
      /\ \A i \in DOMAIN table : table[i] \in Proposal
  BY DEF IsTable
<1>2. CASE id \notin DOMAIN table
  BY <1>1, <1>2 DEF Counted, Put, IsTable, Proposal
<1>3. CASE id \in DOMAIN table
  BY <1>1, <1>3 DEF Counted, Put, IsTable, Proposal
<1> QED BY <1>2, <1>3

-----------------------------------------------------------------------------
\* Every step hands over one more permit, so nobody loses an approver.
LEMMA Arrival ==
  ASSUME msgs \subseteq Message, NEW l \in Node, NEW a \in Node,
         NEW id \in ValidIDs, NEW value \in Value, Send({Permit(a, l, id, value)})
  PROVE  /\ msgs \subseteq msgs' /\ msgs' \subseteq Message
         /\ \A k, i : Approvers(k, i) \subseteq Approvers(k, i)'
         /\ \A k, b : Handed(k, b) \subseteq Handed(k, b)'
         /\ a \in Approvers(l, id)'
         /\ \E m \in Handed(l, a)' : m.id = id /\ m.value = value
<1> DEFINE p == Permit(a, l, id, value)
<1>1. msgs' = msgs \cup {p}
  BY DEF Send
<1>2. p \in Message /\ p.from = a /\ p.to = l /\ p.id = id /\ p.value = value
  BY DEF Permit, Message
<1> HIDE DEF p
<1> QED BY <1>1, <1>2 DEF Approvers, Handed

\* An identifier that once was a guess stays one.
LEMMA GuessesStay ==
  ASSUME guessed \in [Node -> SUBSET ValidIDs], NEW l \in Node, NEW a \in Node,
         NEW id \in ValidIDs, NotesGuess(l, a, id)
  PROVE  /\ guessed' \in [Node -> SUBSET ValidIDs]
         /\ \A k \in Node : guessed[k] \subseteq guessed'[k]
         /\ Guesses(l, a, id) => id \in guessed'[l]
<1>1. CASE Guesses(l, a, id)
  BY <1>1 DEF NotesGuess
<1>2. CASE ~Guesses(l, a, id)
  BY <1>2 DEF NotesGuess
<1> QED BY <1>1, <1>2

LEMMA ApproversCounted ==
  ASSUME msgs \subseteq Message, msgs' \subseteq Message, NEW k, NEW i,
         Approvers(k, i) \subseteq Approvers(k, i)'
  PROVE  /\ Cardinality(Approvers(k, i)) <= Cardinality(Approvers(k, i)')
         /\ Cardinality(Approvers(k, i)) \in Nat /\ Cardinality(Approvers(k, i)') \in Nat
<1>1. Approvers(k, i)' \subseteq Node
  BY DEF Approvers, Message
<1>2. IsFiniteSet(Approvers(k, i)')
  BY <1>1, FiniteAssumption, FS_Subset DEF FiniteAssumption
<1> QED BY <1>2, FiniteApprovers, FS_Subset, FS_CardinalityType

\* Backers stay as long as no acceptor's last approval goes down.
LEMMA BackersStay ==
  ASSUME msgs' \subseteq Message, NEW k, NEW i \in ProposalIDs,
         m_acceptors[k] \in [Node -> ProposalIDs],
         m_acceptors'[k] \in [Node -> ProposalIDs],
         Approvers(k, i) \subseteq Approvers(k, i)', msgs \subseteq Message,
         \A b \in Node : Geq(m_acceptors'[k][b], m_acceptors[k][b])
  PROVE  /\ Backers(k, i) \subseteq Backers(k, i)'
         /\ Cardinality(Backers(k, i)) <= Cardinality(Backers(k, i)')
         /\ Cardinality(Backers(k, i)) \in Nat /\ Cardinality(Backers(k, i)') \in Nat
<1>1. ASSUME NEW b \in Backers(k, i) PROVE b \in Backers(k, i)'
  <2>1. b \in Node /\ b \in Approvers(k, i)'
    BY DEF Backers, Approvers, Message
  <2>2. /\ m_acceptors'[k][b] \in ProposalIDs /\ m_acceptors[k][b] \in ProposalIDs
        /\ Geq(m_acceptors'[k][b], m_acceptors[k][b]) /\ Geq(m_acceptors[k][b], i)
    BY <2>1 DEF Backers
  <2> QED BY <2>1, <2>2, GeqTransitive DEF Backers
<1>2. /\ IsFiniteSet(Backers(k, i)') /\ Cardinality(Backers(k, i)') \in Nat
      /\ Cardinality(Backers(k, i)) \in Nat
  <2>1. Backers(k, i) \subseteq Approvers(k, i) /\ Backers(k, i)' \subseteq Approvers(k, i)'
    BY DEF Backers
  <2>2. Approvers(k, i)' \subseteq Node
    BY DEF Approvers, Message
  <2>3. IsFiniteSet(Backers(k, i)')
    BY <2>1, <2>2, FiniteAssumption, FS_Subset DEF FiniteAssumption
  <2> QED BY <2>1, <2>3, FiniteApprovers, FS_CardinalityType
<1> QED BY <1>1, <1>2, FS_Subset

-----------------------------------------------------------------------------
(***************************************************************************)
(* What a permit does to the part of the invariant that holds whatever a   *)
(* new entry's counts read as.                                             *)
(***************************************************************************)
LEMMA DiscardKeepsBase ==
  ASSUME BaseInv, NEW l \in Node, NEW a \in Node, NEW id \in ValidIDs,
         NEW value \in Value, Send({Permit(a, l, id, value)}), NotesGuess(l, a, id),
         Discard(l, a, id)
  PROVE  BaseInv'
<1>1. msgs \subseteq Message /\ UNCHANGED learnerVars
  BY DEF BaseInv, TypeOK, Discard
<1>2. /\ msgs' \subseteq Message
      /\ \A k, b : Handed(k, b) \subseteq Handed(k, b)'
      /\ guessed' \in [Node -> SUBSET ValidIDs]
  BY <1>1, Arrival, GuessesStay DEF BaseInv, TypeOK
<1>3. TypeOK'
  BY <1>1, <1>2 DEF BaseInv, TypeOK, learnerVars, isComplete, Known
<1>4. KnownHaveApproved'
  BY <1>1, <1>2 DEF BaseInv, KnownHaveApproved, learnerVars, Known
<1> QED BY <1>3, <1>4 DEF BaseInv

LEMMA CountKeepsBase ==
  ASSUME BaseInv, NEW l \in Node, NEW a \in Node,
         NEW id \in ValidIDs, NEW value \in Value,
         Send({Permit(a, l, id, value)}), NotesGuess(l, a, id),
         Count(l, a, id, value)
  PROVE  BaseInv'
<1>1. /\ msgs \subseteq Message /\ IsTable(m_proposals[l])
      /\ m_proposals = [k \in Node |-> m_proposals[k]]
      /\ \A k \in Node : IsTable(m_proposals[k])
      /\ m_acceptors \in [Node -> [Node -> ProposalIDs]]
      /\ m_finalValue \in [Node -> Value \cup {NoValue}]
      /\ m_finalProposalID \in [Node -> ProposalIDs]
      /\ id \in ProposalIDs /\ ~isComplete(l)
  BY Facts DEF BaseInv, TypeOK, Count, Discards
<1>2. /\ msgs \subseteq msgs' /\ msgs' \subseteq Message
      /\ \A k, b : Handed(k, b) \subseteq Handed(k, b)'
      /\ \E m \in Handed(l, a)' : m.id = id
      /\ guessed' \in [Node -> SUBSET ValidIDs]
  BY <1>1, Arrival, GuessesStay DEF BaseInv, TypeOK
<1>3. PICK table \in BeforeCounting(l, a, id) :
        /\ m_proposals' = [m_proposals EXCEPT ![l] =
                             IF Resolves(table, id) THEN EmptyTable
                             ELSE Counted(table, id)]
        /\ m_acceptors' = [m_acceptors EXCEPT ![l] =
                             IF Resolves(table, id) THEN [b \in Node |-> NullID]
                             ELSE [@ EXCEPT ![a] = id]]
        /\ m_finalValue' = IF Resolves(table, id)
                           THEN [m_finalValue EXCEPT ![l] = value] ELSE m_finalValue
        /\ m_finalProposalID' = IF Resolves(table, id)
                                THEN [m_finalProposalID EXCEPT ![l] = id]
                                ELSE m_finalProposalID
  BY DEF Count
<1>4. IsTable(EmptyTable) /\ IsTable(Counted(table, id))
  BY <1>1, <1>3, TableBeforeCounting, CountedTable DEF IsTable, EmptyTable
<1>5. /\ m_proposals' = [k \in Node |-> m_proposals'[k]]
      /\ \A k \in Node : IsTable(m_proposals'[k])
  BY <1>1, <1>3, <1>4
<1>6. /\ m_acceptors' \in [Node -> [Node -> ProposalIDs]]
      /\ m_finalValue' \in [Node -> Value \cup {NoValue}]
      /\ m_finalProposalID' \in [Node -> ProposalIDs]
  BY <1>1, <1>3, Facts
<1>7. /\ m_proposals'[l] = IF Resolves(table, id) THEN EmptyTable
                                                   ELSE Counted(table, id)
      /\ m_acceptors'[l] = IF Resolves(table, id) THEN [b \in Node |-> NullID]
                           ELSE [m_acceptors[l] EXCEPT ![a] = id]
      /\ Resolves(table, id) \/ m_finalValue'[l] = m_finalValue[l]
      /\ \A k \in Node \ {l} : /\ m_proposals'[k] = m_proposals[k]
                               /\ m_acceptors'[k] = m_acceptors[k]
                               /\ m_finalValue'[k] = m_finalValue[k]
  BY <1>1, <1>3
<1>8. ASSUME NEW k \in Node, isComplete(k)'
      PROVE  m_proposals'[k] = EmptyTable /\ \A b \in Node : ~Known(k, b)'
  <2>1. CASE k = l
    BY <1>1, <1>7, <1>8, <2>1, ValidIsNotNull DEF isComplete, Known
  <2>2. CASE k # l
    BY <1>7, <1>8, <2>2 DEF BaseInv, TypeOK, isComplete, Known
  <2> QED BY <2>1, <2>2
<1>9. TypeOK'
  BY <1>2, <1>5, <1>6, <1>8 DEF TypeOK, IsTable
<1>10. ASSUME NEW k \in Node, NEW b \in Node
       PROVE  /\ m_acceptors'[k][b] \in ValidIDs \cup {NullID}
              /\ Known(k, b)' => \E m \in Handed(k, b)' : m.id = m_acceptors'[k][b]
  <2>1. \/ m_acceptors'[k][b] = NullID
        \/ k = l /\ b = a /\ m_acceptors'[k][b] = id
        \/ m_acceptors'[k][b] = m_acceptors[k][b]
    BY <1>1, <1>7
  <2>2. CASE m_acceptors'[k][b] = NullID
    BY <2>2, ValidIsNotNull DEF Known
  <2>3. CASE k = l /\ b = a /\ m_acceptors'[k][b] = id
    BY <1>2, <2>3
  <2>4. CASE m_acceptors'[k][b] = m_acceptors[k][b]
    BY <1>2, <2>4 DEF BaseInv, KnownHaveApproved, Known
  <2> QED BY <2>1, <2>2, <2>3, <2>4
<1>11. KnownHaveApproved'
  BY <1>10 DEF KnownHaveApproved
<1> QED BY <1>9, <1>11 DEF BaseInv

-----------------------------------------------------------------------------
LEMMA UnchangedStaysBacked ==
  ASSUME IInv, msgs' \subseteq Message,
         \A k, i : Approvers(k, i) \subseteq Approvers(k, i)',
         NEW k \in Node, guessed[k] \subseteq guessed'[k],
         m_proposals'[k] = m_proposals[k], m_acceptors'[k] = m_acceptors[k],
         NEW i \in DOMAIN m_proposals'[k]
  PROVE  CountIsBacked(k, i)'
<1>1. /\ msgs \subseteq Message /\ m_acceptors[k] \in [Node -> ProposalIDs]
      /\ i \in DOMAIN m_proposals[k] /\ i \in ProposalIDs
      /\ m_proposals[k][i].acceptCount \in Int
  BY Facts DEF IInv, TypeOK, IsTable, Proposal
<1>2. \A b \in Node : Geq(m_acceptors'[k][b], m_acceptors[k][b])
  BY <1>1, GeqReflexive
<1>3. /\ Cardinality(Backers(k, i)) <= Cardinality(Backers(k, i)')
      /\ Cardinality(Backers(k, i)) \in Nat /\ Cardinality(Backers(k, i)') \in Nat
  BY <1>1, <1>2, BackersStay
<1>4. CountIsBacked(k, i)
  BY <1>1 DEF IInv, CountsAreBacked
<1>5. CASE i \in guessed[k]
  BY <1>5 DEF CountIsBacked
<1>6. CASE m_proposals[k][i].acceptCount <= Cardinality(Backers(k, i))
  <2>1. m_proposals'[k][i].acceptCount <= Cardinality(Backers(k, i)')
    BY <1>1, <1>3, <1>6
  <2> QED BY <2>1 DEF CountIsBacked
<1> QED BY <1>4, <1>5, <1>6 DEF CountIsBacked

\* What GuessedOrHasQuorum says of one learner.
WasGuessedOrHasQuorum(k) ==
  isComplete(k) =>
    /\ \/ m_finalProposalID[k] \in guessed[k]
       \/ Cardinality(Approvers(k, m_finalProposalID[k])) >= QuorumSize
    /\ \E m \in msgs : /\ m.to = k /\ m.id = m_finalProposalID[k]
                       /\ m.value = m_finalValue[k]

LEMMA LearnedStays ==
  ASSUME IInv, msgs \subseteq msgs', msgs' \subseteq Message,
         \A k, i : Approvers(k, i) \subseteq Approvers(k, i)',
         NEW k \in Learners, guessed[k] \subseteq guessed'[k],
         m_finalValue'[k] = m_finalValue[k],
         m_finalProposalID'[k] = m_finalProposalID[k]
  PROVE  WasGuessedOrHasQuorum(k)'
<1> SUFFICES ASSUME isComplete(k)'
             PROVE  /\ \/ m_finalProposalID'[k] \in guessed'[k]
                       \/ Cardinality(Approvers(k, m_finalProposalID[k])') >= QuorumSize
                    /\ \E m \in msgs' : /\ m.to = k /\ m.id = m_finalProposalID'[k]
                                        /\ m.value = m_finalValue'[k]
  BY DEF WasGuessedOrHasQuorum
<1>1. PICK i : i = m_finalProposalID[k] /\ i = m_finalProposalID'[k]
  OBVIOUS
<1>2. /\ i \in guessed[k] \/ Cardinality(Approvers(k, i)) >= QuorumSize
      /\ \E m \in msgs : /\ m.to = k /\ m.id = i /\ m.value = m_finalValue[k]
  BY <1>1 DEF IInv, GuessedOrHasQuorum, isComplete
<1>3. i \in guessed'[k] \/ Cardinality(Approvers(k, i)') >= QuorumSize
  BY <1>2, ApproversCounted, Facts DEF IInv, TypeOK
<1>4. Approvers(k, m_finalProposalID[k])' = Approvers(k, i)'
  BY <1>1 DEF Approvers
<1> QED BY <1>1, <1>2, <1>3, <1>4

LEMMA DiscardKeepsIInv ==
  ASSUME IInv, NEW l \in Node, NEW a \in Node, NEW id \in ValidIDs,
         NEW value \in Value, Send({Permit(a, l, id, value)}), NotesGuess(l, a, id),
         Discard(l, a, id)
  PROVE  IInv'
<1>1. /\ msgs \subseteq Message
      /\ m_acceptors \in [Node -> [Node -> ProposalIDs]]
      /\ UNCHANGED learnerVars
  BY DEF IInv, TypeOK, Discard
<1>2. /\ msgs \subseteq msgs' /\ msgs' \subseteq Message
      /\ \A k, i : Approvers(k, i) \subseteq Approvers(k, i)'
      /\ \A k \in Node : guessed[k] \subseteq guessed'[k]
  BY <1>1, Arrival, GuessesStay DEF IInv, TypeOK
<1>3. BaseInv'
  BY DiscardKeepsBase DEF IInv, BaseInv
<1>4. CountsAreBacked'
  BY <1>1, <1>2, UnchangedStaysBacked DEF CountsAreBacked, learnerVars
<1>5. \A k \in Learners : WasGuessedOrHasQuorum(k)'
  BY <1>1, <1>2, LearnedStays, Facts DEF learnerVars
<1> QED BY <1>3, <1>4, <1>5 DEF IInv, BaseInv, GuessedOrHasQuorum, WasGuessedOrHasQuorum

-----------------------------------------------------------------------------
(***************************************************************************)
(* An approval that is counted is the first of its acceptor to back the    *)
(* identifier, and the count found in the table is backed by others unless *)
(* it is a guess.                                                          *)
(***************************************************************************)
LEMMA NewBacker ==
  ASSUME IInv, NEW l \in Node, NEW a \in Node,
         NEW id \in ValidIDs, ~Discards(l, a, id), NotesGuess(l, a, id),
         NEW table \in BeforeCounting(l, a, id)
  PROVE  /\ ~isComplete(l)
         /\ Geq(id, m_acceptors[l][a]) /\ ~Geq(m_acceptors[l][a], id)
         /\ a \notin Backers(l, id)
         /\ IsFiniteSet(Backers(l, id)) /\ Cardinality(Backers(l, id)) \in Nat
         /\ id \in DOMAIN table =>
              \/ id \in guessed'[l]
              \/ /\ table[id].acceptCount \in Int
                 /\ table[id].acceptCount <= Cardinality(Backers(l, id))
<1>1. /\ msgs \subseteq Message /\ IsTable(m_proposals[l])
      /\ m_acceptors[l][a] \in ValidIDs \cup {NullID}
      /\ m_acceptors[l][a] \in ProposalIDs /\ id \in ProposalIDs
  BY Facts DEF IInv, TypeOK, KnownHaveApproved
<1>2. ~isComplete(l)
  BY DEF Discards
<1>3. ~Geq(m_acceptors[l][a], id)
  <2>1. CASE Known(l, a)
    BY <2>1 DEF Discards
  <2>2. CASE ~Known(l, a)
    BY <1>1, <2>2, ValidIsNotNull DEF Known
  <2> QED BY <2>1, <2>2
<1>4. Geq(id, m_acceptors[l][a])
  BY <1>1, <1>3, NotGt, GtImpliesGeq
<1>5. a \notin Backers(l, id)
  BY <1>3 DEF Backers
<1>6. IsFiniteSet(Backers(l, id)) /\ Cardinality(Backers(l, id)) \in Nat
  BY <1>1, FiniteApprovers DEF Backers
<1>7. guessed[l] \subseteq guessed'[l] /\ (Guesses(l, a, id) => id \in guessed'[l])
  BY GuessesStay DEF IInv, TypeOK
<1>8. ASSUME id \in DOMAIN table
      PROVE  \/ id \in guessed'[l]
             \/ /\ table[id].acceptCount \in Int
                /\ table[id].acceptCount <= Cardinality(Backers(l, id))
  <2>1. \/ /\ id \in DOMAIN m_proposals[l]
           /\ table[id].acceptCount = m_proposals[l][id].acceptCount
        \/ Known(l, a) /\ id \notin DOMAIN m_proposals[l]
    BY <1>1, <1>8, TableBeforeCounting
  <2>2. CASE Known(l, a) /\ id \notin DOMAIN m_proposals[l]
    BY <1>7, <2>2 DEF Guesses
  <2>3. CASE /\ id \in DOMAIN m_proposals[l]
             /\ table[id].acceptCount = m_proposals[l][id].acceptCount
    <3>1. m_proposals[l][id].acceptCount \in Int
      BY <1>1, <2>3 DEF IsTable, Proposal
    <3>2. CountIsBacked(l, id)
      BY <2>3 DEF IInv, CountsAreBacked
    <3> QED BY <1>7, <2>3, <3>1, <3>2 DEF CountIsBacked
  <2> QED BY <2>1, <2>2, <2>3
<1> QED BY <1>2, <1>3, <1>4, <1>5, <1>6, <1>8

LEMMA CountKeepsIInv ==
  ASSUME IInv, NEW l \in Node, NEW a \in Node,
         NEW id \in ValidIDs, NEW value \in Value,
         Send({Permit(a, l, id, value)}), NotesGuess(l, a, id),
         Count(l, a, id, value)
  PROVE  IInv'
<1>0. BaseInv'
  BY CountKeepsBase DEF IInv, BaseInv
<1>1. /\ msgs \subseteq Message /\ IsTable(m_proposals[l])
      /\ m_proposals = [k \in Node |-> m_proposals[k]]
      /\ \A k \in Node : IsTable(m_proposals[k])
      /\ m_acceptors \in [Node -> [Node -> ProposalIDs]]
      /\ m_finalValue \in [Node -> Value \cup {NoValue}]
      /\ m_finalProposalID \in [Node -> ProposalIDs]
      /\ id \in ProposalIDs
  BY Facts DEF IInv, TypeOK
<1>2. /\ msgs \subseteq msgs' /\ msgs' \subseteq Message
      /\ \A k, i : Approvers(k, i) \subseteq Approvers(k, i)'
      /\ \A k, b : Handed(k, b) \subseteq Handed(k, b)'
      /\ a \in Approvers(l, id)'
      /\ \E m \in Handed(l, a)' : m.id = id /\ m.value = value
      /\ \A k \in Node : guessed[k] \subseteq guessed'[k]
  BY <1>1, Arrival, GuessesStay DEF IInv, TypeOK
<1>3. PICK table \in BeforeCounting(l, a, id) :
        /\ m_proposals' = [m_proposals EXCEPT ![l] =
                             IF Resolves(table, id) THEN EmptyTable
                             ELSE Counted(table, id)]
        /\ m_acceptors' = [m_acceptors EXCEPT ![l] =
                             IF Resolves(table, id) THEN [b \in Node |-> NullID]
                             ELSE [@ EXCEPT ![a] = id]]
        /\ m_finalValue' = IF Resolves(table, id)
                           THEN [m_finalValue EXCEPT ![l] = value] ELSE m_finalValue
        /\ m_finalProposalID' = IF Resolves(table, id)
                                THEN [m_finalProposalID EXCEPT ![l] = id]
                                ELSE m_finalProposalID
  BY DEF Count
<1>4. /\ ~isComplete(l)
      /\ Geq(id, m_acceptors[l][a]) /\ ~Geq(m_acceptors[l][a], id)
      /\ a \notin Backers(l, id)
      /\ IsFiniteSet(Backers(l, id)) /\ Cardinality(Backers(l, id)) \in Nat
      /\ id \in DOMAIN table =>
           \/ id \in guessed'[l]
           \/ /\ table[id].acceptCount \in Int
              /\ table[id].acceptCount <= Cardinality(Backers(l, id))
  BY NewBacker DEF Count
<1>5. /\ Cardinality(Backers(l, id) \cup {a}) = Cardinality(Backers(l, id)) + 1
      /\ IsFiniteSet(Backers(l, id) \cup {a})
  BY <1>4, FS_AddElement
<1>6. CASE Resolves(table, id)
  <2>1. /\ m_proposals'[l] = EmptyTable /\ m_acceptors'[l] = [b \in Node |-> NullID]
        /\ m_finalValue'[l] = value /\ m_finalProposalID'[l] = id
        /\ \A k \in Node \ {l} : /\ m_proposals'[k] = m_proposals[k]
                                 /\ m_acceptors'[k] = m_acceptors[k]
                                 /\ m_finalValue'[k] = m_finalValue[k]
                                 /\ m_finalProposalID'[k] = m_finalProposalID[k]
    BY <1>1, <1>3, <1>6
  <2>2. id \in guessed'[l] \/ Cardinality(Backers(l, id) \cup {a}) >= QuorumSize
    BY <1>4, <1>5, <1>6, Facts DEF Resolves
  <2>3. id \in guessed'[l] \/ Cardinality(Approvers(l, id)') >= QuorumSize
    <3>1. Backers(l, id) \cup {a} \subseteq Approvers(l, id)'
      BY <1>2 DEF Backers
    <3>2. IsFiniteSet(Approvers(l, id)')
      BY <1>2, FiniteAssumption, FS_Subset DEF FiniteAssumption, Approvers, Message
    <3>3. /\ Cardinality(Backers(l, id) \cup {a}) <= Cardinality(Approvers(l, id)')
          /\ Cardinality(Approvers(l, id)') \in Nat
      BY <3>1, <3>2, FS_Subset, FS_CardinalityType
    <3> QED BY <1>4, <1>5, <2>2, <3>3, Facts
  <2>4. DOMAIN EmptyTable = {}
    BY DEF EmptyTable
  <2>5. CountsAreBacked'
    <3> SUFFICES ASSUME NEW k \in Node, NEW i \in DOMAIN m_proposals'[k]
                 PROVE  CountIsBacked(k, i)'
      BY DEF CountsAreBacked
    <3>1. k # l
      BY <2>1, <2>4
    <3> QED BY <1>2, <2>1, <3>1, UnchangedStaysBacked
  <2>6. ASSUME NEW k \in Learners PROVE WasGuessedOrHasQuorum(k)'
    <3>1. CASE k = l
      <4>1. Approvers(k, m_finalProposalID[k])' = Approvers(l, id)'
        BY <2>1, <3>1 DEF Approvers
      <4> QED BY <1>2, <2>1, <2>3, <3>1, <4>1 DEF Handed, WasGuessedOrHasQuorum
    <3>2. CASE k # l
      BY <1>2, <2>1, <3>2, LearnedStays, Facts
    <3> QED BY <3>1, <3>2
  <2>7. GuessedOrHasQuorum'
    BY <2>6 DEF GuessedOrHasQuorum, WasGuessedOrHasQuorum
  <2> QED BY <1>0, <2>5, <2>7 DEF IInv, BaseInv
<1>7. CASE ~Resolves(table, id)
  <2>1. /\ m_proposals'[l] = Counted(table, id)
        /\ m_acceptors'[l] = [m_acceptors[l] EXCEPT ![a] = id]
        /\ \A k \in Node \ {l} : /\ m_proposals'[k] = m_proposals[k]
                                 /\ m_acceptors'[k] = m_acceptors[k]
        /\ m_finalValue' = m_finalValue /\ m_finalProposalID' = m_finalProposalID
    BY <1>1, <1>3, <1>7
  <2>2. /\ IsTable(table)
        /\ \A i \in DOMAIN table : i # id => /\ i \in DOMAIN m_proposals[l]
                                             /\ table[i] = m_proposals[l][i]
    BY <1>1, <1>3, TableBeforeCounting
  <2>3. /\ IsTable(Counted(table, id))
        /\ DOMAIN Counted(table, id) = DOMAIN table \cup {id}
        /\ \A i \in DOMAIN table : i # id => Counted(table, id)[i] = table[i]
        /\ Counted(table, id)[id].acceptCount =
             IF id \in DOMAIN table THEN table[id].acceptCount + 1 ELSE 0
    BY <2>2, CountedTable
  <2>4. m_acceptors' \in [Node -> [Node -> ProposalIDs]]
    BY <1>1, <1>3, <1>7
  <2>5. \A b \in Node : Geq(m_acceptors'[l][b], m_acceptors[l][b])
    BY <1>1, <1>4, <2>1, GeqReflexive
  <2>6. ASSUME NEW i \in DOMAIN m_proposals'[l]
        PROVE  CountIsBacked(l, i)'
    <3>1. i \in ProposalIDs
      BY <2>1, <2>3, <2>6, Facts DEF IsTable
    <3>2. /\ Backers(l, i) \subseteq Backers(l, i)'
          /\ Cardinality(Backers(l, i)) <= Cardinality(Backers(l, i)')
          /\ Cardinality(Backers(l, i)) \in Nat /\ Cardinality(Backers(l, i)') \in Nat
      BY <1>1, <1>2, <2>4, <2>5, <3>1, BackersStay
    <3>3. CASE i = id
      <4>1. a \in Backers(l, id)'
        BY <1>1, <1>2, <2>1, GeqReflexive DEF Backers
      <4>2. IsFiniteSet(Backers(l, id)')
        <5>1. Backers(l, id)' \subseteq Node
          BY <1>2 DEF Backers, Approvers, Message
        <5> QED BY <5>1, FiniteAssumption, FS_Subset DEF FiniteAssumption
      <4>3. /\ Cardinality(Backers(l, id) \cup {a}) <= Cardinality(Backers(l, id)')
            /\ Backers(l, id) \cup {a} \subseteq Backers(l, id)'
        BY <3>2, <3>3, <4>1, <4>2, FS_Subset
      <4>4. Cardinality(Backers(l, id)') \in Nat
        BY <3>2, <3>3
      <4>5. Cardinality(Backers(l, id)) + 1 <= Cardinality(Backers(l, id)')
        BY <1>5, <4>3
      <4>6. \/ id \in guessed'[l]
            \/ m_proposals'[l][id].acceptCount <= Cardinality(Backers(l, id)')
        BY <1>4, <2>1, <2>3, <4>4, <4>5
      <4> QED BY <3>3, <4>6 DEF CountIsBacked
    <3>4. CASE i # id
      <4>1. /\ i \in DOMAIN m_proposals[l]
            /\ m_proposals'[l][i] = m_proposals[l][i]
        BY <2>1, <2>2, <2>3, <2>6, <3>4
      <4>2. CountIsBacked(l, i) /\ m_proposals[l][i].acceptCount \in Int
        BY <1>1, <4>1 DEF IInv, CountsAreBacked, IsTable, Proposal
      <4>3. \/ i \in guessed'[l]
            \/ m_proposals'[l][i].acceptCount <= Cardinality(Backers(l, i)')
        BY <1>2, <3>2, <4>1, <4>2 DEF CountIsBacked
      <4> QED BY <4>3 DEF CountIsBacked
    <3> QED BY <3>3, <3>4
  <2>7. CountsAreBacked'
    <3> SUFFICES ASSUME NEW k \in Node, NEW i \in DOMAIN m_proposals'[k]
                 PROVE  CountIsBacked(k, i)'
      BY DEF CountsAreBacked
    <3>1. CASE k = l
      BY <2>6, <3>1
    <3>2. CASE k # l
      BY <1>2, <2>1, <3>2, UnchangedStaysBacked
    <3> QED BY <3>1, <3>2
  <2>8. \A k \in Learners : WasGuessedOrHasQuorum(k)'
    BY <1>2, <2>1, LearnedStays, Facts
  <2>9. GuessedOrHasQuorum'
    BY <2>8 DEF GuessedOrHasQuorum, WasGuessedOrHasQuorum
  <2> QED BY <1>0, <2>7, <2>9 DEF IInv, BaseInv
<1> QED BY <1>6, <1>7

-----------------------------------------------------------------------------
LEMMA InitIInv == Init => IInv
<1> SUFFICES ASSUME Init PROVE IInv
  OBVIOUS
<1>1. /\ msgs = {}
      /\ m_proposals = [l \in Node |-> EmptyTable]
      /\ m_acceptors = [l \in Node |-> [a \in Node |-> NullID]]
      /\ m_finalValue = [l \in Node |-> NoValue]
      /\ m_finalProposalID = [l \in Node |-> NullID]
      /\ guessed = [l \in Node |-> {}]
  BY DEF Init, LearnerInit
<1>2. IsTable(EmptyTable) /\ DOMAIN EmptyTable = {}
  BY DEF IsTable, EmptyTable
<1>3. \A l, a \in Node : ~Known(l, a)
  BY <1>1, ValidIsNotNull DEF Known
<1>4. TypeOK
  BY <1>1, <1>2, <1>3, Facts DEF TypeOK, isComplete, IsTable
<1>5. CountsAreBacked
  BY <1>1, <1>2 DEF CountsAreBacked
<1>6. KnownHaveApproved
  BY <1>1, <1>3 DEF KnownHaveApproved
<1>7. GuessedOrHasQuorum
  BY <1>1, Facts DEF GuessedOrHasQuorum, isComplete
<1> QED BY <1>4, <1>5, <1>6, <1>7 DEF IInv

LEMMA NextBase == BaseInv /\ [Next]_vars => BaseInv'
<1> SUFFICES ASSUME BaseInv, [Next]_vars PROVE BaseInv'
  OBVIOUS
<1>1. CASE UNCHANGED vars
  BY <1>1 DEF vars, learnerVars, BaseInv, TypeOK, KnownHaveApproved, isComplete,
     Known, Handed
<1>2. ASSUME NEW l \in Learners, NEW a \in Node, NEW id \in Approved,
             NEW value \in Value, PermitArrives(l, a, id, value)
      PROVE  BaseInv'
  <2>1. /\ l \in Node /\ id \in ValidIDs
        /\ Send({Permit(a, l, id, value)})
        /\ NotesGuess(l, a, id)
        /\ Discard(l, a, id) \/ Count(l, a, id, value)
    BY <1>2, Facts DEF PermitArrives, receiveAccepted
  <2> QED BY <2>1, DiscardKeepsBase, CountKeepsBase
<1> QED BY <1>1, <1>2 DEF Next

LEMMA NextIInv == IInv /\ [Next]_vars => IInv'
<1> SUFFICES ASSUME IInv, [Next]_vars PROVE IInv'
  OBVIOUS
<1>1. CASE UNCHANGED vars
  <2>1. /\ UNCHANGED <<m_proposals, m_acceptors>>
        /\ UNCHANGED <<m_finalValue, m_finalProposalID, msgs, guessed>>
    BY <1>1 DEF vars, learnerVars
  <2>2. BaseInv'
    BY <1>1, NextBase DEF IInv, BaseInv
  <2>3. CountsAreBacked'
    BY <2>1 DEF IInv, CountsAreBacked, CountIsBacked, Backers, Approvers
  <2>4. GuessedOrHasQuorum'
    BY <2>1 DEF IInv, GuessedOrHasQuorum, isComplete, Approvers
  <2> QED BY <2>2, <2>3, <2>4 DEF IInv, BaseInv
<1>2. ASSUME NEW l \in Learners, NEW a \in Node, NEW id \in Approved,
             NEW value \in Value, PermitArrives(l, a, id, value)
      PROVE  IInv'
  <2>1. /\ l \in Node /\ id \in ValidIDs
        /\ Send({Permit(a, l, id, value)})
        /\ NotesGuess(l, a, id)
        /\ Discard(l, a, id) \/ Count(l, a, id, value)
    BY <1>2, Facts DEF PermitArrives, receiveAccepted
  <2> QED BY <2>1, DiscardKeepsIInv, CountKeepsIInv
<1> QED BY <1>1, <1>2 DEF Next

(***************************************************************************)
(* What a learner holds is of its type, and a learner that is complete has *)
(* let go of all it counted and does not begin to count again, whatever an *)
(* uninitialised count reads as.                                           *)
(***************************************************************************)
THEOREM LearnerTypeCorrect == Spec => []TypeOK
<1>1. Init => BaseInv
  BY InitIInv DEF IInv, BaseInv
<1>2. BaseInv => TypeOK
  BY DEF BaseInv
<1> QED BY <1>1, <1>2, NextBase, PTL DEF Spec

(***************************************************************************)
(* A learner learns the value approved under its final identifier, and     *)
(* QuorumSize acceptors have approved it unless the counts of that very    *)
(* identifier began uninitialised: whatever arrives twice, late or out of  *)
(* order, however often acceptors change their vote, and whatever an       *)
(* uninitialised count reads as.                                           *)
(***************************************************************************)
THEOREM LearnsOnlyWithQuorum == Spec => []GuessedOrHasQuorum
<1>1. IInv => GuessedOrHasQuorum
  BY DEF IInv
<1> QED BY <1>1, NextIInv, InitIInv, PTL DEF Spec

-----------------------------------------------------------------------------
(***************************************************************************)
(* The inductive invariant for when it learns.  As long as no acceptor has *)
(* approved a second identifier, a learner counts exactly: its count of an *)
(* identifier is one behind the number of approvers, of which there is a   *)
(* quorum at most before the learner is complete and more than one after.  *)
(***************************************************************************)
CountsExactly(l) ==
  /\ \A m \in msgs : m.to = l => m_acceptors[l][m.from] = m.id
  /\ \A id \in ValidIDs : id \in DOMAIN m_proposals[l] <=> Approvers(l, id) # {}
  /\ \A id \in DOMAIN m_proposals[l] :
       m_proposals[l][id].acceptCount + 1 = Cardinality(Approvers(l, id))
  /\ \A id \in ValidIDs : Cardinality(Approvers(l, id)) <= QuorumSize

ApprovedBeyondQuorum(l) ==
  \E id \in Approved : Cardinality(Approvers(l, id)) > QuorumSize

SteadyInv ==
  \A l \in Node :
    Steady(l) => IF isComplete(l) THEN ApprovedBeyondQuorum(l) ELSE CountsExactly(l)

\* What l is and has been handed is unchanged.
LEMMA OthersCountExactly ==
  ASSUME SteadyInv, NEW l \in Node, msgs \subseteq msgs',
         \A m \in msgs' \ msgs : m.to # l,
         m_proposals'[l] = m_proposals[l], m_acceptors'[l] = m_acceptors[l],
         m_finalValue'[l] = m_finalValue[l], Steady(l)', ~isComplete(l)'
  PROVE  CountsExactly(l)'
<1>1. CountsExactly(l)
  BY DEF SteadyInv, Steady, isComplete
<1>2. \A id : Approvers(l, id)' = Approvers(l, id)
  BY DEF Approvers
<1> QED BY <1>1, <1>2 DEF CountsExactly

\* A permit that is dropped, of an acceptor that has approved nothing else, is
\* one that the learner has had before.
LEMMA DroppedStaysExact ==
  ASSUME BaseInv, SteadyInv, NEW l \in Node, NEW a \in Node, NEW id \in ValidIDs,
         NEW value \in Value, Send({Permit(a, l, id, value)}), Discard(l, a, id),
         Steady(l)', ~isComplete(l)'
  PROVE  CountsExactly(l)'
<1> DEFINE p == Permit(a, l, id, value)
<1>1. UNCHANGED learnerVars /\ ~isComplete(l)
  BY DEF Discard, learnerVars, isComplete
<1>2. msgs' = msgs \cup {p} /\ p.from = a /\ p.to = l /\ p.id = id
  BY DEF Send, Permit
<1> HIDE DEF p
<1>3. CountsExactly(l)
  BY <1>1, <1>2 DEF SteadyInv, Steady
<1>4. Known(l, a)
  BY <1>1, ValidIsNotNull DEF Discard, Discards
<1>5. PICK m \in Handed(l, a) : m.id = m_acceptors[l][a]
  BY <1>4 DEF BaseInv, KnownHaveApproved
<1>6. m \in msgs /\ m.to = l /\ m.from = a /\ m.id = id
  BY <1>2, <1>5 DEF Handed, Steady
<1>7. \A i : Approvers(l, i)' = Approvers(l, i)
  BY <1>2, <1>6 DEF Approvers
<1>8. \A q \in msgs' : q.to = l => m_acceptors'[l][q.from] = q.id
  BY <1>1, <1>2, <1>3, <1>5, <1>6 DEF CountsExactly, learnerVars
<1> QED BY <1>1, <1>3, <1>7, <1>8 DEF CountsExactly, learnerVars

\* One that is counted is the first of its acceptor.
LEMMA CountedIsFirst ==
  ASSUME BaseInv, SteadyInv, NEW l \in Node, NEW a \in Node, NEW id \in ValidIDs,
         NEW value \in Value, Send({Permit(a, l, id, value)}), Count(l, a, id, value), Steady(l)'
  PROVE  /\ ~isComplete(l) /\ CountsExactly(l)
         /\ \A m \in msgs : m.to = l => m.from # a
         /\ m_proposals' = [m_proposals EXCEPT ![l] =
                              IF Resolves(m_proposals[l], id) THEN EmptyTable
                              ELSE Counted(m_proposals[l], id)]
         /\ m_acceptors' = [m_acceptors EXCEPT ![l] =
                              IF Resolves(m_proposals[l], id) THEN [b \in Node |-> NullID]
                              ELSE [@ EXCEPT ![a] = id]]
         /\ m_finalValue' = IF Resolves(m_proposals[l], id)
                            THEN [m_finalValue EXCEPT ![l] = value] ELSE m_finalValue
         /\ Approvers(l, id)' = Approvers(l, id) \cup {a}
         /\ \A i : i # id => Approvers(l, i)' = Approvers(l, i)
         /\ Cardinality(Approvers(l, id)) \in Nat
         /\ Cardinality(Approvers(l, id)') = Cardinality(Approvers(l, id)) + 1
<1> DEFINE p == Permit(a, l, id, value)
           table == m_proposals[l]
<1>1. /\ msgs \subseteq Message /\ IsTable(table) /\ id \in ProposalIDs
      /\ m_acceptors \in [Node -> [Node -> ProposalIDs]]
      /\ m_finalValue \in [Node -> Value \cup {NoValue}]
      /\ m_proposals = [k \in Node |-> m_proposals[k]]
  BY Facts DEF BaseInv, TypeOK
<1>2. /\ msgs' = msgs \cup {p} /\ p.from = a /\ p.to = l /\ p.id = id
      /\ msgs' \subseteq Message
  BY <1>1, Arrival DEF Send, Permit
<1>3. ~isComplete(l) /\ ~(Known(l, a) /\ Geq(m_acceptors[l][a], id))
  BY DEF Count, Discards
<1> HIDE DEF p
<1>4. CountsExactly(l)
  BY <1>2, <1>3 DEF SteadyInv, Steady
<1>5. ~Known(l, a)
  <2> SUFFICES ASSUME Known(l, a) PROVE FALSE
    OBVIOUS
  <2>1. PICK m \in Handed(l, a) : m.id = m_acceptors[l][a]
    BY DEF BaseInv, KnownHaveApproved
  <2>2. m.id = id
    BY <1>2, <2>1 DEF Handed, Steady
  <2> QED BY <1>1, <1>3, <2>1, <2>2, GeqReflexive
<1>6. \A m \in msgs : m.to = l => m.from # a
  <2> SUFFICES ASSUME NEW m \in msgs, m.to = l, m.from = a PROVE FALSE
    OBVIOUS
  <2>1. m.id \in ValidIDs
    BY <1>1 DEF Message
  <2> QED BY <1>4, <1>5, <2>1, ValidIsNotNull DEF CountsExactly, Known
<1>7. /\ m_proposals' = [m_proposals EXCEPT ![l] =
                           IF Resolves(table, id) THEN EmptyTable ELSE Counted(table, id)]
      /\ m_acceptors' = [m_acceptors EXCEPT ![l] =
                           IF Resolves(table, id) THEN [b \in Node |-> NullID]
                           ELSE [@ EXCEPT ![a] = id]]
      /\ m_finalValue' = IF Resolves(table, id)
                         THEN [m_finalValue EXCEPT ![l] = value] ELSE m_finalValue
  BY <1>5 DEF Count, BeforeCounting
<1>8. /\ Approvers(l, id)' = Approvers(l, id) \cup {a} /\ a \notin Approvers(l, id)
       /\ \A i : i # id => Approvers(l, i)' = Approvers(l, i)
  BY <1>2, <1>6 DEF Approvers
<1>9. /\ IsFiniteSet(Approvers(l, id)) /\ Cardinality(Approvers(l, id)) \in Nat
       /\ Cardinality(Approvers(l, id)') = Cardinality(Approvers(l, id)) + 1
  <2>1. IsFiniteSet(Approvers(l, id)) /\ Cardinality(Approvers(l, id)) \in Nat
    BY <1>1, FiniteApprovers
  <2> QED BY <1>8, <2>1, FS_AddElement
<1> QED BY <1>3, <1>4, <1>6, <1>7, <1>8, <1>9

LEMMA CountedStaysExact ==
  ASSUME BaseInv, SteadyInv, NEW l \in Node, NEW a \in Node, NEW id \in ValidIDs,
         NEW value \in Value, Send({Permit(a, l, id, value)}), Count(l, a, id, value),
         Steady(l)', ~isComplete(l)'
  PROVE  CountsExactly(l)'
<1> DEFINE p == Permit(a, l, id, value)
           table == m_proposals[l]
<1>1. /\ msgs \subseteq Message /\ IsTable(table)
      /\ m_acceptors \in [Node -> [Node -> ProposalIDs]]
      /\ m_finalValue \in [Node -> Value \cup {NoValue}]
      /\ m_proposals = [k \in Node |-> m_proposals[k]]
  BY Facts DEF BaseInv, TypeOK
<1>2. msgs' = msgs \cup {p} /\ p.from = a /\ p.to = l /\ p.id = id
  BY DEF Send, Permit
<1> HIDE DEF p
<1>4. CountsExactly(l) /\ \A m \in msgs : m.to = l => m.from # a
  BY CountedIsFirst
<1>7. /\ m_proposals' = [m_proposals EXCEPT ![l] =
                           IF Resolves(table, id) THEN EmptyTable ELSE Counted(table, id)]
      /\ m_acceptors' = [m_acceptors EXCEPT ![l] =
                           IF Resolves(table, id) THEN [b \in Node |-> NullID]
                           ELSE [@ EXCEPT ![a] = id]]
      /\ m_finalValue' = IF Resolves(table, id)
                         THEN [m_finalValue EXCEPT ![l] = value] ELSE m_finalValue
  BY CountedIsFirst
<1>8. ~Resolves(table, id)
  BY <1>1, <1>7, ValueAssumption DEF isComplete, ValueAssumption
<1>9. /\ m_proposals'[l] = Counted(table, id)
      /\ m_acceptors'[l] = [m_acceptors[l] EXCEPT ![a] = id]
  BY <1>1, <1>7, <1>8
<1>10. /\ Approvers(l, id)' = Approvers(l, id) \cup {a}
       /\ \A i : i # id => Approvers(l, i)' = Approvers(l, i)
  BY CountedIsFirst
<1>11. /\ Cardinality(Approvers(l, id)) \in Nat
       /\ Cardinality(Approvers(l, id)') = Cardinality(Approvers(l, id)) + 1
  BY CountedIsFirst
<1>12. /\ DOMAIN m_proposals'[l] = DOMAIN table \cup {id}
       /\ \A i \in DOMAIN table : i # id => m_proposals'[l][i] = table[i]
       /\ m_proposals'[l][id].acceptCount =
            IF id \in DOMAIN table THEN table[id].acceptCount + 1 ELSE 0
  <2> HIDE DEF table
  <2>1. /\ DOMAIN Counted(table, id) = DOMAIN table \cup {id}
        /\ \A i \in DOMAIN table : i # id => Counted(table, id)[i] = table[i]
        /\ Counted(table, id)[id].acceptCount =
             IF id \in DOMAIN table THEN table[id].acceptCount + 1 ELSE 0
    BY <1>1, CountedTable
  <2> QED BY <1>9, <2>1
<1>13. \A m \in msgs' : m.to = l => m_acceptors'[l][m.from] = m.id
  BY <1>1, <1>2, <1>4, <1>9 DEF CountsExactly, Message
<1>14. \A i \in ValidIDs : i \in DOMAIN m_proposals'[l] <=> Approvers(l, i)' # {}
  BY <1>4, <1>10, <1>12 DEF CountsExactly
<1>15. /\ m_proposals'[l][id].acceptCount + 1 = Cardinality(Approvers(l, id)')
       /\ Cardinality(Approvers(l, id)') <= QuorumSize
  <2>1. CASE id \in DOMAIN table
    <3>1. /\ table[id].acceptCount + 1 = Cardinality(Approvers(l, id))
          /\ table[id].acceptCount \in Int
      BY <1>1, <1>4, <2>1 DEF CountsExactly, IsTable, Proposal
    <3>2. ~(table[id].acceptCount + 1 >= QuorumSize)
      BY <1>8, <2>1 DEF Resolves
    <3> QED BY <1>11, <1>12, <2>1, <3>1, <3>2, Facts
  <2>2. CASE id \notin DOMAIN table
    <3>1. Cardinality(Approvers(l, id)) = 0
      BY <1>4, <2>2, FS_EmptySet DEF CountsExactly
    <3> QED BY <1>11, <1>12, <2>2, <3>1, QuorumAssumption DEF QuorumAssumption
  <2> QED BY <2>1, <2>2
<1>16. ASSUME NEW i \in ValidIDs, i # id
       PROVE  /\ i \in DOMAIN m_proposals'[l] =>
                   m_proposals'[l][i].acceptCount + 1 = Cardinality(Approvers(l, i)')
              /\ Cardinality(Approvers(l, i)') <= QuorumSize
  BY <1>4, <1>10, <1>12, <1>16 DEF CountsExactly
<1>17. DOMAIN m_proposals'[l] \subseteq ValidIDs
  BY <1>1, <1>12 DEF IsTable
<1> QED BY <1>13, <1>14, <1>15, <1>16, <1>17 DEF CountsExactly

\* The one that completes the learner is one more than the quorum.
LEMMA CompletesBeyondQuorum ==
  ASSUME BaseInv, SteadyInv, NEW l \in Node, NEW a \in Node, NEW id \in ValidIDs,
         id \in Approved, NEW value \in Value, Send({Permit(a, l, id, value)}),
         Count(l, a, id, value), Steady(l)', isComplete(l)'
  PROVE  ApprovedBeyondQuorum(l)'
<1> DEFINE table == m_proposals[l]
<1>1. /\ ~isComplete(l) /\ CountsExactly(l)
      /\ m_finalValue' = IF Resolves(table, id)
                         THEN [m_finalValue EXCEPT ![l] = value] ELSE m_finalValue
      /\ Cardinality(Approvers(l, id)) \in Nat
      /\ Cardinality(Approvers(l, id)') = Cardinality(Approvers(l, id)) + 1
  BY CountedIsFirst
<1>2. Resolves(table, id)
  BY <1>1 DEF isComplete
<1>3. /\ table[id].acceptCount + 1 >= QuorumSize
      /\ table[id].acceptCount + 1 = Cardinality(Approvers(l, id))
  BY <1>1, <1>2 DEF Resolves, CountsExactly
<1>4. Cardinality(Approvers(l, id)') > QuorumSize
  BY <1>1, <1>3, Facts
<1> QED BY <1>4 DEF ApprovedBeyondQuorum

\* Nobody loses an approver.
LEMMA StaysBeyondQuorum ==
  ASSUME msgs \subseteq Message, msgs' \subseteq Message, msgs \subseteq msgs',
         NEW l \in Node, ApprovedBeyondQuorum(l)
  PROVE  ApprovedBeyondQuorum(l)'
<1>1. PICK id \in Approved : Cardinality(Approvers(l, id)) > QuorumSize
  BY DEF ApprovedBeyondQuorum
<1>2. Approvers(l, id) \subseteq Approvers(l, id)'
  BY DEF Approvers
<1>3. Cardinality(Approvers(l, id)') > QuorumSize
  BY <1>1, <1>2, ApproversCounted, Facts
<1> QED BY <1>3 DEF ApprovedBeyondQuorum

LEMMA NextSteady == BaseInv /\ SteadyInv /\ [Next]_vars => SteadyInv'
<1> SUFFICES ASSUME BaseInv, SteadyInv, [Next]_vars, NEW k \in Node, Steady(k)'
             PROVE  IF isComplete(k)' THEN ApprovedBeyondQuorum(k)' ELSE CountsExactly(k)'
  BY DEF SteadyInv
<1>0. /\ msgs \subseteq Message /\ msgs' \subseteq Message
      /\ m_finalValue \in [Node -> Value \cup {NoValue}]
      /\ m_proposals = [l \in Node |-> m_proposals[l]]
      /\ m_acceptors \in [Node -> [Node -> ProposalIDs]]
  BY NextBase DEF BaseInv, TypeOK
<1>1. CASE UNCHANGED vars
  <2>1. CASE isComplete(k)'
    BY <1>0, <1>1, <2>1, StaysBeyondQuorum DEF vars, learnerVars, SteadyInv, Steady,
       isComplete
  <2>2. CASE ~isComplete(k)'
    BY <1>1, <2>2, OthersCountExactly DEF vars, learnerVars
  <2> QED BY <2>1, <2>2
<1>2. ASSUME NEW l \in Learners, NEW a \in Node, NEW id \in Approved,
             NEW value \in Value, PermitArrives(l, a, id, value)
      PROVE  IF isComplete(k)' THEN ApprovedBeyondQuorum(k)' ELSE CountsExactly(k)'
  <2>1. /\ l \in Node /\ id \in ValidIDs
        /\ Send({Permit(a, l, id, value)})
        /\ Discard(l, a, id) \/ Count(l, a, id, value)
    BY <1>2, Facts DEF PermitArrives, receiveAccepted
  <2>2. msgs \subseteq msgs' /\ (k # l => \A m \in msgs' \ msgs : m.to # k)
    BY <2>1 DEF Send, Permit
  <2>3. CASE isComplete(k)
    <3>1. Steady(k)
      BY <2>2 DEF Steady
    <3>2. ApprovedBeyondQuorum(k)'
      BY <1>0, <2>2, <2>3, <3>1, StaysBeyondQuorum DEF SteadyInv
    <3>3. isComplete(k)'
      <4>1. k = l => Discard(l, a, id)
        BY <2>1, <2>3 DEF Count, Discards
      <4>2. m_finalValue'[k] = m_finalValue[k]
        BY <1>0, <2>1, <4>1 DEF Discard, Count, learnerVars
      <4> QED BY <2>3, <4>2 DEF isComplete
    <3> QED BY <3>2, <3>3
  <2>4. CASE ~isComplete(k) /\ k = l
    <3>1. CASE isComplete(k)'
      <4>1. Count(l, a, id, value)
        BY <2>1, <2>4, <3>1 DEF Discard, learnerVars, isComplete
      <4> QED BY <2>1, <2>4, <3>1, <4>1, CompletesBeyondQuorum
    <3>2. CASE ~isComplete(k)'
      BY <2>1, <2>4, <3>2, DroppedStaysExact, CountedStaysExact
    <3> QED BY <3>1, <3>2
  <2>5. CASE ~isComplete(k) /\ k # l
    <3>1. /\ m_proposals'[k] = m_proposals[k] /\ m_acceptors'[k] = m_acceptors[k]
          /\ m_finalValue'[k] = m_finalValue[k]
      BY <1>0, <2>1, <2>5 DEF Discard, Count, learnerVars
    <3>2. ~isComplete(k)'
      BY <2>5, <3>1 DEF isComplete
    <3> QED BY <2>2, <2>5, <3>1, <3>2, OthersCountExactly
  <2> QED BY <2>3, <2>4, <2>5
<1> QED BY <1>1, <1>2 DEF Next

LEMMA InitSteady == Init => SteadyInv
<1> SUFFICES ASSUME Init, NEW l \in Node PROVE CountsExactly(l) /\ ~isComplete(l)
  BY DEF SteadyInv
<1>1. msgs = {} /\ DOMAIN m_proposals[l] = {} /\ ~isComplete(l)
  BY DEF Init, LearnerInit, EmptyTable, isComplete
<1>2. \A id : Approvers(l, id) = {}
  BY <1>1 DEF Approvers
<1> QED BY <1>1, <1>2, FS_EmptySet, Facts DEF CountsExactly

(***************************************************************************)
(* Among acceptors that stand by their votes, a learner is complete        *)
(* exactly when one more than the quorum has approved an identifier: one   *)
(* approval later than the code says, whatever arrives twice, and in what  *)
(* order.                                                                  *)
(***************************************************************************)
THEOREM LearnsExactlyOneLate == Spec => []LearnsOneLate
<1>1. Init => BaseInv /\ SteadyInv
  BY InitIInv, InitSteady DEF IInv, BaseInv
<1>2. BaseInv /\ SteadyInv /\ [Next]_vars => (BaseInv /\ SteadyInv)'
  BY NextBase, NextSteady
<1>3. BaseInv /\ SteadyInv => LearnsOneLate
  <2> SUFFICES ASSUME BaseInv, SteadyInv, NEW l \in Learners, Steady(l)
               PROVE  isComplete(l) <=> ApprovedBeyondQuorum(l)
    BY DEF LearnsOneLate, ApprovedBeyondQuorum
  <2>1. l \in Node /\ QuorumSize \in Nat
    BY Facts
  <2>2. isComplete(l) => ApprovedBeyondQuorum(l)
    BY <2>1 DEF SteadyInv
  <2>3. ASSUME ~isComplete(l), NEW id \in Approved
        PROVE  ~(Cardinality(Approvers(l, id)) > QuorumSize)
    <3>1. Cardinality(Approvers(l, id)) <= QuorumSize
      BY <2>1, <2>3, Facts DEF SteadyInv, CountsExactly
    <3>2. Cardinality(Approvers(l, id)) \in Nat
      BY FiniteApprovers DEF BaseInv, TypeOK
    <3> QED BY <2>1, <3>1, <3>2
  <2> QED BY <2>2, <2>3 DEF ApprovedBeyondQuorum
<1> QED BY <1>1, <1>2, <1>3, PTL DEF Spec
=============================================================================
