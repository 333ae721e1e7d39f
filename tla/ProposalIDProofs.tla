-------------------------- MODULE ProposalIDProofs --------------------------
(***************************************************************************)
(* ProposalID::compare is a total order on identifiers, whatever the       *)
(* nodes: the facts about it that the other proofs use.                    *)
(***************************************************************************)
EXTENDS ProposalID, TLAPS

LEMMA FieldTypes ==
  ASSUME NEW a \in ProposalIDs
  PROVE  a.number \in Nat /\ a.uid \in Nat
<1>1. a.number \in Nat /\ a.uid \in Node \cup {NoUID}
  BY DEF ProposalIDs
<1>2. \A n \in Node : n \in Nat
  BY NodeAssumption DEF NodeAssumption
<1> QED BY <1>1, <1>2 DEF NoUID

LEMMA GeqDef ==
  ASSUME NEW a \in ProposalIDs, NEW b \in ProposalIDs
  PROVE  Geq(a, b) <=> \/ a.number > b.number
                       \/ a.number = b.number /\ a.uid >= b.uid
BY FieldTypes DEF Geq, compare

LEMMA GtDef ==
  ASSUME NEW a \in ProposalIDs, NEW b \in ProposalIDs
  PROVE  Gt(a, b) <=> \/ a.number > b.number
                      \/ a.number = b.number /\ a.uid > b.uid
BY FieldTypes DEF Gt, compare

\* Two identifiers with equal fields are one identifier.
LEMMA SameFields ==
  ASSUME NEW a \in ProposalIDs, NEW b \in ProposalIDs,
         a.number = b.number, a.uid = b.uid
  PROVE  a = b
BY DEF ProposalIDs

LEMMA GeqReflexive ==
  ASSUME NEW a \in ProposalIDs
  PROVE  Geq(a, a)
BY GeqDef, FieldTypes

LEMMA GeqTransitive ==
  ASSUME NEW a \in ProposalIDs, NEW b \in ProposalIDs, NEW c \in ProposalIDs,
         Geq(a, b), Geq(b, c)
  PROVE  Geq(a, c)
<1> USE FieldTypes
<1>1. /\ Geq(a, b) <=> \/ a.number > b.number
                       \/ a.number = b.number /\ a.uid >= b.uid
      /\ Geq(b, c) <=> \/ b.number > c.number
                       \/ b.number = c.number /\ b.uid >= c.uid
      /\ Geq(a, c) <=> \/ a.number > c.number
                       \/ a.number = c.number /\ a.uid >= c.uid
  BY GeqDef
<1> QED BY <1>1

LEMMA GeqAntisymmetric ==
  ASSUME NEW a \in ProposalIDs, NEW b \in ProposalIDs, Geq(a, b), Geq(b, a)
  PROVE  a = b
<1>1. a.number = b.number /\ a.uid = b.uid
  BY GeqDef, FieldTypes
<1> QED BY <1>1, SameFields

\* The order is total, and "greater" is the negation of the opposite "at least".
LEMMA NotGt ==
  ASSUME NEW a \in ProposalIDs, NEW b \in ProposalIDs
  PROVE  ~Gt(a, b) <=> Geq(b, a)
BY GeqDef, GtDef, FieldTypes

LEMMA GtImpliesGeq ==
  ASSUME NEW a \in ProposalIDs, NEW b \in ProposalIDs, Gt(a, b)
  PROVE  Geq(a, b) /\ a # b
BY GeqDef, GtDef, FieldTypes

\* The identifier of a new Proposer, Acceptor or Learner is below all others.
LEMMA NullIsLeast ==
  ASSUME NEW a \in ProposalIDs
  PROVE  Geq(a, NullID)
<1>1. NullID \in ProposalIDs
  BY DEF NullID, ProposalIDs, NoUID
<1> QED BY <1>1, GeqDef, FieldTypes DEF NullID, NoUID

LEMMA ValidIsID == ValidIDs \subseteq ProposalIDs /\ NullID \in ProposalIDs
BY DEF ValidIDs, ProposalIDs, NullID, NoUID

LEMMA GtGeqTransitive ==
  ASSUME NEW a \in ProposalIDs, NEW b \in ProposalIDs, NEW c \in ProposalIDs,
         Gt(a, b), Geq(b, c)
  PROVE  Gt(a, c)
<1> USE FieldTypes
<1>1. /\ Gt(a, b) <=> \/ a.number > b.number
                      \/ a.number = b.number /\ a.uid > b.uid
      /\ Geq(b, c) <=> \/ b.number > c.number
                       \/ b.number = c.number /\ b.uid >= c.uid
      /\ Gt(a, c) <=> \/ a.number > c.number
                      \/ a.number = c.number /\ a.uid > c.uid
  BY GeqDef, GtDef
<1> QED BY <1>1

\* What is not above b is below it, or is b.
LEMMA Trichotomy ==
  ASSUME NEW a \in ProposalIDs, NEW b \in ProposalIDs
  PROVE  Gt(a, b) \/ a = b \/ Gt(b, a)
BY NotGt, GeqAntisymmetric

\* Every node's first identifier is above the empty one.
LEMMA ValidAboveNull ==
  ASSUME NEW a \in ValidIDs
  PROVE  Gt(a, NullID)
<1>1. a \in ProposalIDs /\ NullID \in ProposalIDs /\ a # NullID
  BY ValidIsID, NodeAssumption DEF NodeAssumption, ValidIDs, NullID, NoUID
<1> QED BY <1>1, NullIsLeast, NotGt, GeqAntisymmetric
=============================================================================
