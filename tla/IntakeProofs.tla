---------------------------- MODULE IntakeProofs ----------------------------
(***************************************************************************)
(* Proofs about Intake, for any contacts, staff, answers and number of     *)
(* versions.                                                               *)
(*                                                                         *)
(* A save finds the row to write by its number, not by what the contact    *)
(* had on the screen.  What keeps it from a submitted row is that no two   *)
(* rows share a number and that the draft has the last one: IInv.          *)
(***************************************************************************)
EXTENDS Intake, FiniteSetTheorems, TLAPS

\* No two rows have a number in common.
VersionsDistinct == \A i, j \in rows : i.version = j.version => i = j

IInv == /\ TypeOK
        /\ IsFiniteSet(rows)
        /\ VersionsDistinct
        /\ DraftNewest

-----------------------------------------------------------------------------
(* The row a save writes *)

LEMMA MaxIs ==
  ASSUME NEW n \in Nat \ {0}
  PROVE  Max(1..n) = n
<1>1. n \in 1..n /\ \A y \in 1..n : n >= y
  OBVIOUS
<1>2. \A x \in 1..n : (\A y \in 1..n : x >= y) => x = n
  BY <1>1
<1>3. QED
  BY <1>1, <1>2 DEF Max

LEMMA RowsCounted ==
  ASSUME IInv
  PROVE  /\ Cardinality(rows) \in Nat
         /\ \A i \in rows : i.version \in 1..Cardinality(rows)
         /\ MaxVersion = Cardinality(rows)
<1>1. Cardinality(rows) \in Nat /\ Versions = 1..Cardinality(rows)
  BY FS_CardinalityType DEF IInv, DraftNewest
<1>2. \A i \in rows : i.version \in 1..Cardinality(rows)
  BY <1>1 DEF Versions
<1>3. CASE rows = {}
  BY <1>1, <1>2, <1>3, FS_EmptySet DEF MaxVersion
<1>4. CASE rows # {}
  <2>1. Cardinality(rows) \in Nat \ {0}
    BY <1>1, <1>4, FS_EmptySet DEF IInv
  <2>2. QED
    BY <1>1, <1>2, <1>4, <2>1, MaxIs DEF MaxVersion
<1>5. QED
  BY <1>1, <1>2, <1>3, <1>4

\* With a draft, its own number is written; without one, the next.
LEMMA WrittenIs ==
  ASSUME IInv
  PROVE  /\ \A i \in Draft : Draft = {i} /\ i.version = Cardinality(rows) /\ Written = i.version
         /\ Draft = {} => Written = Cardinality(rows) + 1
         /\ Written \in Nat /\ Written >= 1
<1>1. ASSUME NEW i \in Draft
      PROVE  /\ Draft = {i} /\ i.version = Cardinality(rows) /\ Written = i.version
             /\ Written \in Nat /\ Written >= 1
  <2>1. i \in rows /\ i.version = Cardinality(rows)
    BY DEF Draft, IInv, DraftNewest
  <2>2. \A j \in Draft : j = i
    BY <2>1 DEF Draft, IInv, DraftNewest, VersionsDistinct
  <2>3. Draft = {i}
    BY <2>2
  <2>4. {j.version : j \in Draft} = {i.version}
    BY <2>3
  <2>5. i.version \in Nat /\ i.version >= 1
    BY <2>1, RowsCounted
  <2>6. Max({i.version}) = i.version
    BY <2>5 DEF Max
  <2>7. QED
    BY <2>1, <2>3, <2>4, <2>5, <2>6 DEF Written
<1>2. CASE Draft = {}
  BY <1>2, RowsCounted DEF Written
<1>3. QED
  BY <1>1, <1>2

LEMMA UpsertIInv ==
  ASSUME IInv, NEW status \in {"draft", "submitted"}, NEW a \in Answers, Upsert(status, a)
  PROVE  /\ Written \in 1..MaxVersions
         /\ rows' \subseteq Rows
         /\ IsFiniteSet(rows)' /\ VersionsDistinct' /\ DraftNewest'
         /\ \A i \in rows : i.status = "submitted" => i \in rows'
<1> DEFINE n == Cardinality(rows)
           new == [version |-> Written, status |-> status, answers |-> a]
           kept == {i \in rows : i.version # Written}
<1>1. rows' = kept \cup {new} /\ Written <= MaxVersions
  BY DEF Upsert
<1>2. Written \in 1..MaxVersions
  BY <1>1, WrittenIs, MaxVersionsAssumption
<1>3. rows \subseteq Rows /\ new \in Rows /\ new.version = Written /\ new.status = status
  BY <1>2 DEF Rows, IInv, TypeOK
<1>4. IsFiniteSet(kept) /\ IsFiniteSet(rows')
  <2>1. IsFiniteSet(rows) /\ kept \subseteq rows
    BY DEF IInv
  <2>2. IsFiniteSet(kept)
    BY <2>1, FS_Subset
  <2>3. QED
    BY <1>1, <2>2, FS_AddElement
<1>5. n \in Nat /\ \A i \in rows : i.version \in 1..n
  BY RowsCounted
<1>6. Versions = 1..n
  BY DEF IInv, DraftNewest
<1>7. new \notin kept
  BY <1>3
<1>8. Cardinality(rows') = Cardinality(kept) + 1
  BY <1>1, <1>4, <1>7, FS_AddElement
<1>9. VersionsDistinct'
  BY <1>1, <1>3 DEF IInv, VersionsDistinct
<1>10. CASE Draft # {}
  <2>1. PICK i \in Draft : Draft = {i} /\ i.version = n /\ Written = n
    BY <1>10, WrittenIs
  <2>2. i \in rows /\ i.status = "draft"
    BY DEF Draft
  <2>3. kept = rows \ {i}
    BY <2>1, <2>2 DEF IInv, VersionsDistinct
  <2>4. Cardinality(kept) = n - 1
    BY <2>2, <2>3, FS_RemoveElement DEF IInv
  <2>5. Cardinality(rows') = n
    BY <1>5, <1>8, <2>4
  <2>6. \A j \in rows : j.status = "submitted" => j \in rows'
    BY <1>1, <2>2, <2>3
  <2>7. \A j \in rows' : j.status = "draft" => j.version = n
    BY <1>1, <1>3, <2>1, <2>3 DEF Draft
  <2>8. {j.version : j \in rows'} = 1..n
    <3>1. \A j \in rows' : j.version \in 1..n
      BY <1>1, <1>3, <1>5, <2>1, <2>2
    <3>2. \A m \in 1..n : \E j \in rows' : j.version = m
      <4>1. ASSUME NEW m \in 1..n PROVE \E j \in rows' : j.version = m
        <5>1. PICK j \in rows : j.version = m
          BY <1>6 DEF Versions
        <5>2. QED
          BY <1>1, <1>3, <2>1, <2>3, <5>1
      <4>2. QED
        BY <4>1
    <3>3. QED
      BY <3>1, <3>2
  <2>9. QED
    BY <1>1, <1>2, <1>3, <1>4, <1>9, <2>5, <2>6, <2>7, <2>8 DEF DraftNewest, Versions
<1>11. CASE Draft = {}
  <2>1. Written = n + 1
    BY <1>11, WrittenIs
  <2>2. kept = rows
    BY <1>5, <2>1
  <2>3. Cardinality(rows') = n + 1
    BY <1>8, <2>2
  <2>4. \A j \in rows : j.status # "draft"
    BY <1>11 DEF Draft
  <2>5. \A j \in rows' : j.status = "draft" => j.version = n + 1
    BY <1>1, <1>3, <2>1, <2>2, <2>4
  <2>6. {j.version : j \in rows'} = 1..(n + 1)
    <3>1. \A j \in rows' : j.version \in 1..(n + 1)
      BY <1>1, <1>3, <1>5, <2>1, <2>2
    <3>2. \A m \in 1..(n + 1) : \E j \in rows' : j.version = m
      <4>1. ASSUME NEW m \in 1..(n + 1) PROVE \E j \in rows' : j.version = m
        <5>1. CASE m = n + 1
          BY <1>1, <1>3, <2>1, <5>1
        <5>2. CASE m # n + 1
          <6>1. m \in 1..n
            BY <1>5, <5>2
          <6>2. QED
            BY <1>1, <1>6, <2>2, <6>1 DEF Versions
        <5>3. QED
          BY <5>1, <5>2
      <4>2. QED
        BY <4>1
    <3>3. QED
      BY <3>1, <3>2
  <2>7. QED
    BY <1>1, <1>2, <1>3, <1>4, <1>9, <2>2, <2>3, <2>5, <2>6 DEF DraftNewest, Versions
<1>12. QED
  BY <1>10, <1>11

-----------------------------------------------------------------------------
(* Every step *)

LEMMA InitIInv == Init => IInv
<1> SUFFICES ASSUME Init PROVE IInv
  OBVIOUS
<1>1. IsFiniteSet({}) /\ Cardinality({}) = 0
  BY FS_EmptySet
<1>2. 1..0 = {}
  OBVIOUS
<1>3. QED
  BY <1>1, <1>2 DEF Init, IInv, TypeOK, VersionsDistinct, DraftNewest, Versions

\* A step that writes no row.
LEMMA RowsLeft ==
  ASSUME IInv, rows' = rows, TypeOK'
  PROVE  IInv'
BY DEF IInv, VersionsDistinct, DraftNewest, Versions

LEMMA NextIInv == IInv /\ [Next]_vars => IInv'
<1> SUFFICES ASSUME IInv, [Next]_vars PROVE IInv'
  OBVIOUS
<1>1. ASSUME NEW c \in Contacts, Load(c) \/ Refuse(c) PROVE IInv'
  <2>1. TypeOK' /\ rows' = rows
    BY <1>1 DEF Load, Refuse, IInv, TypeOK
  <2>2. QED
    BY <2>1, RowsLeft
<1>2. ASSUME NEW c \in Contacts, NEW a \in Answers, SaveDraft(c, a) PROVE IInv'
  <2>1. Upsert("draft", a)
    BY <1>2 DEF SaveDraft
  <2>2. rows' \subseteq Rows /\ IsFiniteSet(rows)' /\ VersionsDistinct' /\ DraftNewest'
    BY <2>1, UpsertIInv
  <2>3. TypeOK'
    BY <1>2, <2>2 DEF SaveDraft, IInv, TypeOK
  <2>4. QED
    BY <2>2, <2>3 DEF IInv
<1>3. ASSUME NEW c \in Contacts, NEW a \in Answers, Submit(c, a) PROVE IInv'
  <2>1. Upsert("submitted", a)
    BY <1>3 DEF Submit
  <2>2. /\ rows' \subseteq Rows /\ IsFiniteSet(rows)' /\ VersionsDistinct' /\ DraftNewest'
        /\ Written \in 1..MaxVersions
    BY <2>1, UpsertIInv
  <2>3. SubmissionKey \in Nat
    BY RowsCounted DEF SubmissionKey
  <2>4. outbox' \subseteq Mails /\ owed' \subseteq [to : Staff, about : 1..MaxVersions]
    BY <1>3, <2>2, <2>3 DEF Submit, Notify, Mails, IInv, TypeOK
  <2>5. TypeOK'
    BY <1>3, <2>2, <2>4 DEF Submit, IInv, TypeOK
  <2>6. QED
    BY <2>2, <2>5 DEF IInv
<1>4. CASE CloseOrReopen
  <2>1. TypeOK' /\ rows' = rows
    BY <1>4 DEF CloseOrReopen, IInv, TypeOK
  <2>2. QED
    BY <2>1, RowsLeft
<1>5. ASSUME NEW u \in Staff, NotificationPref(u) PROVE IInv'
  <2>1. TypeOK' /\ rows' = rows
    BY <1>5 DEF NotificationPref, IInv, TypeOK
  <2>2. QED
    BY <2>1, RowsLeft
<1>6. CASE UNCHANGED vars
  <2>1. TypeOK' /\ rows' = rows
    BY <1>6 DEF vars, IInv, TypeOK
  <2>2. QED
    BY <2>1, RowsLeft
<1>7. QED
  BY <1>1, <1>2, <1>3, <1>4, <1>5, <1>6 DEF Next

\* The inductive invariant.
THEOREM Invariant == Spec => []IInv
<1>1. QED
  BY InitIInv, NextIInv, PTL DEF Spec

\* Every variable has its type.
THEOREM TypeCorrect == Spec => []TypeOK
<1>1. IInv => TypeOK
  BY DEF IInv
<1>2. QED
  BY <1>1, Invariant, PTL

\* Intake.DraftNewest: one draft at most, numbered last, and the numbers run from one,
\* however the saves of any number of contacts interleave.
THEOREM DraftIsNewest == Spec => []DraftNewest
<1>1. IInv => DraftNewest
  BY DEF IInv
<1>2. QED
  BY <1>1, Invariant, PTL

\* Intake.SubmittedFrozen: no save, however old the page it comes from, changes a
\* version that was submitted.
THEOREM SubmittedStays == Spec => SubmittedFrozen
<1>1. ASSUME IInv, [Next]_vars
      PROVE  [\A i \in rows : i.status = "submitted" => i \in rows']_vars
  <2>1. ASSUME NEW c \in Contacts, NEW a \in Answers, SaveDraft(c, a) \/ Submit(c, a)
        PROVE  \A i \in rows : i.status = "submitted" => i \in rows'
    BY <1>1, <2>1, UpsertIInv DEF SaveDraft, Submit
  <2>2. ASSUME rows' = rows
        PROVE  \A i \in rows : i.status = "submitted" => i \in rows'
    BY <2>2
  <2>3. QED
    BY <1>1, <2>1, <2>2
    DEF Next, Load, Refuse, CloseOrReopen, NotificationPref, vars
<1>2. QED
  BY <1>1, Invariant, PTL DEF Spec, SubmittedFrozen
=============================================================================
