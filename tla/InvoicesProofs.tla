--------------------------- MODULE InvoicesProofs ---------------------------
(***************************************************************************)
(* Proofs about Clients and Invoices, for any organizations, projects,     *)
(* requests, invoices, forms and amounts, and any width of an integer.     *)
(*                                                                         *)
(* The invariants of Clients are inductive together: that a client is      *)
(* archived only over closed projects needs the clients of its projects to *)
(* be there, and both need the types.  Invoices takes every step of        *)
(* Clients, and its own leave the clients alone: it implements Clients,    *)
(* whose invariants hold of it without a proof of their own.  Of the       *)
(* amounts, a lemma says what parseMoney reads of a text that has the form *)
(* it asks for.                                                            *)
(***************************************************************************)
EXTENDS Invoices, SequenceTheorems, TLAPS

-----------------------------------------------------------------------------
(* Clients and projects *)

IInv == TypeOK /\ ProjectsHaveClient /\ ArchivedAllClosedButReopened

\* At first nothing exists.
LEMMA InitIInv == Init => IInv
  BY DEF Init, IInv, TypeOK, ProjectsHaveClient, ArchivedAllClosedButReopened, Exists, Idle

\* What a request has loaded has the ids its commit uses.
LEMMA LoadedIds ==
  ASSUME TypeOK, NEW r \in Requests
  PROVE  /\ req[r].does \in {"archive", "unarchive", "delete client"} => req[r].org \in Orgs
         /\ req[r].does \in {"close", "reopen", "delete project"} => req[r].project \in Projects
  <1>1. req[r] \in {Idle} \cup OrgRequests \cup ProjectRequests
    BY DEF TypeOK
  <1>. QED
    <2>1. CASE req[r] = Idle
      BY <2>1 DEF Idle
    <2>2. CASE req[r] \in OrgRequests
      BY <2>2 DEF OrgRequests
    <2>3. CASE req[r] \in ProjectRequests
      BY <2>3 DEF ProjectRequests
    <2>. QED
      BY <1>1, <2>1, <2>2, <2>3

\* Every step keeps the types.
LEMMA TypesKept ==
  ASSUME TypeOK, [Next]_vars
  PROVE  TypeOK'
  <1>. USE DEF TypeOK
  <1>1. ASSUME NEW o \in Orgs, ClientCreate(o) PROVE TypeOK'
    BY <1>1 DEF ClientCreate
  <1>2. ASSUME NEW p \in Projects, NEW o \in Orgs, ProjectCreate(p, o) PROVE TypeOK'
    BY <1>2 DEF ProjectCreate
  <1>3. ASSUME NEW r \in Requests, NEW o \in Orgs, LoadClient(r, o) PROVE TypeOK'
    <2>1. /\ [does |-> "archive", org |-> o] \in OrgRequests
          /\ [does |-> "unarchive", org |-> o] \in OrgRequests
          /\ [does |-> "delete client", org |-> o] \in OrgRequests
      BY DEF OrgRequests
    <2>2. PICK x \in OrgRequests : req' = [req EXCEPT ![r] = x]
      BY <1>3, <2>1 DEF LoadClient
    <2>. QED
      BY <1>3, <2>2 DEF LoadClient
  <1>4. ASSUME NEW r \in Requests, NEW p \in Projects, LoadProject(r, p) PROVE TypeOK'
    <2>1. /\ [does |-> "close", project |-> p] \in ProjectRequests
          /\ [does |-> "reopen", project |-> p] \in ProjectRequests
          /\ [does |-> "delete project", project |-> p] \in ProjectRequests
      BY DEF ProjectRequests
    <2>2. PICK x \in ProjectRequests : req' = [req EXCEPT ![r] = x]
      BY <1>4, <2>1 DEF LoadProject
    <2>. QED
      BY <1>4, <2>2 DEF LoadProject
  <1>5. ASSUME NEW r \in Requests, Fail(r) PROVE TypeOK'
    BY <1>5 DEF Fail, Done
  <1>6. ASSUME NEW r \in Requests, ClientArchive(r) PROVE TypeOK'
    BY <1>6, LoadedIds DEF ClientArchive, Done, SetOrg
  <1>7. ASSUME NEW r \in Requests, ClientUnarchive(r) PROVE TypeOK'
    BY <1>7, LoadedIds DEF ClientUnarchive, Done, SetOrg
  <1>8. ASSUME NEW r \in Requests, ClientDelete(r) PROVE TypeOK'
    BY <1>8, LoadedIds DEF ClientDelete, Done, SetOrg
  <1>9. ASSUME NEW r \in Requests, ProjectClose(r) PROVE TypeOK'
    BY <1>9, LoadedIds DEF ProjectClose, Done, SetProject
  <1>10. ASSUME NEW r \in Requests, ProjectReopen(r) PROVE TypeOK'
    BY <1>10, LoadedIds DEF ProjectReopen, Done, SetProject, Exists
  <1>11. ASSUME NEW r \in Requests, ProjectDelete(r) PROVE TypeOK'
    BY <1>11, LoadedIds DEF ProjectDelete, Done, SetProject
  <1>12. CASE UNCHANGED vars
    BY <1>12 DEF vars
  <1>. QED
    BY <1>1, <1>2, <1>3, <1>4, <1>5, <1>6, <1>7, <1>8, <1>9, <1>10, <1>11, <1>12 DEF Next

\* Every step keeps a client for every project, and archives over closed projects.
LEMMA NextIInv ==
  ASSUME IInv, [Next]_vars
  PROVE  IInv'
  <1>. USE DEF IInv, ProjectsHaveClient, ArchivedAllClosedButReopened, Exists
  <1>0. TypeOK /\ TypeOK'
    BY TypesKept
  <1>1. ASSUME NEW o \in Orgs, ClientCreate(o) PROVE IInv'
    BY <1>0, <1>1 DEF ClientCreate, TypeOK
  <1>2. ASSUME NEW p \in Projects, NEW o \in Orgs, ProjectCreate(p, o) PROVE IInv'
    BY <1>0, <1>2 DEF ProjectCreate, OrgOpen, TypeOK
  <1>3. ASSUME UNCHANGED <<org, project, client, reopened>> PROVE IInv'
    BY <1>0, <1>3
  <1>4. ASSUME NEW r \in Requests, ClientArchive(r) PROVE IInv'
    BY <1>0, <1>4, LoadedIds DEF ClientArchive, SetOrg, AllClosed, ProjectsOf, TypeOK
  <1>5. ASSUME NEW r \in Requests, ClientUnarchive(r) PROVE IInv'
    BY <1>0, <1>5, LoadedIds DEF ClientUnarchive, SetOrg, TypeOK
  <1>6. ASSUME NEW r \in Requests, ClientDelete(r) PROVE IInv'
    BY <1>0, <1>6, LoadedIds DEF ClientDelete, SetOrg, Deleted, ProjectsOf, TypeOK
  <1>7. ASSUME NEW r \in Requests, ProjectClose(r) PROVE IInv'
    BY <1>0, <1>7, LoadedIds DEF ProjectClose, SetProject, TypeOK
  <1>8. ASSUME NEW r \in Requests, ProjectReopen(r) PROVE IInv'
    <2>1. /\ org \in [Orgs -> {"unused", "active", "archived", "deleted"}]
          /\ project \in [Projects -> {"unused", "active", "closed", "deleted"}]
          /\ req[r].project \in Projects
      BY <1>0, <1>8, LoadedIds DEF ProjectReopen, TypeOK
    <2>2. ProjectsHaveClient'
      BY <1>8, <2>1 DEF ProjectReopen, SetProject
    <2>3. ArchivedAllClosedButReopened'
      BY <1>8, <2>1 DEF ProjectReopen, SetProject
    <2>. QED
      BY <1>0, <2>2, <2>3
  <1>9. ASSUME NEW r \in Requests, ProjectDelete(r) PROVE IInv'
    BY <1>0, <1>9, LoadedIds DEF ProjectDelete, SetProject, TypeOK
  <1>10. ASSUME NEW r \in Requests,
                \/ \E o \in Orgs : LoadClient(r, o)
                \/ \E p \in Projects : LoadProject(r, p)
                \/ Fail(r)
         PROVE  IInv'
    BY <1>3, <1>10 DEF LoadClient, LoadProject, Fail
  <1>11. CASE UNCHANGED vars
    BY <1>3, <1>11 DEF vars
  <1>. QED
    BY <1>1, <1>2, <1>4, <1>5, <1>6, <1>7, <1>8, <1>9, <1>10, <1>11 DEF Next

\* Whatever requests load, and however late they commit, the invariant holds.
THEOREM Invariant == Spec => []IInv
  <1>. QED
    BY InitIInv, NextIInv, PTL DEF Spec

\* No foreign key stops the deletion of a client, for any number of requests in
\* progress.
THEOREM ClientsStay == Spec => []ProjectsHaveClient
  <1>1. IInv => ProjectsHaveClient
    BY DEF IInv
  <1>. QED
    BY <1>1, Invariant, PTL

\* Of the handlers that change a client or a project only projectReopen can leave an
\* active project under an archived client.
THEOREM ArchivedClosed == Spec => []ArchivedAllClosedButReopened
  <1>1. IInv => ArchivedAllClosedButReopened
    BY DEF IInv
  <1>. QED
    BY <1>1, Invariant, PTL

-----------------------------------------------------------------------------
(* Amounts *)

\* An integer that fits is not changed by the width.
LEMMA WrapFits ==
  ASSUME NEW n \in 0..MaxInt
  PROVE  Wrap(n) = n
  BY MaxIntAssumption DEF Wrap

\* The width leaves every integer in its range.
LEMMA WrapType ==
  ASSUME NEW n \in Int
  PROVE  Wrap(n) \in (-(MaxInt + 1))..MaxInt
  BY MaxIntAssumption DEF Wrap

\* The hundredths of a text without a sign after its point.
Hundredths(t) ==
  CASE t.digits = <<>> -> 0
    [] Len(t.digits) = 1 -> 10 * t.digits[1]
    [] OTHER -> 10 * t.digits[1] + t.digits[2]

\* Short sequences, and as many zeros as they lack.
LEMMA Pads ==
  ASSUME NEW d \in 0..9, NEW e \in 0..9
  PROVE  /\ <<>> \o [n \in 1..(2 - 0) |-> 0] = <<0, 0>>
         /\ <<d>> \o [n \in 1..(2 - 1) |-> 0] = <<d, 0>>
         /\ <<d, e>> \o [n \in 1..(2 - 2) |-> 0] = <<d, e>>
  <1>1. /\ [n \in 1..(2 - 0) |-> 0] = <<0, 0>>
        /\ [n \in 1..(2 - 1) |-> 0] = <<0>>
        /\ [n \in 1..(2 - 2) |-> 0] = <<>>
    OBVIOUS
  <1>2. <<d>> \in Seq(Nat) /\ <<0>> \in Seq(Nat) /\ Len(<<d>>) = 1 /\ Len(<<0>>) = 1
    OBVIOUS
  <1>3. /\ <<d>> \o <<0>> \in Seq(Nat)
        /\ Len(<<d>> \o <<0>>) = 2
        /\ (<<d>> \o <<0>>)[1] = d
        /\ (<<d>> \o <<0>>)[2] = 0
    BY <1>2, ConcatProperties
  <1>4. /\ <<d, 0>> \in Seq(Nat) /\ Len(<<d, 0>>) = 2
        /\ <<d, 0>>[1] = d /\ <<d, 0>>[2] = 0
    OBVIOUS
  <1>5. \A i \in 1..2 : i = 1 \/ i = 2
    OBVIOUS
  <1>6. <<d>> \o <<0>> = <<d, 0>>
    <2>1. \A i \in 1..Len(<<d>> \o <<0>>) : (<<d>> \o <<0>>)[i] = <<d, 0>>[i]
      BY <1>3, <1>4, <1>5, Zenon
    <2>. QED
      BY <1>3, <1>4, <2>1, SeqEqual, Zenon
  <1>7. <<>> \o <<0, 0>> = <<0, 0>> /\ <<d, e>> \o <<>> = <<d, e>>
    OBVIOUS
  <1>. QED
    BY <1>1, <1>6, <1>7, Zenon

\* The lengths of short sequences, and their elements.
LEMMA Lens ==
  ASSUME NEW d, NEW e
  PROVE  /\ Len(<<>>) = 0
         /\ Len(<<d>>) = 1 /\ <<d>>[1] = d /\ <<d>> # <<>>
         /\ Len(<<d, e>>) = 2 /\ <<d, e>>[1] = d /\ <<d, e>>[2] = e /\ <<d, e>> # <<>>
  OBVIOUS

\* As many zeros are added as two digits lack.
LEMMA PaddedTo ==
  ASSUME NEW t, t.sign = "none", NEW k \in 0..2, Len(t.digits) = k
  PROVE  Padded(t) = t.digits \o [n \in 1..(2 - k) |-> 0]
  BY DEF Padded, Zeros

\* Two digits are read as a number.
LEMMA CentsOf ==
  ASSUME NEW t, NEW d \in 0..9, NEW e \in 0..9, t.sign = "none"
  PROVE  Padded(t) = <<d, e>> => Cents(t) = 10 * d + e
  <1>1. Cents(t) = IF Len(Padded(t)) = 2 THEN 10 * Padded(t)[1] + Padded(t)[2] ELSE Padded(t)[1]
    BY DEF Cents
  <1>2. ASSUME Padded(t) = <<d, e>> PROVE Cents(t) = 10 * d + e
    <2>1. Len(Padded(t)) = 2 /\ Padded(t)[1] = d /\ Padded(t)[2] = e
      <3>1. Len(<<d, e>>) = 2 /\ <<d, e>>[1] = d /\ <<d, e>>[2] = e
        OBVIOUS
      <3>. QED
        BY <1>2, <3>1, Zenon
    <2>. QED
      BY <1>1, <2>1, Zenon
  <1>. QED
    BY <1>2

\* What follows the point is read as hundredths, which are less than one: no digit, one,
\* or both were typed.
LEMMA CentsRead ==
  ASSUME NEW t \in Typed, t.sign = "none"
  PROVE  Cents(t) = Hundredths(t) /\ Cents(t) \in 0..99
  <1>1. \/ t.digits = <<>>
        \/ \E d \in 0..9 : t.digits = <<d>>
        \/ \E d, e \in 0..9 : t.digits = <<d, e>>
    BY DEF Typed
  <1>2. 0 \in 0..2 /\ 1 \in 0..2 /\ 2 \in 0..2 /\ 0 \in 0..9 /\ 1 # 2
    OBVIOUS
  <1>3. \A d, e \in 0..9 : 10 * d + e \in 0..99 /\ 10 * d + 0 = 10 * d
    OBVIOUS
  <1>4. 10 * 0 + 0 = 0
    OBVIOUS
  <1>5. CASE t.digits = <<>>
    <2>1. Padded(t) = <<0, 0>>
      <3>1. Len(t.digits) = 0
        BY <1>5, Lens, Zenon
      <3>2. Padded(t) = t.digits \o [n \in 1..(2 - 0) |-> 0]
        BY <3>1, PaddedTo
      <3>. QED
        BY <1>2, <1>5, <3>2, Pads, Zenon
    <2>. QED
      BY <1>2, <1>3, <1>4, <1>5, <2>1, CentsOf, Zenon DEF Hundredths
  <1>6. ASSUME NEW d \in 0..9, t.digits = <<d>>
        PROVE  Cents(t) = Hundredths(t) /\ Cents(t) \in 0..99
    <2>1. Padded(t) = <<d, 0>>
      <3>1. Len(t.digits) = 1
        BY <1>6, Lens, Zenon
      <3>2. Padded(t) = t.digits \o [n \in 1..(2 - 1) |-> 0]
        BY <3>1, PaddedTo
      <3>. QED
        BY <1>2, <1>6, <3>2, Pads, Zenon
    <2>2. Cents(t) = 10 * d
      BY <1>2, <1>3, <2>1, CentsOf, Zenon
    <2>3. Hundredths(t) = 10 * d
      BY <1>6, Lens, Zenon DEF Hundredths
    <2>. QED
      BY <2>2, <2>3
  <1>7. ASSUME NEW d \in 0..9, NEW e \in 0..9, t.digits = <<d, e>>
        PROVE  Cents(t) = Hundredths(t) /\ Cents(t) \in 0..99
    <2>1. Padded(t) = <<d, e>>
      <3>1. Len(t.digits) = 2
        BY <1>7, Lens, Zenon
      <3>2. Padded(t) = t.digits \o [n \in 1..(2 - 2) |-> 0]
        BY <3>1, PaddedTo
      <3>. QED
        BY <1>2, <1>7, <3>2, Pads, Zenon
    <2>2. Cents(t) = 10 * d + e
      BY <2>1, CentsOf, Zenon
    <2>3. Hundredths(t) = 10 * d + e
      BY <1>7, Lens DEF Hundredths
    <2>. QED
      BY <2>2, <2>3
  <1>. QED
    BY <1>1, <1>5, <1>6, <1>7

\* parseMoney reads what was typed, if it has the form and its integer the room.
LEMMA MinorReads ==
  ASSUME NEW t \in Typed, t.sign = "none", t.whole * 100 + Hundredths(t) <= MaxInt
  PROVE  Minor(t) = t.whole * 100 + Hundredths(t)
  <1>1. t.whole \in Nat
    BY DEF Typed
  <1>2. t.whole * 100 \in 0..MaxInt /\ t.whole * 100 + Cents(t) \in 0..MaxInt
    BY <1>1, CentsRead, MaxIntAssumption
  <1>3. Wrap(t.whole * 100) = t.whole * 100
    BY <1>2, WrapFits
  <1>4. Wrap(t.whole * 100 + Cents(t)) = t.whole * 100 + Cents(t)
    BY <1>2, WrapFits
  <1>. QED
    BY <1>3, <1>4, CentsRead DEF Minor

\* A sign leaves one place after the point.
LEMMA SignedPadded ==
  ASSUME NEW t \in Typed, t.sign # "none"
  PROVE  \E d \in 0..9 : Padded(t) = <<d>>
  <1>1. t.digits = <<>> \/ \E d \in 0..9 : t.digits = <<d>>
    BY DEF Typed
  <1>2. /\ [n \in 1..(1 - 0) |-> 0] = <<0>> /\ [n \in 1..(1 - 1) |-> 0] = <<>>
        /\ 0 \in 0..9
    OBVIOUS
  <1>3. CASE t.digits = <<>>
    <2>1. Len(t.digits) = 0
      BY <1>3, Lens, Zenon
    <2>2. Zeros(t) = <<0>>
      BY <1>2, <2>1 DEF Zeros
    <2>3. <<>> \o <<0>> = <<0>>
      OBVIOUS
    <2>. QED
      BY <1>2, <1>3, <2>2, <2>3, Zenon DEF Padded
  <1>4. ASSUME NEW d \in 0..9, t.digits = <<d>>
        PROVE  Padded(t) = <<d>>
    <2>1. Len(t.digits) = 1
      BY <1>4, Lens, Zenon
    <2>2. Zeros(t) = <<>>
      BY <1>2, <2>1 DEF Zeros
    <2>3. <<d>> \o <<>> = <<d>>
      OBVIOUS
    <2>. QED
      BY <1>4, <2>2, <2>3, Zenon DEF Padded
  <1>. QED
    BY <1>1, <1>3, <1>4

\* The cents are an integer, of either sign.
LEMMA CentsType ==
  ASSUME NEW t \in Typed
  PROVE  Cents(t) \in Int
  <1>1. CASE t.sign = "none"
    BY <1>1, CentsRead
  <1>2. CASE t.sign # "none"
    <2>1. PICK d \in 0..9 : Padded(t) = <<d>>
      BY <1>2, SignedPadded
    <2>2. Len(<<d>>) = 1 /\ <<d>>[1] = d
      OBVIOUS
    <2>3. Len(Padded(t)) = 1 /\ Padded(t)[1] = d
      BY <2>1, <2>2, Zenon
    <2>. QED
      BY <2>3 DEF Cents
  <1>. QED
    BY <1>1, <1>2

\* What the database takes is in the range of an amount.
LEMMA MinorType ==
  ASSUME NEW t \in Typed, Storable(t)
  PROVE  Minor(t) \in 0..MaxInt
  <1>1. t.whole * 100 \in Int
    BY DEF Typed
  <1>2. Cents(t) \in Int
    BY CentsType
  <1>3. Wrap(t.whole * 100) + Cents(t) \in Int
    BY <1>1, <1>2, WrapType, MaxIntAssumption
  <1>. QED
    BY <1>3, WrapType, MaxIntAssumption DEF Minor, Storable

-----------------------------------------------------------------------------
(* Clients *)

\* A step of Invoices is a step of Clients, or none.
LEMMA StepOfClients ==
  ASSUME [InvoicesNext]_allVars
  PROVE  [Next]_vars
  BY DEF InvoicesNext, ClientStep, FormFails, CreateBegin, ChangeBegin, LoadForm, InvoiceCreate,
         InvoiceEdit, InvoiceMove, allVars, vars

(* Invoices implements Clients: beside the invoices clients and projects    *)
(* change as they do without them.                                          *)
THEOREM ImplementsClients == InvoicesSpec => Spec
  <1>1. InvoicesInit => Init
    BY DEF InvoicesInit
  <1>. QED
    BY <1>1, StepOfClients, PTL DEF InvoicesSpec, Spec

(* So the clients of projects, and what archived means, hold beside them.   *)
THEOREM ClientsBesideInvoices ==
  InvoicesSpec => [](ProjectsHaveClient /\ ArchivedAllClosedButReopened)
  BY ImplementsClients, ClientsStay, ArchivedClosed, PTL

-----------------------------------------------------------------------------
(* Invoices *)

Rows == [project : Projects, status : InvoiceStatus, visibility : Visibility, amount : 0..MaxInt]

\* An invoice is over what parseMoney reads of the amount last typed for it.
AmountsTyped == \A i \in Recorded : typed[i] \in Texts /\ invoice[i].amount = Minor(typed[i])

\* AmountsAsTyped follows from AmountsTyped.
InvoicesIInv == InvoicesTypeOK /\ ShownAnnounced /\ AmountsTyped

\* What a form has loaded, by what it does.
LEMMA FormFields ==
  ASSUME InvoicesTypeOK, NEW q \in Forms
  PROVE  /\ form[q].does = "create" => /\ form[q].project \in Projects
                                       /\ form[q].visibility \in Visibility
                                       /\ form[q].amount \in Texts
         /\ form[q].does = "edit" => /\ form[q].invoice \in InvoiceIds
                                     /\ form[q].visibility \in Visibility
                                     /\ form[q].amount \in Texts
         /\ form[q].does = "status" => /\ form[q].invoice \in InvoiceIds
                                       /\ form[q].to \in InvoiceStatus
  <1>1. form[q] \in {Idle} \cup InvoiceForms
    BY DEF InvoicesTypeOK
  <1>. QED
    BY <1>1 DEF Idle, InvoiceForms

\* An invoice that is recorded has all its fields.
LEMMA RecordedRows ==
  ASSUME InvoicesTypeOK, NEW i \in InvoiceIds
  PROVE  /\ i \in Recorded => invoice[i] \in Rows
         /\ i \notin Recorded => invoice[i] \in {NoInvoice, DeletedInvoice}
  BY DEF InvoicesTypeOK, Recorded, NoInvoice, DeletedInvoice, InvoiceStatus, Rows

\* The rows that are none.
LEMMA NoRows ==
  /\ NoInvoice.status = "unused" /\ DeletedInvoice.status = "deleted"
  /\ NoInvoice.visibility = "internal" /\ DeletedInvoice.visibility = "internal"
  /\ {"unused", "deleted"} \cap InvoiceStatus = {}
  BY DEF NoInvoice, DeletedInvoice, InvoiceStatus

\* At first there is no invoice.
LEMMA InitInvoicesIInv == InvoicesInit => InvoicesIInv
  <1>. SUFFICES ASSUME InvoicesInit PROVE InvoicesIInv
    OBVIOUS
  <1>1. TypeOK
    BY InitIInv DEF InvoicesInit, IInv
  <1>2. Recorded = {}
    BY NoRows DEF InvoicesInit, Recorded
  <1>. QED
    BY <1>1, <1>2 DEF InvoicesInit, InvoicesIInv, InvoicesTypeOK, ShownAnnounced, AmountsTyped

\* A form is loaded, or is done; no row is written.
LEMMA FormIInv ==
  ASSUME InvoicesIInv, form' \in [Forms -> {Idle} \cup InvoiceForms],
         UNCHANGED <<vars, invoice, announced, quiet, typed>>
  PROVE  InvoicesIInv'
  BY DEF InvoicesIInv, InvoicesTypeOK, TypeOK, ShownAnnounced, AmountsTyped, Recorded, vars

\* With its project an invoice goes, and what is remembered of it.
LEMMA ClientStepIInv ==
  ASSUME InvoicesIInv, ClientStep
  PROVE  InvoicesIInv'
  <1>1. TypeOK'
    BY TypesKept DEF InvoicesIInv, InvoicesTypeOK, ClientStep
  <1>2. Recorded' = Recorded \ Cascaded
    BY NoRows DEF ClientStep, Recorded
  <1>3. \A i \in Recorded' : invoice'[i] = invoice[i] /\ typed'[i] = typed[i]
    BY <1>2 DEF ClientStep, Recorded
  <1>4. InvoicesTypeOK'
    BY <1>1, <1>2, <1>3 DEF InvoicesIInv, InvoicesTypeOK, ClientStep, Cascaded
  <1>. QED
    BY <1>2, <1>3, <1>4 DEF InvoicesIInv, ShownAnnounced, AmountsTyped, ClientStep

\* A new invoice is a draft, which no client is shown.
LEMMA InvoiceCreateIInv ==
  ASSUME InvoicesIInv, NEW q \in Forms, NEW i \in InvoiceIds, InvoiceCreate(q, i)
  PROVE  InvoicesIInv'
  <1>. DEFINE row == [project |-> form[q].project, status |-> "draft",
                      visibility |-> form[q].visibility, amount |-> Minor(form[q].amount)]
  <1>1. form[q].amount \in Texts /\ form[q].project \in Projects
    BY FormFields DEF InvoicesIInv, InvoiceCreate
  <1>2. Minor(form[q].amount) \in 0..MaxInt
    BY <1>1, MinorType, TextsAssumption DEF InvoiceCreate
  <1>3. row \in Rows /\ row.status = "draft"
    BY <1>2, FormFields DEF InvoicesIInv, InvoiceCreate, Rows, InvoiceStatus
  <1>4. invoice' = [invoice EXCEPT ![i] = row] /\ typed' = [typed EXCEPT ![i] = form[q].amount]
    BY DEF InvoiceCreate
  <1>5. Exists(project[row.project]) /\ row.amount = Minor(form[q].amount)
    BY DEF InvoiceCreate
  <1>. HIDE DEF row
  <1>6. Recorded' = Recorded \cup {i}
    BY <1>3, <1>4 DEF InvoicesIInv, InvoicesTypeOK, Recorded, InvoiceStatus
  <1>7. \A j \in Recorded' : \/ j = i /\ invoice'[j] = row /\ typed'[j] = form[q].amount
                             \/ j \in Recorded /\ invoice'[j] = invoice[j] /\ typed'[j] = typed[j]
    BY <1>4, <1>6 DEF InvoicesIInv, InvoicesTypeOK, Recorded
  <1>8. InvoicesTypeOK'
    BY <1>1, <1>3, <1>4, <1>5, <1>6, <1>7
    DEF InvoicesIInv, InvoicesTypeOK, InvoiceCreate, FormDone, Rows, vars, TypeOK
  <1>9. ShownAnnounced'
    BY <1>3, <1>7 DEF InvoicesIInv, ShownAnnounced, Shown, InvoiceCreate
  <1>10. AmountsTyped'
    BY <1>1, <1>5, <1>7 DEF InvoicesIInv, AmountsTyped
  <1>. QED
    BY <1>8, <1>9, <1>10 DEF InvoicesIInv

\* An edit keeps the project and the status; what it shows and did not announce is quiet.
LEMMA InvoiceEditIInv ==
  ASSUME InvoicesIInv, NEW q \in Forms, InvoiceEdit(q)
  PROVE  InvoicesIInv'
  <1>. DEFINE i == form[q].invoice
              row == [invoice[i] EXCEPT !.visibility = form[q].visibility,
                                        !.amount = Minor(form[q].amount)]
  <1>1. /\ i \in InvoiceIds /\ i \in Recorded /\ invoice[i] \in Rows
        /\ form[q].amount \in Texts /\ form[q].visibility \in Visibility
    BY FormFields, RecordedRows
    DEF InvoicesIInv, InvoiceEdit, Editable, Recorded, InvoiceStatus
  <1>2. Minor(form[q].amount) \in 0..MaxInt
    BY <1>1, MinorType, TextsAssumption DEF InvoiceEdit
  <1>3. /\ row \in Rows /\ row.project = invoice[i].project /\ row.status = invoice[i].status
        /\ row.amount = Minor(form[q].amount)
    BY <1>1, <1>2 DEF Rows
  <1>4. /\ invoice' = [invoice EXCEPT ![i] = row]
        /\ typed' = [typed EXCEPT ![i] = form[q].amount]
        /\ quiet' = quiet \cup Quiet(i)
        /\ FormDone(q) /\ UNCHANGED <<vars, announced>>
    BY <1>1 DEF InvoiceEdit, InvoicesIInv, InvoicesTypeOK, Rows
  <1>. HIDE DEF i, row
  <1>5. /\ invoice'[i] = row /\ typed'[i] = form[q].amount
        /\ \A j \in InvoiceIds \ {i} : invoice'[j] = invoice[j] /\ typed'[j] = typed[j]
    BY <1>1, <1>4 DEF InvoicesIInv, InvoicesTypeOK
  <1>6. Recorded' = Recorded
    BY <1>1, <1>3, <1>5 DEF Recorded
  <1>7. InvoicesTypeOK'
    BY <1>1, <1>3, <1>4, <1>5, <1>6
    DEF InvoicesIInv, InvoicesTypeOK, FormDone, Rows, Quiet, vars, TypeOK
  <1>8. ShownAnnounced'
    BY <1>1, <1>4, <1>5, <1>6 DEF InvoicesIInv, ShownAnnounced, Quiet, Recorded
  <1>9. AmountsTyped'
    BY <1>1, <1>3, <1>5, <1>6 DEF InvoicesIInv, AmountsTyped, Recorded
  <1>. QED
    BY <1>7, <1>8, <1>9 DEF InvoicesIInv

\* A move changes the status alone; sending announces, and canceling is quiet.
LEMMA InvoiceMoveIInv ==
  ASSUME InvoicesIInv, NEW q \in Forms, InvoiceMove(q)
  PROVE  InvoicesIInv'
  <1>. DEFINE i == form[q].invoice
              to == form[q].to
              row == [invoice[i] EXCEPT !.status = to]
  <1>1. /\ i \in InvoiceIds /\ i \in Recorded /\ invoice[i] \in Rows /\ to \in InvoiceStatus
        /\ InvoiceTransition(invoice[i].status, to)
    BY FormFields, RecordedRows DEF InvoicesIInv, InvoiceMove
  <1>2. /\ row \in Rows /\ row.project = invoice[i].project /\ row.status = to
        /\ row.amount = invoice[i].amount /\ row.visibility = invoice[i].visibility
    BY <1>1 DEF Rows
  <1>3. /\ invoice' = [invoice EXCEPT ![i] = row]
        /\ announced' = announced \cup {j \in {i} : Announces(i, to)}
        /\ quiet' = quiet \cup {j \in Quiet(i) : to = "canceled"}
        /\ FormDone(q) /\ UNCHANGED <<vars, typed>>
    BY DEF InvoiceMove
  <1>. HIDE DEF i, to, row
  <1>4. /\ invoice'[i] = row
        /\ \A j \in InvoiceIds \ {i} : invoice'[j] = invoice[j]
    BY <1>1, <1>3 DEF InvoicesIInv, InvoicesTypeOK
  <1>5. Recorded' = Recorded
    BY <1>1, <1>2, <1>4 DEF Recorded
  <1>6. InvoicesTypeOK'
    BY <1>1, <1>2, <1>3, <1>4, <1>5
    DEF InvoicesIInv, InvoicesTypeOK, FormDone, Rows, Quiet, vars, TypeOK
  <1>7. ShownAnnounced'
    <2>. SUFFICES ASSUME NEW j \in Recorded, Shown(invoice'[j])
                  PROVE  j \in announced' \cup quiet'
      BY <1>5 DEF ShownAnnounced
    <2>1. CASE j # i
      BY <1>3, <1>4, <2>1 DEF InvoicesIInv, ShownAnnounced, Recorded
    <2>2. CASE j = i /\ Shown(invoice[i])
      BY <1>1, <1>3, <2>2 DEF InvoicesIInv, ShownAnnounced
    <2>3. CASE j = i /\ ~Shown(invoice[i])
      <3>1. invoice[i].visibility = "client" /\ to \in {"sent", "paid", "canceled"}
        BY <1>2, <1>4, <2>3 DEF Shown
      <3>2. to # "paid"
        BY <1>1, <2>3, <3>1 DEF Shown, InvoiceTransition
      <3>. QED
        BY <1>3, <2>3, <3>1, <3>2 DEF Announces, Quiet
    <2>. QED
      BY <2>1, <2>2, <2>3
  <1>8. AmountsTyped'
    BY <1>2, <1>3, <1>4, <1>5 DEF InvoicesIInv, AmountsTyped, Recorded
  <1>. QED
    BY <1>6, <1>7, <1>8 DEF InvoicesIInv

\* Every step keeps the invariant.
LEMMA StepInvoicesIInv == InvoicesIInv /\ [InvoicesNext]_allVars => InvoicesIInv'
  <1>. SUFFICES ASSUME InvoicesIInv, [InvoicesNext]_allVars PROVE InvoicesIInv'
    OBVIOUS
  <1>1. ASSUME NEW q \in Forms, FormFails(q) PROVE InvoicesIInv'
    BY <1>1, FormIInv DEF FormFails, FormDone, InvoicesIInv, InvoicesTypeOK
  <1>2. ASSUME NEW q \in Forms, NEW what \in InvoiceForms, LoadForm(q, what) PROVE InvoicesIInv'
    BY <1>2, FormIInv DEF LoadForm, InvoicesIInv, InvoicesTypeOK
  <1>3. ASSUME NEW q \in Forms, NEW p \in Projects, CreateBegin(q, p) PROVE InvoicesIInv'
    <2>1. PICK vis \in Visibility, t \in Texts :
            LoadForm(q, [does |-> "create", project |-> p, visibility |-> vis, amount |-> t])
      BY <1>3 DEF CreateBegin
    <2>2. [does |-> "create", project |-> p, visibility |-> vis, amount |-> t] \in InvoiceForms
      BY DEF InvoiceForms
    <2>. QED
      BY <1>2, <2>1, <2>2
  <1>4. ASSUME NEW q \in Forms, NEW i \in InvoiceIds, ChangeBegin(q, i) PROVE InvoicesIInv'
    <2>1. \A vis \in Visibility, t \in Texts :
            [does |-> "edit", invoice |-> i, visibility |-> vis, amount |-> t] \in InvoiceForms
      BY DEF InvoiceForms
    <2>2. \A to \in InvoiceStatus :
            [does |-> "status", invoice |-> i, to |-> to] \in InvoiceForms
      BY DEF InvoiceForms
    <2>. QED
      BY <1>2, <1>4, <2>1, <2>2 DEF ChangeBegin
  <1>5. CASE UNCHANGED allVars
    BY <1>5, FormIInv DEF allVars, invoiceVars, InvoicesIInv, InvoicesTypeOK
  <1>. QED
    BY <1>1, <1>3, <1>4, <1>5, ClientStepIInv, InvoiceCreateIInv, InvoiceEditIInv,
       InvoiceMoveIInv
    DEF InvoicesNext

(* Invoices are of projects that exist, are announced or known to be quiet, *)
(* and are over what was typed, while clients and projects come and go.     *)
THEOREM InvoicesInvariant == InvoicesSpec => []InvoicesIInv
  BY InitInvoicesIInv, StepInvoicesIInv, PTL DEF InvoicesSpec

(* Rows and forms are what their types say, and every invoice's project is  *)
(* there.                                                                   *)
THEOREM InvoicesTypeCorrect == InvoicesSpec => []InvoicesTypeOK
  <1>1. InvoicesIInv => InvoicesTypeOK
    BY DEF InvoicesIInv
  <1>. QED
    BY <1>1, InvoicesInvariant, PTL

(* A client sees no invoice its contacts were not told of, but those shown  *)
(* by an edit after they were sent, and drafts that were canceled.          *)
THEOREM ClientsTold == InvoicesSpec => []ShownAnnounced
  <1>1. InvoicesIInv => ShownAnnounced
    BY DEF InvoicesIInv
  <1>. QED
    BY <1>1, InvoicesInvariant, PTL

(* An invoice is over the amount last typed for it, as it reads.            *)
THEOREM AmountsRead == InvoicesSpec => []AmountsAsTyped
  <1>1. InvoicesIInv => AmountsAsTyped
    BY MinorReads, TextsAssumption
    DEF InvoicesIInv, AmountsTyped, AmountsAsTyped, Hundredths
  <1>. QED
    BY <1>1, InvoicesInvariant, PTL

-----------------------------------------------------------------------------
(* What is settled *)

\* A step changes a paid or canceled invoice only by taking its project.
LEMMA StepSettledFrozen ==
  ASSUME InvoicesIInv, [InvoicesNext]_allVars, NEW i \in InvoiceIds,
         invoice[i].status \in {"paid", "canceled"}, Exists(project'[invoice[i].project])
  PROVE  invoice'[i] = invoice[i]
  <1>1. CASE ClientStep
    BY <1>1 DEF ClientStep, Cascaded
  <1>2. ASSUME NEW q \in Forms, NEW j \in InvoiceIds, InvoiceCreate(q, j)
        PROVE  invoice'[i] = invoice[i]
    BY <1>2, NoRows DEF InvoiceCreate, InvoicesIInv, InvoicesTypeOK, InvoiceStatus
  <1>3. ASSUME NEW q \in Forms, InvoiceEdit(q) PROVE invoice'[i] = invoice[i]
    BY <1>3, FormFields DEF InvoiceEdit, Editable, InvoicesIInv, InvoicesTypeOK
  <1>4. ASSUME NEW q \in Forms, InvoiceMove(q) PROVE invoice'[i] = invoice[i]
    BY <1>4, FormFields DEF InvoiceMove, InvoiceTransition, InvoicesIInv, InvoicesTypeOK
  <1>5. ASSUME UNCHANGED invoice PROVE invoice'[i] = invoice[i]
    BY <1>5
  <1>. QED
    BY <1>1, <1>2, <1>3, <1>4, <1>5
    DEF InvoicesNext, FormFails, CreateBegin, ChangeBegin, LoadForm, allVars, invoiceVars

(* Paid and canceled invoices are frozen while their project is there.      *)
THEOREM SettledStaysFrozen == InvoicesSpec => SettledFrozen
  <1>1. InvoicesIInv /\ [InvoicesNext]_allVars =>
          [\A i \in InvoiceIds :
             invoice[i].status \in {"paid", "canceled"} /\ Exists(project'[invoice[i].project]) =>
               invoice'[i] = invoice[i]]_allVars
    BY StepSettledFrozen
  <1>. QED
    BY <1>1, InvoicesInvariant, PTL DEF InvoicesSpec, SettledFrozen
=============================================================================
