------------------------------ MODULE Invoices ------------------------------
(***************************************************************************)
(* The invoices of the projects of Clients: recorded, edited, sent, paid   *)
(* or canceled, shown to the client and announced to its contacts, while   *)
(* their projects are closed, reopened and deleted beside them; and the    *)
(* amounts that parseMoney reads.                                          *)
(*                                                                         *)
(* A handler loads the invoice's project when the request begins; its      *)
(* transaction reads the status of the invoice again, and nothing of the   *)
(* project.  Every step of Clients is a step here too, followed by what    *)
(* the foreign key of the invoices does to them.                           *)
(***************************************************************************)
EXTENDS Clients, Domain, Sequences, Integers

CONSTANTS
  InvoiceIds,     \* ids for invoices
  Forms,          \* requests about invoices in progress at once
  NoProject,      \* the project of an invoice that was never created
  Texts,          \* the amounts that are typed
  MaxInt          \* the largest amount; 2^63 - 1 in the program

ASSUME NoProjectAssumption == NoProject \notin Projects
ASSUME MaxIntAssumption == MaxInt \in Nat \ {0}

-----------------------------------------------------------------------------
(* Amounts *)

\* Arithmetic of a signed integer of that width, which has 2 * (MaxInt + 1) values.
Wrap(n) == ((n + MaxInt + 1) % (2 * (MaxInt + 1))) - MaxInt - 1

\* What is typed, without its commas: the number before the point, below zero or not (a
\* "+" changes nothing), and what follows it, two characters at most, the first of them
\* perhaps a sign.
Typed ==
       [minus : BOOLEAN, whole : Nat, sign : {"none"},
        digits : {<<>>} \cup ((0..9) \X (0..9)) \cup {<<d>> : d \in 0..9}]
  \cup [minus : BOOLEAN, whole : Nat, sign : {"+", "-"}, digits : {<<>>} \cup {<<d>> : d \in 0..9}]

ASSUME TextsAssumption == Texts \subseteq Typed

Zeros(t) == [n \in 1..((IF t.sign = "none" THEN 2 ELSE 1) - Len(t.digits)) |-> 0]

\* Mutant: "12.5" is read as "12.05".
PaddedLeft(t) == Zeros(t) \o t.digits

\* Zeros are added until two characters follow the point.
Padded(t) == t.digits \o Zeros(t)

\* strconv.ParseInt of the fraction.
Cents(t) ==
  LET p == Padded(t)
      n == IF Len(p) = 2 THEN 10 * p[1] + p[2] ELSE p[1]
  IN IF t.sign = "-" THEN -n ELSE n

\* w*100 + f; where w is taken it is not below zero, but "-0" is zero.
Minor(t) == Wrap(Wrap(t.whole * 100) + Cents(t))

\* parseMoney takes it: the number before the point is an integer of that width, w >= 0.
Parsed(t) == t.whole <= MaxInt /\ (t.minus => t.whole = 0)

-----------------------------------------------------------------------------
(* Records *)

VARIABLES
  invoice,   \* invoices: project, status, visibility and amount
  form,      \* what each request has loaded and was sent
  announced, \* the invoices whose contacts were told that they were sent
  quiet,     \* history: those shown by an edit, or by canceling a draft
  typed      \* history: the amount last typed for each

invoiceVars == <<invoice, form, announced, quiet, typed>>
allVars == <<vars, invoiceVars>>

Visibility == {"internal", "client"}
NoInvoice == [project |-> NoProject, status |-> "unused", visibility |-> "internal", amount |-> 0]
NoText == [minus |-> FALSE, whole |-> 0, sign |-> "none", digits |-> <<>>]
DeletedInvoice == [NoInvoice EXCEPT !.status = "deleted"]
InvoiceForms ==
       [does : {"create"}, project : Projects, visibility : Visibility, amount : Texts]
  \cup [does : {"edit"}, invoice : InvoiceIds, visibility : Visibility, amount : Texts]
  \cup [does : {"status"}, invoice : InvoiceIds, to : InvoiceStatus]

Recorded == {i \in InvoiceIds : invoice[i].status \in InvoiceStatus}

\* What each row is; an invoice's project is there (the foreign key), as Clients has it.
InvoicesTypeOK ==
  /\ TypeOK
  /\ invoice \in [InvoiceIds -> {NoInvoice, DeletedInvoice} \cup
       [project : Projects, status : InvoiceStatus, visibility : Visibility, amount : 0..MaxInt]]
  /\ form \in [Forms -> {Idle} \cup InvoiceForms]
  /\ announced \subseteq Recorded /\ quiet \subseteq Recorded
  /\ typed \in [InvoiceIds -> Texts \cup {NoText}]
  /\ \A i \in Recorded : Exists(project[invoice[i].project])

InvoicesInit ==
  /\ Init
  /\ invoice = [i \in InvoiceIds |-> NoInvoice]
  /\ form = [q \in Forms |-> Idle]
  /\ announced = {} /\ quiet = {}
  /\ typed = [i \in InvoiceIds |-> NoText]

\* Mutant: the invoices of a project that is deleted stay.
CascadedNever == {}

\* ON DELETE CASCADE: the invoices whose project a step takes away.
Cascaded == {i \in Recorded : ~Exists(project'[invoice[i].project])}

\* A step of Clients.
ClientStep ==
  /\ Next
  /\ invoice' = [i \in InvoiceIds |-> IF i \in Cascaded THEN DeletedInvoice ELSE invoice[i]]
  /\ announced' = announced \ Cascaded
  /\ quiet' = quiet \ Cascaded
  /\ typed' = [i \in InvoiceIds |-> IF i \in Cascaded THEN NoText ELSE typed[i]]
  /\ UNCHANGED form

-----------------------------------------------------------------------------
(* Load *)

LoadForm(q, what) ==
  /\ form[q] = Idle
  /\ form' = [form EXCEPT ![q] = what]
  /\ UNCHANGED <<vars, invoice, announced, quiet, typed>>

FormDone(q) == form' = [form EXCEPT ![q] = Idle]

\* loadWritableProject
CreateBegin(q, p) ==
  /\ project[p] = "active"
  /\ \E vis \in Visibility, t \in Texts :
       /\ Parsed(t)
       /\ LoadForm(q, [does |-> "create", project |-> p, visibility |-> vis, amount |-> t])

\* projectOf, writable; the form may name any visibility and any status.
ChangeBegin(q, i) ==
  /\ i \in Recorded
  /\ project[invoice[i].project] = "active"
  /\ \/ \E vis \in Visibility, t \in Texts :
          /\ Parsed(t)
          /\ LoadForm(q, [does |-> "edit", invoice |-> i, visibility |-> vis, amount |-> t])
     \/ \E to \in InvoiceStatus :
          LoadForm(q, [does |-> "status", invoice |-> i, to |-> to])

\* The form is refused, or the transaction.
FormFails(q) ==
  /\ form[q] # Idle
  /\ FormDone(q)
  /\ UNCHANGED <<vars, invoice, announced, quiet, typed>>

-----------------------------------------------------------------------------
(* Commit *)

\* The client's pages: visibility = 'client' AND status != 'draft'
Shown(inv) == inv.visibility = "client" /\ inv.status \in {"sent", "paid", "canceled"}

\* The invoices a step shows to the client without a word.
Quiet(i) == {j \in {i} : Shown(invoice'[j]) /\ ~Shown(invoice[j])} \ announced'

\* CHECK (amount_cents >= 0)
Storable(t) == Minor(t) >= 0

InvoiceCreate(q, i) ==
  /\ form[q].does = "create"
  /\ Exists(project[form[q].project])
  /\ invoice[i] = NoInvoice
  /\ Storable(form[q].amount)
  /\ invoice' = [invoice EXCEPT ![i] = [project |-> form[q].project, status |-> "draft",
                                        visibility |-> form[q].visibility,
                                        amount |-> Minor(form[q].amount)]]
  /\ typed' = [typed EXCEPT ![i] = form[q].amount]
  /\ FormDone(q)
  /\ UNCHANGED <<vars, announced, quiet>>

\* Mutant: the status is not read again.
EditableRecorded(i) == i \in Recorded

\* The transaction reads the status: draft or sent.
Editable(i) == invoice[i].status \in {"draft", "sent"}

InvoiceEdit(q) ==
  LET i == form[q].invoice IN
  /\ form[q].does = "edit"
  /\ Editable(i)
  /\ Storable(form[q].amount)
  /\ invoice' = [invoice EXCEPT ![i].visibility = form[q].visibility,
                                 ![i].amount = Minor(form[q].amount)]
  /\ typed' = [typed EXCEPT ![i] = form[q].amount]
  /\ UNCHANGED announced
  /\ quiet' = quiet \cup Quiet(i)
  /\ FormDone(q)
  /\ UNCHANGED vars

\* Mutant: the contacts hear of the payment instead.
AnnouncesPaid(i, to) == to = "paid" /\ invoice[i].visibility = "client"

\* Whether the contacts are notified.
Announces(i, to) == to = "sent" /\ invoice[i].visibility = "client"

\* invoiceStatus: the notification is written in the same transaction.
InvoiceMove(q) ==
  LET i == form[q].invoice
      to == form[q].to
  IN /\ form[q].does = "status"
     /\ i \in Recorded
     /\ InvoiceTransition(invoice[i].status, to)
     /\ invoice' = [invoice EXCEPT ![i].status = to]
     /\ announced' = announced \cup {j \in {i} : Announces(i, to)}
     /\ quiet' = quiet \cup {j \in Quiet(i) : to = "canceled"}
     /\ FormDone(q)
     /\ UNCHANGED <<vars, typed>>

InvoicesNext ==
  \/ ClientStep
  \/ \E q \in Forms :
       \/ FormFails(q)
       \/ \E p \in Projects : CreateBegin(q, p)
       \/ \E i \in InvoiceIds : ChangeBegin(q, i) \/ InvoiceCreate(q, i)
       \/ InvoiceEdit(q) \/ InvoiceMove(q)

InvoicesSpec == InvoicesInit /\ [][InvoicesNext]_allVars

-----------------------------------------------------------------------------
(* Properties *)

(* "Paid and canceled invoices are frozen" (docs/user-guide.md): while its  *)
(* project is there, nothing of such an invoice changes, however many edits *)
(* and moves were on their way when it was paid or canceled.                *)
SettledFrozen ==
  [][\A i \in InvoiceIds :
       invoice[i].status \in {"paid", "canceled"} /\ Exists(project'[invoice[i].project]) =>
         invoice'[i] = invoice[i]]_allVars

(* A client sees no invoice its contacts were not told of ("Invoice marked  *)
(* sent | all contacts", docs/product-contract.md), whatever edits and      *)
(* moves overlap, but for those an edit showed after they were sent, and    *)
(* drafts that were canceled: neither tells anybody.                        *)
ShownAnnounced ==
  \A i \in Recorded : Shown(invoice[i]) => i \in announced \cup quiet

(* An invoice is over the amount last typed for it, however edits, moves    *)
(* and the end of its project overlap: as it reads, if it has the form      *)
(* asked for ("must look like 1250.00"), with or without decimals, and if   *)
(* the integers of that width hold it; beyond, w*100 wraps.                 *)
AmountsAsTyped ==
  \A i \in Recorded :
    LET t == typed[i]
        reads == t.whole * 100 + (CASE t.digits = <<>> -> 0
                                    [] Len(t.digits) = 1 -> 10 * t.digits[1]
                                    [] OTHER -> 10 * t.digits[1] + t.digits[2])
    IN ~t.minus /\ t.sign = "none" /\ reads <= MaxInt => invoice[i].amount = reads
=============================================================================
