------------------------------- MODULE Domain -------------------------------
(***************************************************************************)
(* The business rules of src/internal/domain/domain.go: which role may     *)
(* move a deliverable version between which states, when a new version may *)
(* be added after the newest one, and how an invoice changes status.  They *)
(* are pure functions in the source and pure operators here; every module  *)
(* that moves a version or an invoice takes them from this one.            *)
(***************************************************************************)

\* The states of a deliverable version (domain.VersionState).
VersionState == {"draft", "shared", "revision_requested", "approved", "withdrawn"}

\* The states no transition leaves: a decision was made or the version withdrawn.
TerminalState == {"revision_requested", "approved", "withdrawn"}

\* The state a deliverable without versions shows (the empty latest state).
NoState == "none"

Role == {"owner", "staff", "client"}

IsStaff(role) == role \in {"owner", "staff"}

\* Mutant: staff may take back a version the client approved.
TransitionTakesBack(from, to, role) ==
  \/ <<from, to>> \in {<<"draft", "shared">>, <<"draft", "withdrawn">>,
                       <<"shared", "withdrawn">>, <<"approved", "withdrawn">>}
       /\ IsStaff(role)
  \/ <<from, to>> \in {<<"shared", "revision_requested">>, <<"shared", "approved">>}
       /\ role = "client"

\* Transition(from, to, role) = nil in the source.
Transition(from, to, role) ==
  \/ /\ <<from, to>> \in {<<"draft", "shared">>, <<"draft", "withdrawn">>,
                          <<"shared", "withdrawn">>}
     /\ IsStaff(role)
  \/ /\ <<from, to>> \in {<<"shared", "revision_requested">>, <<"shared", "approved">>}
     /\ role = "client"

\* Mutant: the default case, a version awaiting its decision, is let through.
NewVersionBesideShared(latest) == latest # "draft"

\* NewVersion(latest) returns no error: a new draft may follow this state.
NewVersionAllowed(latest) ==
  latest \in {NoState, "revision_requested", "withdrawn", "approved"}

\* Mutant: reopening an approved deliverable is like any other new version.
NeedsNoReason(latest) == FALSE

\* NewVersion(latest) asks for a reason: an approved deliverable is reopened.
NeedsReason(latest) == latest = "approved"

InvoiceStatus == {"draft", "sent", "paid", "canceled"}

\* InvoiceTransition(from, to) = nil in the source.
InvoiceTransition(from, to) ==
  \/ from = "draft" /\ to \in {"sent", "canceled"}
  \/ from = "sent" /\ to \in {"paid", "canceled"}
=============================================================================
