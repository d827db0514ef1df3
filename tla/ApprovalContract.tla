-------------------------- MODULE ApprovalContract --------------------------
(***************************************************************************)
(* The approval state machine of section 4 of docs/product-contract.md, as *)
(* domain.go gives it: each deliverable is the sequence of its versions'   *)
(* states, version n at position n, and only the newest one ever changes.  *)
(* There are no requests here: each step reads and writes at once.         *)
(***************************************************************************)
EXTENDS Naturals, Sequences, Domain

CONSTANT DeliverableIds

VARIABLE history

Newest(d) == history[d][Len(history[d])]
Latest(d) == IF history[d] = <<>> THEN NoState ELSE Newest(d)

\* Staff add a draft once the newest version is decided or withdrawn.
AddDraft(d) ==
  /\ NewVersionAllowed(Latest(d))
  /\ history' = [history EXCEPT ![d] = Append(@, "draft")]

\* Staff share or withdraw the newest version, or the client decides on it.
Move(d, to, role) ==
  /\ history[d] # <<>>
  /\ Transition(Newest(d), to, role)
  /\ history' = [history EXCEPT ![d][Len(history[d])] = to]

\* Staff delete the newest version while it is a draft.
DropDraft(d) ==
  /\ Latest(d) = "draft"
  /\ history' = [history EXCEPT ![d] = SubSeq(@, 1, Len(@) - 1)]

Init == history = [d \in DeliverableIds |-> <<>>]

Next == \E d \in DeliverableIds :
  /\ history' # history
  /\ \/ AddDraft(d)
     \/ \E to \in VersionState, role \in Role : Move(d, to, role)
     \/ DropDraft(d)

Spec == Init /\ [][Next]_history
=============================================================================
