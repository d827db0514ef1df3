------------------------------ MODULE Approval ------------------------------
(***************************************************************************)
(* One project: its deliverables, their versions, the decisions and waivers *)
(* on them, the client's sign-offs, and the HTTP handlers that change them. *)
(*                                                                         *)
(* Every handler has the same shape in the source: it loads and authorises *)
(* on the reader pool, outside any transaction, and then writes in one     *)
(* transaction on the single writer connection (db.Tx).  Other requests    *)
(* commit in between.  So each handler is two actions here, XBegin (what   *)
(* was read and checked is kept in req[r]) and XCommit (the transaction,   *)
(* with the conditions it checks again and no others).  A transaction that *)
(* rolls back, and a request that is cut off, is Abort.                     *)
(*                                                                         *)
(* A row's id is drawn from a pool and never drawn again, as the random    *)
(* ids of db.NewID are.  Comments, files, notifications' recipients and    *)
(* access rights are not in this module.                                    *)
(***************************************************************************)
EXTENDS Naturals, Sequences, FiniteSets, Domain

CONSTANTS
  Requests,        \* the requests in progress at once
  DeliverableIds,  \* the ids deliverables draw from
  VersionIds,      \* the ids versions draw from
  NoDeliverable,   \* the deliverable of a version row that does not exist
  MaxSignoffs      \* bound on the sign-offs recorded

ASSUME NoDeliverableAssumption == NoDeliverable \notin DeliverableIds
ASSUME VersionIdsAssumption == IsFiniteSet(VersionIds)
ASSUME MaxSignoffsAssumption == MaxSignoffs \in Nat

VARIABLES
  project,    \* projects.status
  dstatus,    \* whether each deliverable row exists
  required,   \* deliverables.required
  waived,     \* the deliverables with a waiver row
  vstate,     \* deliverable_versions.state, or why the row does not exist
  vof,        \* deliverable_versions.deliverable_id
  vnum,       \* deliverable_versions.number
  decisions,  \* the decision rows of each version, oldest first
  trail,      \* the audited events of each version, oldest first
  signoffs,   \* the snapshots of the sign-off rows, oldest first
  req         \* what each request has loaded, Idle when there is none

deliverableVars == <<dstatus, required, waived>>
versionVars == <<vstate, vof, vnum, decisions, trail>>
tables == <<project, deliverableVars, versionVars, signoffs>>
vars == <<project, dstatus, required, waived, vstate, vof, vnum, decisions,
          trail, signoffs, req>>

-----------------------------------------------------------------------------
(* Types *)

RowGone == {"free", "deleted"}   \* an id not drawn yet, a row deleted

Decision == {"approved", "revision_requested"}

\* The audit actions written with a version's changes.
Event == {"deliverable.reopened", "version.shared", "version.withdrawn",
          "decision.approved", "decision.revision_requested"}

\* One required deliverable in the handoff checklist (handoffRow).
HandoffRow == [d : DeliverableIds, number : Nat, state : VersionState \cup {NoState},
               waived : BOOLEAN]

Idle == [op |-> "idle"]

\* What a handler carries from its reads into its transaction.
Loaded ==
       [op : {"deliverableCreate"}, required : BOOLEAN]
  \cup [op : {"deliverableEdit"}, d : DeliverableIds, required : BOOLEAN]
  \cup [op : {"deliverableDelete", "deliverableWaive"}, d : DeliverableIds]
  \cup [op : {"versionCreate"}, d : DeliverableIds, reason : BOOLEAN]
  \cup [op : {"transition"}, v : VersionIds, from : VersionState, to : VersionState]
  \cup [op : {"versionDelete"}, v : VersionIds]
  \cup [op : {"portalDecide"}, v : VersionIds, to : Decision]
  \cup [op : {"signoffHandoff", "projectClose", "projectReopen"}]
  \cup [op : {"signoffRecord"}, rows : SUBSET HandoffRow]

TypeOK ==
  /\ project \in {"active", "closed"}
  /\ dstatus \in [DeliverableIds -> {"live"} \cup RowGone]
  /\ required \subseteq DeliverableIds
  /\ waived \subseteq DeliverableIds
  /\ vstate \in [VersionIds -> VersionState \cup RowGone]
  /\ vof \in [VersionIds -> DeliverableIds \cup {NoDeliverable}]
  /\ vnum \in [VersionIds -> Nat]
  /\ decisions \in [VersionIds -> Seq(Decision)]
  /\ trail \in [VersionIds -> Seq(Event)]
  /\ signoffs \in Seq(SUBSET HandoffRow)
  /\ req \in [Requests -> Loaded \cup {Idle}]

-----------------------------------------------------------------------------
(* Queries *)

VersionsOf(d) == {v \in VersionIds : vof[v] = d}

\* ORDER BY number DESC LIMIT 1
IsNewest(v, d) == vof[v] = d /\ \A w \in VersionsOf(d) : vnum[w] <= vnum[v]
Newest(d) == CHOOSE v \in VersionIds : IsNewest(v, d)

LatestState(d) == IF VersionsOf(d) = {} THEN NoState ELSE vstate[Newest(d)]
LatestNumber(d) == IF VersionsOf(d) = {} THEN 0 ELSE vnum[Newest(d)]

\* loadHandoff: a row for each required deliverable.
Handoff ==
  {[d |-> d, number |-> LatestNumber(d), state |-> LatestState(d),
    waived |-> d \in waived] : d \in required}

Satisfied(row) == row.state = "approved" \/ row.waived
Ready(rows) == rows # {} /\ \A row \in rows : Satisfied(row)

-----------------------------------------------------------------------------
(* Requests *)

Writable == project = "active"   \* loadWritableProject: not Closed()

Begin(r, q) ==
  /\ req[r] = Idle
  /\ req' = [req EXCEPT ![r] = q]
  /\ UNCHANGED tables

Serving(r, op) == req[r].op = op

\* Mutant: what was loaded is left behind.
FinishKeeping(r) == req' = [req EXCEPT ![r].op = "idle"]

Finish(r) == req' = [req EXCEPT ![r] = Idle]

\* Mutant: the condition on the state is dropped from the statement.
RowExists(v, state) == vstate[v] \in VersionState

\* WHERE id = ? AND state = ?: the row is there and its state is the one expected.
StillIn(v, state) == vstate[v] = state

\* The transaction rolls back (a condition checked in it fails, the client has
\* gone, the database reports an error) or the process stops before it.
Abort(r) ==
  /\ req[r] # Idle
  /\ Finish(r)
  /\ UNCHANGED tables

-----------------------------------------------------------------------------
(* Deliverables (staff; a waiver is the owner's) *)

DeliverableCreateBegin(r) ==
  /\ Writable
  /\ \E required_ \in BOOLEAN :
       Begin(r, [op |-> "deliverableCreate", required |-> required_])

DeliverableCreateCommit(r) ==
  /\ Serving(r, "deliverableCreate")
  /\ \E d \in DeliverableIds :
       /\ dstatus[d] = "free"
       /\ dstatus' = [dstatus EXCEPT ![d] = "live"]
       /\ required' = IF req[r].required THEN required \cup {d} ELSE required
  /\ Finish(r)
  /\ UNCHANGED <<project, waived, versionVars, signoffs>>

DeliverableEditBegin(r) ==
  /\ Writable
  /\ \E d \in DeliverableIds, required_ \in BOOLEAN :
       /\ dstatus[d] = "live"
       /\ Begin(r, [op |-> "deliverableEdit", d |-> d, required |-> required_])

\* The UPDATE changes no row when the deliverable has been deleted meanwhile.
DeliverableEditCommit(r) ==
  /\ Serving(r, "deliverableEdit")
  /\ dstatus[req[r].d] = "live"
  /\ required' = IF req[r].required THEN required \cup {req[r].d}
                                    ELSE required \ {req[r].d}
  /\ Finish(r)
  /\ UNCHANGED <<project, dstatus, waived, versionVars, signoffs>>

DeliverableDeleteBegin(r) ==
  /\ Writable
  /\ \E d \in DeliverableIds :
       /\ dstatus[d] = "live"
       /\ Begin(r, [op |-> "deliverableDelete", d |-> d])

\* Mutant: only a version awaiting a decision keeps the deliverable.
NoneShared(d) == \A v \in VersionsOf(d) : vstate[v] # "shared"

\* No version of it has left draft.
AllDraft(d) == \A v \in VersionsOf(d) : vstate[v] = "draft"

\* Refused when a version has left draft; the versions and waivers go with it.
DeliverableDeleteCommit(r) ==
  /\ Serving(r, "deliverableDelete")
  /\ LET d == req[r].d IN
       /\ dstatus[d] = "live"
       /\ AllDraft(d)
       /\ dstatus' = [dstatus EXCEPT ![d] = "deleted"]
       /\ required' = required \ {d}
       /\ waived' = waived \ {d}
       /\ vstate' = [v \in VersionIds |-> IF vof[v] = d THEN "deleted" ELSE vstate[v]]
       /\ vof' = [v \in VersionIds |-> IF vof[v] = d THEN NoDeliverable ELSE vof[v]]
       /\ vnum' = [v \in VersionIds |-> IF vof[v] = d THEN 0 ELSE vnum[v]]
  /\ Finish(r)
  /\ UNCHANGED <<project, decisions, trail, signoffs>>

DeliverableWaiveBegin(r) ==
  /\ Writable
  /\ \E d \in DeliverableIds :
       /\ dstatus[d] = "live"
       /\ Begin(r, [op |-> "deliverableWaive", d |-> d])

\* The foreign key refuses a waiver on a deliverable deleted meanwhile.
DeliverableWaiveCommit(r) ==
  /\ Serving(r, "deliverableWaive")
  /\ dstatus[req[r].d] = "live"
  /\ waived' = waived \cup {req[r].d}
  /\ Finish(r)
  /\ UNCHANGED <<project, dstatus, required, versionVars, signoffs>>

-----------------------------------------------------------------------------
(* Versions (staff) *)

VersionCreateBegin(r) ==
  /\ Writable
  /\ \E d \in DeliverableIds, reason \in BOOLEAN :
       /\ dstatus[d] = "live"
       /\ Begin(r, [op |-> "versionCreate", d |-> d, reason |-> reason])

\* The newest version is read again in the transaction, and the number taken from it.
VersionCreateCommit(r) ==
  /\ Serving(r, "versionCreate")
  /\ LET d == req[r].d IN
       /\ dstatus[d] = "live"
       /\ NewVersionAllowed(LatestState(d))
       /\ NeedsReason(LatestState(d)) => req[r].reason
       /\ \E v \in VersionIds :
            /\ vstate[v] = "free"
            /\ vstate' = [vstate EXCEPT ![v] = "draft"]
            /\ vof' = [vof EXCEPT ![v] = d]
            /\ vnum' = [vnum EXCEPT ![v] = LatestNumber(d) + 1]
            /\ trail' = IF NeedsReason(LatestState(d))
                        THEN [trail EXCEPT ![v] = Append(@, "deliverable.reopened")]
                        ELSE trail
  /\ Finish(r)
  /\ UNCHANGED <<project, deliverableVars, decisions, signoffs>>

\* versionShare and versionWithdraw: the transition is judged on the state read here.
TransitionBegin(r) ==
  /\ Writable
  /\ \E v \in VersionIds, to \in {"shared", "withdrawn"} :
       /\ Transition(vstate[v], to, "staff")
       /\ Begin(r, [op |-> "transition", v |-> v, from |-> vstate[v], to |-> to])

TransitionCommit(r) ==
  /\ Serving(r, "transition")
  /\ StillIn(req[r].v, req[r].from)
  /\ vstate' = [vstate EXCEPT ![req[r].v] = req[r].to]
  /\ trail' = [trail EXCEPT ![req[r].v] =
                 Append(@, IF req[r].to = "shared" THEN "version.shared"
                                                   ELSE "version.withdrawn")]
  /\ Finish(r)
  /\ UNCHANGED <<project, deliverableVars, vof, vnum, decisions, signoffs>>

\* Any version can be named; whether it is a draft is asked in the transaction only.
VersionDeleteBegin(r) ==
  /\ Writable
  /\ \E v \in VersionIds :
       /\ vstate[v] \in VersionState
       /\ Begin(r, [op |-> "versionDelete", v |-> v])

VersionDeleteCommit(r) ==
  /\ Serving(r, "versionDelete")
  /\ StillIn(req[r].v, "draft")
  /\ vstate' = [vstate EXCEPT ![req[r].v] = "deleted"]
  /\ vof' = [vof EXCEPT ![req[r].v] = NoDeliverable]
  /\ vnum' = [vnum EXCEPT ![req[r].v] = 0]
  /\ Finish(r)
  /\ UNCHANGED <<project, deliverableVars, decisions, trail, signoffs>>

-----------------------------------------------------------------------------
(* The client's decision on a version *)

PortalDecideBegin(r) ==
  /\ Writable
  /\ \E v \in VersionIds, to \in Decision :
       /\ Transition(vstate[v], to, "client")
       /\ Begin(r, [op |-> "portalDecide", v |-> v, to |-> to])

PortalDecideCommit(r) ==
  /\ Serving(r, "portalDecide")
  /\ StillIn(req[r].v, "shared")
  /\ vstate' = [vstate EXCEPT ![req[r].v] = req[r].to]
  /\ decisions' = [decisions EXCEPT ![req[r].v] = Append(@, req[r].to)]
  /\ trail' = [trail EXCEPT ![req[r].v] =
                 Append(@, IF req[r].to = "approved" THEN "decision.approved"
                                                     ELSE "decision.revision_requested")]
  /\ Finish(r)
  /\ UNCHANGED <<project, deliverableVars, vof, vnum, signoffs>>

-----------------------------------------------------------------------------
(* Sign-off, close and reopen *)

\* portalSignoff reads the project, then the checklist, then writes: three steps.
SignoffBegin(r) ==
  /\ Writable
  /\ Begin(r, [op |-> "signoffHandoff"])

SignoffHandoff(r) ==
  /\ Serving(r, "signoffHandoff")
  /\ Ready(Handoff)
  /\ req' = [req EXCEPT ![r] = [op |-> "signoffRecord", rows |-> Handoff]]
  /\ UNCHANGED tables

\* The project is closed if it is still active; the sign-off is recorded either way.
SignoffRecord(r) ==
  /\ Serving(r, "signoffRecord")
  /\ Len(signoffs) < MaxSignoffs
  /\ signoffs' = Append(signoffs, req[r].rows)
  /\ project' = "closed"
  /\ Finish(r)
  /\ UNCHANGED <<deliverableVars, versionVars>>

ProjectCloseBegin(r) ==
  /\ Writable
  /\ Begin(r, [op |-> "projectClose"])

ProjectCloseCommit(r) ==
  /\ Serving(r, "projectClose")
  /\ project' = "closed"
  /\ Finish(r)
  /\ UNCHANGED <<deliverableVars, versionVars, signoffs>>

ProjectReopenBegin(r) ==
  /\ ~Writable
  /\ Begin(r, [op |-> "projectReopen"])

ProjectReopenCommit(r) ==
  /\ Serving(r, "projectReopen")
  /\ project' = "active"
  /\ Finish(r)
  /\ UNCHANGED <<deliverableVars, versionVars, signoffs>>

-----------------------------------------------------------------------------
Init ==
  /\ project = "active"
  /\ dstatus = [d \in DeliverableIds |-> "free"]
  /\ required = {}
  /\ waived = {}
  /\ vstate = [v \in VersionIds |-> "free"]
  /\ vof = [v \in VersionIds |-> NoDeliverable]
  /\ vnum = [v \in VersionIds |-> 0]
  /\ decisions = [v \in VersionIds |-> <<>>]
  /\ trail = [v \in VersionIds |-> <<>>]
  /\ signoffs = <<>>
  /\ req = [r \in Requests |-> Idle]

DeliverableStep(r) ==
  \/ DeliverableCreateBegin(r) \/ DeliverableCreateCommit(r)
  \/ DeliverableEditBegin(r) \/ DeliverableEditCommit(r)
  \/ DeliverableDeleteBegin(r) \/ DeliverableDeleteCommit(r)
  \/ DeliverableWaiveBegin(r) \/ DeliverableWaiveCommit(r)

VersionStep(r) ==
  \/ VersionCreateBegin(r) \/ VersionCreateCommit(r)
  \/ TransitionBegin(r) \/ TransitionCommit(r)
  \/ VersionDeleteBegin(r) \/ VersionDeleteCommit(r)
  \/ PortalDecideBegin(r) \/ PortalDecideCommit(r)

ProjectStep(r) ==
  \/ SignoffBegin(r) \/ SignoffHandoff(r) \/ SignoffRecord(r)
  \/ ProjectCloseBegin(r) \/ ProjectCloseCommit(r)
  \/ ProjectReopenBegin(r) \/ ProjectReopenCommit(r)

Next == \E r \in Requests :
  Abort(r) \/ DeliverableStep(r) \/ VersionStep(r) \/ ProjectStep(r)

Spec == Init /\ [][Next]_vars

-----------------------------------------------------------------------------
(* What the handlers promise together *)

\* Only the newest version of a deliverable may be a draft or await a decision;
\* every older one is decided or withdrawn.  versionCreate takes its number and
\* its permission from the newest version; two uploads racing each other, or one
\* racing a share, a decision or a deletion, must not leave two open versions.
OnlyNewestOpen ==
  \A d \in DeliverableIds : \A v, w \in VersionsOf(d) :
    vnum[v] < vnum[w] => vstate[v] \in TerminalState

\* The versions of a deliverable are numbered 1..n without a gap or a repeat,
\* also after drafts were deleted and their numbers given again (contract 4.4).
NumbersGapFree ==
  \A d \in DeliverableIds :
    /\ {vnum[v] : v \in VersionsOf(d)} = 1..Cardinality(VersionsOf(d))
    /\ dstatus[d] # "live" => VersionsOf(d) = {}

\* A version is approved or sent back exactly when it carries one decision row
\* saying so: two clients deciding at once, a decision racing a withdrawal and a
\* deletion racing both leave neither a second nor a lost decision.
DecisionsAgree ==
  \A v \in VersionIds :
    IF vstate[v] \in Decision THEN decisions[v] = <<vstate[v]>>
                              ELSE decisions[v] = <<>>

\* The events that bring a version into a state: shared before it was decided, one
\* entry for each change, nothing for a draft or a row deleted as one.
Paths(state) ==
  CASE state = "shared" -> {<<"version.shared">>}
    [] state = "approved" -> {<<"version.shared", "decision.approved">>}
    [] state = "revision_requested" -> {<<"version.shared", "decision.revision_requested">>}
    [] state = "withdrawn" -> {<<"version.withdrawn">>, <<"version.shared", "version.withdrawn">>}
    [] OTHER -> {<<>>}

\* The audit trail of a version tells its path, after the reopening it may begin with.
PathAudited(v) == \E path \in Paths(vstate[v]) :
  trail[v] \in {path, <<"deliverable.reopened">> \o path}

\* A version above an approved one was added with a reason, and its creation is
\* audited as a reopening; no other version is (contract 4, AT-6).
ReopeningAudited ==
  \A d \in DeliverableIds : \A v, w \in VersionsOf(d) :
    vnum[w] = vnum[v] + 1 =>
      (vstate[v] = "approved" <=> trail[w] # <<>> /\ Head(trail[w]) = "deliverable.reopened")

\* The audit trail and the rows agree, although each handler writes both from what
\* it loaded: every version's path, and every reopening of an approved deliverable.
AuditTrailAgrees == (\A v \in VersionIds : PathAudited(v)) /\ ReopeningAudited

\* A sign-off's snapshot stays true: it names something, each deliverable in it
\* was approved or waived when it was read, and a version it calls approved is
\* approved still, whatever was withdrawn, deleted or reopened between the
\* reading and the recording or since.
SnapshotTruthful ==
  \A i \in DOMAIN signoffs :
    /\ Ready(signoffs[i])
    /\ \A row \in signoffs[i] : row.state = "approved" =>
         \E v \in VersionsOf(row.d) : vnum[v] = row.number /\ vstate[v] = "approved"

\* The versions of a deliverable, as the contract sees them: the sequence of
\* their states, version n at position n.
History == [d \in DeliverableIds |->
  [n \in 1..Cardinality(VersionsOf(d)) |->
     vstate[CHOOSE v \in VersionsOf(d) : vnum[v] = n]]]

Contract == INSTANCE ApprovalContract WITH history <- History

\* The handlers, with their stale reads, implement the approval state machine
\* of the contract, in which every step reads and writes at once.
ImplementsContract == Contract!Spec

-----------------------------------------------------------------------------
(* What the documents say and the handlers do not keep *)

\* "Sign-off is available only when every deliverable with required = true has
\* its newest version approved, or carries a Waiver" (contract 5): when a
\* sign-off is recorded, so it is with every deliverable required at that moment.
SignoffOnlyWhenReady ==
  [][signoffs' # signoffs => \A row \in Handoff : Satisfied(row)]_vars
=============================================================================
