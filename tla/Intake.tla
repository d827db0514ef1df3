------------------------------ MODULE Intake ------------------------------
(***************************************************************************)
(* The brief of one project: the rows of intake_responses, which the       *)
(* client's contacts save and submit, and the e-mail a submission queues   *)
(* for the staff.                                                          *)
(*                                                                         *)
(* portalIntakeSave checks that the project is open when it loads it, and  *)
(* does the rest in one transaction: it looks for the draft, changes it or *)
(* inserts the next version, and notifies.  Several contacts save at once, *)
(* so the draft one of them has on the screen may be submitted, and a new  *)
(* one begun, before the save arrives.  notify queues an e-mail under a    *)
(* dedupe key; a key that is taken makes the e-mail a no-op.               *)
(***************************************************************************)
EXTENDS Naturals, FiniteSets, FiniteSetsExt

CONSTANTS
  Contacts,    \* the contacts of the organization: one save each at a time
  Staff,       \* the project's assigned staff and the owner
  Answers,     \* what can be answered
  Goalless,    \* the answers that say nothing under "goals"
  MaxVersions  \* bound on the versions of the brief

ASSUME GoallessAssumption == Goalless \subseteq Answers
ASSUME MaxVersionsAssumption == MaxVersions \in Nat

VARIABLES
  rows,      \* intake_responses
  project,   \* projects.status
  loaded,    \* contacts whose save has found the project open
  wants,     \* staff with users.email_notifications
  outbox,    \* the mail.send jobs of this kind, with their dedupe key
  owed       \* history: the e-mails the submissions called for

vars == <<rows, project, loaded, wants, outbox, owed>>

Rows == [version : 1..MaxVersions, status : {"draft", "submitted"}, answers : Answers]
Mails == [key : Nat, to : Staff, about : 1..MaxVersions]

TypeOK ==
  /\ rows \subseteq Rows
  /\ project \in {"active", "closed"}
  /\ loaded \subseteq Contacts
  /\ wants \subseteq Staff
  /\ outbox \subseteq Mails
  /\ owed \subseteq [to : Staff, about : 1..MaxVersions]

Init ==
  /\ rows = {}
  /\ project = "active"
  /\ loaded = {}
  /\ wants = Staff
  /\ outbox = {} /\ owed = {}

-----------------------------------------------------------------------------
Versions == {i.version : i \in rows}

\* COALESCE(max(version), 0)
MaxVersion == IF rows = {} THEN 0 ELSE Max(Versions)

\* Mutant: the newest row is taken for the draft.
NewestRow == {i \in rows : i.version = MaxVersion}

\* Mutant: the draft is not looked for.
NoDraft == {}

\* The row with status = 'draft': none or one.
Draft == {i \in rows : i.status = "draft"}

\* Mutant: a new row takes the number of the newest one.
WrittenOver == IF Draft # {} THEN Max({i.version : i \in Draft}) ELSE MaxVersion

\* The version the saved answers are written to.
Written == IF Draft # {} THEN Max({i.version : i \in Draft}) ELSE MaxVersion + 1

\* UPDATE of the draft, or INSERT of the next version.
Upsert(status, a) ==
  /\ Written <= MaxVersions
  /\ rows' = {i \in rows : i.version # Written}
               \cup {[version |-> Written, status |-> status, answers |-> a]}

\* loadWritableProject
Load(c) ==
  /\ project = "active"
  /\ loaded' = loaded \cup {c}
  /\ UNCHANGED <<rows, project, wants, outbox, owed>>

\* An answer is too long, or the goals are missing from a submission.
Refuse(c) ==
  /\ c \in loaded
  /\ loaded' = loaded \ {c}
  /\ UNCHANGED <<rows, project, wants, outbox, owed>>

SaveDraft(c, a) ==
  /\ c \in loaded
  /\ Upsert("draft", a)
  /\ loaded' = loaded \ {c}
  /\ UNCHANGED <<project, wants, outbox, owed>>

\* The record's name in the e-mail's dedupe key: max(version) + 1, as read before
\* the row was written, also when the row written is the draft.
SubmissionKey == MaxVersion + 1

\* notify: ON CONFLICT (dedupe_key) DO NOTHING, and in-app only for who wants no
\* e-mail.
Notify(key, version) ==
  LET due == {u \in wants : ~ \E m \in outbox : m.key = key /\ m.to = u}
  IN /\ outbox' = outbox \cup {[key |-> key, to |-> u, about |-> version] : u \in due}
     /\ owed' = owed \cup {[to |-> u, about |-> version] : u \in wants}

Submit(c, a) ==
  /\ c \in loaded
  /\ a \notin Goalless
  /\ Upsert("submitted", a)
  /\ Notify(SubmissionKey, Written)
  /\ loaded' = loaded \ {c}
  /\ UNCHANGED <<project, wants>>

\* projectClose and projectReopen: modelled in full in Approval.
CloseOrReopen ==
  /\ project' = IF project = "active" THEN "closed" ELSE "active"
  /\ UNCHANGED <<rows, loaded, wants, outbox, owed>>

NotificationPref(u) ==
  /\ \/ wants' = wants \cup {u}
     \/ wants' = wants \ {u}
  /\ UNCHANGED <<rows, project, loaded, outbox, owed>>

Next ==
  \/ \E c \in Contacts : Load(c) \/ Refuse(c)
  \/ \E c \in Contacts, a \in Answers : SaveDraft(c, a) \/ Submit(c, a)
  \/ CloseOrReopen
  \/ \E u \in Staff : NotificationPref(u)

Spec == Init /\ [][Next]_vars

-----------------------------------------------------------------------------
(* Properties *)

\* There is one draft at most, it is the newest version, and the versions run from 1
\* without a gap, however the saves of several contacts interleave: loadIntake shows
\* the client the draft a save will write to.
DraftNewest ==
  /\ Versions = 1..Cardinality(rows)
  /\ \A i \in rows : i.status = "draft" => i.version = Cardinality(rows)

\* A version that was submitted never changes and never goes (contract: "Submitted
\* versions are immutable"), whatever a contact with an older page saves.
SubmittedFrozen ==
  [][\A i \in rows : i.status = "submitted" => i \in rows']_vars

\* "Intake submitted | assigned staff + owner" (contract 7): every submission queues
\* an e-mail to each of them who takes e-mail.
SubmissionsMailed ==
  \A o \in owed : \E m \in outbox : m.to = o.to /\ m.about = o.about
=============================================================================
