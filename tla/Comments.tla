------------------------------ MODULE Comments ------------------------------
(***************************************************************************)
(* Comments on the versions of a deliverable and on the brief of its       *)
(* project: who may write and erase one, whom it is shown to, and what is  *)
(* left of it when the version, the deliverable or the project goes.       *)
(*                                                                         *)
(* A comment names its target without a foreign key; only the project's    *)
(* deletion takes it along by itself.  A handler loads the comment's       *)
(* target, and whether the project is open, and writes in a transaction    *)
(* that knows the ids alone: by then the version may be shared or deleted, *)
(* the project closed or gone.  Several deliverables would not meet: there *)
(* is one.  The decisions on a version, and its creation, are single steps *)
(* here; the module Approval has their races.                              *)
(***************************************************************************)
CONSTANTS
  Versions,  \* ids for the versions of the deliverable
  Comments,  \* ids for comments
  Brief,     \* the target of a comment on the brief
  Staff,     \* members of the project
  Contacts,  \* contacts of its client
  None,      \* no target, no author
  Requests   \* requests in progress at once

Authors == Staff \cup Contacts
Targets == Versions \cup {Brief}

ASSUME TargetsAssumption == Brief \notin Versions /\ None \notin Targets
ASSUME AuthorsAssumption == Staff \cap Contacts = {} /\ None \notin Authors

VARIABLES
  project,    \* projects.status, and "deleted"
  version,    \* deliverable_versions: "unused", "draft", "shared", "settled", "deleted"
  discarded,  \* the deliverable is deleted
  comment,    \* comments: what is stored of each
  fresh,      \* those posted less than 15 minutes ago
  req         \* what each request has loaded

vars == <<project, version, discarded, comment, fresh, req>>

Idle == [does |-> "idle"]
Loaded ==
       [does : {"comment"}, target : Targets, by : Authors, visibility : {"internal", "client"}]
  \cup [does : {"erase"}, comment : Comments, by : Authors]
  \cup [does : {"share", "delete"}, version : Versions]
  \cup [does : {"discard", "delete project"}]

NoComment == [is |-> "none", target |-> None, by |-> None, visibility |-> "internal"]

Present == {c \in Comments : comment[c].is \in {"live", "tombstone"}}

\* What each row is; a comment's project is there (the foreign key).
TypeOK ==
  /\ project \in {"active", "closed", "deleted"}
  /\ version \in [Versions -> {"unused", "draft", "shared", "settled", "deleted"}]
  /\ discarded \in BOOLEAN
  /\ comment \in [Comments -> {NoComment} \cup
       [is : {"live", "tombstone", "deleted"}, target : Targets, by : Authors,
        visibility : {"internal", "client"}]]
  /\ fresh \subseteq Present
  /\ req \in [Requests -> {Idle} \cup Loaded]
  /\ project = "deleted" => Present = {}

Init ==
  /\ project = "active"
  /\ version = [v \in Versions |-> "unused"]
  /\ discarded = FALSE
  /\ comment = [c \in Comments |-> NoComment]
  /\ fresh = {}
  /\ req = [r \in Requests |-> Idle]

Load(r, what) ==
  /\ req[r] = Idle
  /\ req' = [req EXCEPT ![r] = what]
  /\ UNCHANGED <<project, version, discarded, comment, fresh>>

Done(r) == req' = [req EXCEPT ![r] = Idle]

\* The form is refused, the UPDATE or DELETE finds nothing, or the transaction fails.
Fail(r) ==
  /\ req[r] # Idle
  /\ Done(r)
  /\ UNCHANGED <<project, version, discarded, comment, fresh>>

\* DELETE FROM comments, and the cascade of the projects.
Remove(S) ==
  /\ comment' = [c \in Comments |-> IF c \in S THEN [comment[c] EXCEPT !.is = "deleted"]
                                               ELSE comment[c]]
  /\ fresh' = fresh \ S

-----------------------------------------------------------------------------
(* Comments *)

ExistingVersions == {v \in Versions : version[v] \in {"draft", "shared", "settled"}}

\* clientVersion: not a draft, also when it was withdrawn as one.
OpenedVersions == {v \in Versions : version[v] \in {"shared", "settled"}}

\* versionComment, intakeClarify, portalComment and portalIntakeComment: staff choose
\* who may read a comment on a version, all others are for the client too.
CommentBegin(r, a) ==
  /\ project = "active"
  /\ \E t \in {Brief} \cup (IF a \in Staff THEN ExistingVersions ELSE OpenedVersions) :
     \E vis \in {"internal", "client"} :
       /\ t = Brief \/ a \in Contacts => vis = "client"
       /\ Load(r, [does |-> "comment", target |-> t, by |-> a, visibility |-> vis])

\* addComment: the project's foreign key is all that is checked.
CommentCommit(r, c) ==
  /\ req[r].does = "comment"
  /\ project # "deleted"
  /\ comment[c] = NoComment
  /\ comment' = [comment EXCEPT ![c] = [is |-> "live", target |-> req[r].target,
                                        by |-> req[r].by, visibility |-> req[r].visibility]]
  /\ fresh' = fresh \cup {c}
  /\ Done(r)
  /\ UNCHANGED <<project, version, discarded>>

\* deleteOwnComment loads the comment's project, whoever wrote it.
EraseBegin(r, a, c) ==
  /\ project = "active"
  /\ c \in Present
  /\ Load(r, [does |-> "erase", comment |-> c, by |-> a])

\* author_id = ? AND deleted_at IS NULL AND created_at > now - 15 minutes
Erasable(a) == {c \in fresh : comment[c].is = "live" /\ comment[c].by = a}

EraseCommit(r) ==
  /\ req[r].does = "erase"
  /\ req[r].comment \in Erasable(req[r].by)
  /\ comment' = [comment EXCEPT ![req[r].comment].is = "tombstone"]
  /\ Done(r)
  /\ UNCHANGED <<project, version, discarded, fresh>>

\* 15 minutes after it was posted.
GrowsOld(c) ==
  /\ c \in fresh
  /\ fresh' = fresh \ {c}
  /\ UNCHANGED <<project, version, discarded, comment, req>>

-----------------------------------------------------------------------------
(* Versions *)

\* versionCreate, when the newest version is decided or withdrawn.
VersionCreate(v) ==
  /\ project = "active" /\ ~discarded
  /\ version[v] = "unused"
  /\ \A w \in Versions : version[w] \notin {"draft", "shared"}
  /\ version' = [version EXCEPT ![v] = "draft"]
  /\ UNCHANGED <<project, discarded, comment, fresh, req>>

\* portalDecide, or versionWithdraw, also of a draft.
Settle(v) ==
  /\ project = "active"
  /\ version[v] \in {"draft", "shared"}
  /\ version' = [version EXCEPT ![v] = "settled"]
  /\ UNCHANGED <<project, discarded, comment, fresh, req>>

VersionBegin(r, v) ==
  /\ project = "active"
  /\ v \in ExistingVersions
  /\ \/ Load(r, [does |-> "share", version |-> v])
     \/ Load(r, [does |-> "delete", version |-> v])

VersionShare(r) ==
  /\ req[r].does = "share"
  /\ version[req[r].version] = "draft"
  /\ version' = [version EXCEPT ![req[r].version] = "shared"]
  /\ Done(r)
  /\ UNCHANGED <<project, discarded, comment, fresh>>

\* Mutant: what was loaded is deleted, whatever it has become.
DeletableLoaded(v) == v \in ExistingVersions

\* DELETE ... WHERE id = ? AND state = 'draft'
Deletable(v) == version[v] = "draft"

\* versionDelete leaves the comments of the version.
VersionDelete(r) ==
  /\ req[r].does = "delete"
  /\ Deletable(req[r].version)
  /\ version' = [version EXCEPT ![req[r].version] = "deleted"]
  /\ Done(r)
  /\ UNCHANGED <<project, discarded, comment, fresh>>

DeliverableBegin(r) ==
  /\ project = "active" /\ ~discarded
  /\ Load(r, [does |-> "discard"])

\* Mutant: the versions are counted when the deliverable is loaded.
NothingSharedOnce == TRUE

\* count(*) of the versions WHERE state != 'draft'
NothingShared == OpenedVersions = {}

\* deliverableDelete: with its versions and their comments.
DeliverableDelete(r) ==
  /\ req[r].does = "discard"
  /\ ~discarded /\ project # "deleted"
  /\ NothingShared
  /\ discarded' = TRUE
  /\ version' = [v \in Versions |-> IF v \in ExistingVersions THEN "deleted" ELSE version[v]]
  /\ Remove({c \in Present : comment[c].target \in ExistingVersions})
  /\ Done(r)
  /\ UNCHANGED project

-----------------------------------------------------------------------------
(* The project *)

\* projectClose, or a sign-off; projectReopen.
CloseOrReopen ==
  /\ project # "deleted"
  /\ project' = IF project = "active" THEN "closed" ELSE "active"
  /\ UNCHANGED <<version, discarded, comment, fresh, req>>

ProjectBegin(r) ==
  /\ project = "closed"
  /\ Load(r, [does |-> "delete project"])

\* Mutant: comments go with the versions they are on.
OnVersions == {c \in Present : comment[c].target \in Versions}

\* ON DELETE CASCADE, by project_id
OfProject == Present

\* deleteProjects, by projectDelete or clientDelete.
ProjectDelete(r) ==
  /\ req[r].does = "delete project"
  /\ project # "deleted"
  /\ project' = "deleted"
  /\ discarded' = TRUE
  /\ version' = [v \in Versions |-> IF v \in ExistingVersions THEN "deleted" ELSE version[v]]
  /\ Remove(OfProject)
  /\ Done(r)

Next ==
  \/ \E v \in Versions : VersionCreate(v) \/ Settle(v)
  \/ \E c \in Comments : GrowsOld(c)
  \/ CloseOrReopen
  \/ \E r \in Requests :
       \/ \E a \in Authors : CommentBegin(r, a) \/ \E c \in Comments : EraseBegin(r, a, c)
       \/ \E c \in Comments : CommentCommit(r, c)
       \/ \E v \in Versions : VersionBegin(r, v)
       \/ DeliverableBegin(r) \/ ProjectBegin(r)
       \/ EraseCommit(r) \/ VersionShare(r) \/ VersionDelete(r)
       \/ DeliverableDelete(r) \/ ProjectDelete(r) \/ Fail(r)

Spec == Init /\ [][Next]_vars

-----------------------------------------------------------------------------
(* Properties *)

\* What the client's pages show: loadComments without the internal ones, on the brief
\* and on the versions that are not drafts.
Readable ==
  {c \in Present : comment[c].visibility = "client" /\ comment[c].target \in {Brief} \cup OpenedVersions}

(* A comment of a contact is on the brief, or on a version that is still    *)
(* there and no draft: no request that deletes a draft or a deliverable,    *)
(* loaded before the version was shared, takes the target away from under   *)
(* it.  Notes of staff on a draft may be left without their version.        *)
ClientsCommentsAnchored ==
  \A c \in Present :
    comment[c].by \in Contacts => comment[c].target \in {Brief} \cup OpenedVersions

(* What a client could read stays (docs/product-contract.md: a tombstone    *)
(* stays, "Never deleted otherwise"): while the project is there, a comment *)
(* a client could read remains on its version, and its text goes only       *)
(* within 15 minutes of posting.                                            *)
ReadableStays ==
  [][project' # "deleted" =>
       /\ Readable \subseteq Readable'
       /\ \A c \in Readable : comment'[c] # comment[c] => c \in fresh]_vars
=============================================================================
