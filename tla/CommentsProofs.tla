--------------------------- MODULE CommentsProofs ---------------------------
(***************************************************************************)
(* Proofs about Comments, for any versions, comments, authors and          *)
(* requests.                                                               *)
(*                                                                         *)
(* A comment is written on what its request had loaded.  That it is        *)
(* anchored needs the same of the requests: what a contact was shown when  *)
(* the comment was begun is still there when it is written, unless the     *)
(* whole project is gone.                                                  *)
(***************************************************************************)
EXTENDS Comments, TLAPS

\* What a contact has begun to comment on is the brief, or a version still shown.
RequestsAnchored ==
  \A r \in Requests :
    req[r].does = "comment" /\ req[r].by \in Contacts /\ project # "deleted"
      => req[r].target \in {Brief} \cup OpenedVersions

IInv == TypeOK /\ RequestsAnchored /\ ClientsCommentsAnchored

Rows ==
  [is : {"live", "tombstone", "deleted"}, target : Targets, by : Authors,
   visibility : {"internal", "client"}]

\* What a request has loaded, by what it does.
LEMMA LoadedFields ==
  ASSUME TypeOK, NEW r \in Requests
  PROVE  /\ req[r].does = "comment" => /\ req[r].target \in Targets
                                       /\ req[r].by \in Authors
                                       /\ req[r].visibility \in {"internal", "client"}
         /\ req[r].does = "erase" => req[r].comment \in Comments /\ req[r].by \in Authors
         /\ req[r].does \in {"share", "delete"} => req[r].version \in Versions
  <1>1. req[r] \in {Idle} \cup Loaded
    BY DEF TypeOK
  <1>2. CASE req[r] = Idle
    BY <1>2 DEF Idle
  <1>3. CASE req[r] \in [does : {"comment"}, target : Targets, by : Authors,
                         visibility : {"internal", "client"}]
    BY <1>3
  <1>4. CASE req[r] \in [does : {"erase"}, comment : Comments, by : Authors]
    BY <1>4
  <1>5. CASE req[r] \in [does : {"share", "delete"}, version : Versions]
    BY <1>5
  <1>6. CASE req[r] \in [does : {"discard", "delete project"}]
    BY <1>6
  <1>. QED
    BY <1>1, <1>2, <1>3, <1>4, <1>5, <1>6 DEF Loaded

\* A comment that is present has all its fields.
LEMMA PresentRows ==
  ASSUME TypeOK, NEW c \in Present
  PROVE  c \in Comments /\ comment[c] \in Rows
  BY DEF TypeOK, Present, NoComment, Rows

\* Of the comments Remove leaves those outside S, as they were.
LEMMA RemoveKeeps ==
  ASSUME TypeOK, NEW S \in SUBSET Present, Remove(S)
  PROVE  /\ comment' \in [Comments -> {NoComment} \cup Rows]
         /\ Present' = Present \ S
         /\ fresh' \subseteq Present'
         /\ \A c \in Present' : comment'[c] = comment[c]
  <1>1. \A c \in S : comment[c] \in Rows
    BY PresentRows
  <1>2. \A c \in S : [comment[c] EXCEPT !.is = "deleted"] \in Rows
    BY <1>1 DEF Rows
  <1>3. \A c \in S : [comment[c] EXCEPT !.is = "deleted"].is = "deleted"
    BY <1>1 DEF Rows
  <1>. QED
    BY <1>2, <1>3 DEF TypeOK, Remove, Present, NoComment, Rows

\* At first there is no comment.
LEMMA InitIInv == Init => IInv
  <1>. SUFFICES ASSUME Init PROVE IInv
    OBVIOUS
  <1>1. Present = {}
    BY DEF Init, Present, NoComment
  <1>2. TypeOK
    BY <1>1 DEF Init, TypeOK
  <1>3. RequestsAnchored
    BY DEF Init, RequestsAnchored, Idle
  <1>. QED
    BY <1>1, <1>2, <1>3 DEF IInv, ClientsCommentsAnchored

-----------------------------------------------------------------------------
(* Requests, versions and the project *)

\* A request loads, or is done; no row is written.
LEMMA RequestIInv ==
  ASSUME IInv, NEW r \in Requests, NEW what \in {Idle} \cup Loaded,
         req' = [req EXCEPT ![r] = what],
         what.does = "comment" /\ what.by \in Contacts /\ project # "deleted"
           => what.target \in {Brief} \cup OpenedVersions,
         UNCHANGED <<project, version, discarded, comment, fresh>>
  PROVE  IInv'
  BY DEF IInv, TypeOK, RequestsAnchored, ClientsCommentsAnchored, Present, OpenedVersions

\* Versions change, and none is taken from what the client is shown.
LEMMA VersionsIInv ==
  ASSUME IInv, version' \in [Versions -> {"unused", "draft", "shared", "settled", "deleted"}],
         OpenedVersions \subseteq OpenedVersions',
         \A r \in Requests : req'[r] = req[r] \/ req'[r] = Idle,
         req' \in [Requests -> {Idle} \cup Loaded],
         UNCHANGED <<project, discarded, comment, fresh>>
  PROVE  IInv'
  BY DEF IInv, TypeOK, RequestsAnchored, ClientsCommentsAnchored, Present, Idle

-----------------------------------------------------------------------------
(* One lemma per action that writes comments, and for loading them *)

\* A contact begins on what the pages show.
LEMMA CommentBeginIInv ==
  ASSUME IInv, NEW r \in Requests, NEW a \in Authors, CommentBegin(r, a)
  PROVE  IInv'
  <1>1. PICK t \in {Brief} \cup (IF a \in Staff THEN ExistingVersions ELSE OpenedVersions),
             vis \in {"internal", "client"} :
               Load(r, [does |-> "comment", target |-> t, by |-> a, visibility |-> vis])
    BY DEF CommentBegin
  <1>2. t \in Targets
    BY <1>1 DEF Targets, ExistingVersions, OpenedVersions
  <1>3. a \in Contacts => t \in {Brief} \cup OpenedVersions
    BY <1>1, AuthorsAssumption
  <1>4. [does |-> "comment", target |-> t, by |-> a, visibility |-> vis] \in Loaded
    BY <1>2 DEF Loaded
  <1>. QED
    BY <1>1, <1>3, <1>4, RequestIInv DEF Load

\* What was begun is written, on its target.
LEMMA CommentCommitIInv ==
  ASSUME IInv, NEW r \in Requests, NEW c \in Comments, CommentCommit(r, c)
  PROVE  IInv'
  <1>. DEFINE row == [is |-> "live", target |-> req[r].target,
                      by |-> req[r].by, visibility |-> req[r].visibility]
  <1>1. row \in Rows
    BY LoadedFields DEF IInv, CommentCommit, Rows
  <1>2. /\ comment' = [comment EXCEPT ![c] = row]
        /\ comment' \in [Comments -> {NoComment} \cup Rows]
    BY <1>1 DEF CommentCommit, IInv, TypeOK, Rows
  <1>3. Present' = Present \cup {c}
    BY <1>2 DEF Present, IInv, TypeOK
  <1>4. TypeOK'
    BY <1>2, <1>3 DEF CommentCommit, IInv, TypeOK, Rows, Done
  <1>5. RequestsAnchored'
    BY DEF CommentCommit, Done, IInv, TypeOK, RequestsAnchored, OpenedVersions, Idle
  <1>6. ClientsCommentsAnchored'
    <2>. SUFFICES ASSUME NEW d \in Present', comment'[d].by \in Contacts
                  PROVE  comment'[d].target \in {Brief} \cup OpenedVersions
      BY DEF ClientsCommentsAnchored, CommentCommit, OpenedVersions
    <2>1. CASE d = c
      BY <1>2, <2>1 DEF CommentCommit, IInv, TypeOK, RequestsAnchored
    <2>2. CASE d # c
      BY <1>2, <1>3, <2>2 DEF IInv, TypeOK, ClientsCommentsAnchored
    <2>. QED
      BY <2>1, <2>2
  <1>. QED
    BY <1>4, <1>5, <1>6 DEF IInv

\* A tombstone stays on its target.
LEMMA EraseCommitIInv ==
  ASSUME IInv, NEW r \in Requests, EraseCommit(r)
  PROVE  /\ IInv'
         /\ Present' = Present
         /\ \A c \in Present : /\ comment'[c].target = comment[c].target
                               /\ comment'[c].by = comment[c].by
                               /\ comment'[c].visibility = comment[c].visibility
                               /\ comment'[c] # comment[c] => c \in fresh
  <1>. DEFINE e == req[r].comment
  <1>1. e \in Present /\ e \in fresh /\ e \in Comments
    BY LoadedFields DEF EraseCommit, Erasable, IInv, TypeOK
  <1>2. comment' = [comment EXCEPT ![e] = [comment[e] EXCEPT !.is = "tombstone"]]
    BY DEF EraseCommit
  <1>3. comment[e] \in Rows
    BY <1>1, PresentRows DEF IInv
  <1>. HIDE DEF e
  <1>4. /\ comment'[e] \in Rows
        /\ comment'[e].is = "tombstone"
        /\ comment'[e].target = comment[e].target
        /\ comment'[e].by = comment[e].by
        /\ comment'[e].visibility = comment[e].visibility
    BY <1>1, <1>2, <1>3 DEF IInv, TypeOK, Rows
  <1>5. \A c \in Comments \ {e} : comment'[c] = comment[c]
    BY <1>1, <1>2 DEF IInv, TypeOK
  <1>6. comment' \in [Comments -> {NoComment} \cup Rows]
    BY <1>1, <1>2, <1>4, <1>5 DEF IInv, TypeOK, Rows
  <1>7. Present' = Present
    BY <1>1, <1>4, <1>5 DEF Present
  <1>8. TypeOK'
    BY <1>6, <1>7 DEF EraseCommit, Done, IInv, TypeOK, Rows
  <1>9. RequestsAnchored'
    BY DEF EraseCommit, Done, IInv, TypeOK, RequestsAnchored, OpenedVersions, Idle
  <1>10. ClientsCommentsAnchored'
    BY <1>4, <1>5, <1>7, PresentRows
    DEF EraseCommit, IInv, ClientsCommentsAnchored, OpenedVersions
  <1>. QED
    BY <1>1, <1>4, <1>5, <1>7, <1>8, <1>9, <1>10, PresentRows DEF IInv

\* The deliverable goes only while the client is shown none of its versions: what it
\* takes along are notes of staff.
LEMMA DeliverableDeleteIInv ==
  ASSUME IInv, NEW r \in Requests, DeliverableDelete(r)
  PROVE  IInv'
  <1>. DEFINE S == {c \in Present : comment[c].target \in ExistingVersions}
  <1>1. Remove(S) /\ OpenedVersions = {}
    BY DEF DeliverableDelete, NothingShared
  <1>. HIDE DEF S
  <1>2. S \in SUBSET Present
    BY DEF S
  <1>3. TypeOK'
    BY <1>1, <1>2, RemoveKeeps DEF DeliverableDelete, Done, IInv, TypeOK, Rows
  <1>4. RequestsAnchored'
    BY <1>1 DEF DeliverableDelete, Done, IInv, TypeOK, RequestsAnchored, Idle
  <1>5. ClientsCommentsAnchored'
    BY <1>1, <1>2, RemoveKeeps DEF IInv, ClientsCommentsAnchored
  <1>. QED
    BY <1>3, <1>4, <1>5 DEF IInv

\* With the project go all its comments.
LEMMA ProjectDeleteIInv ==
  ASSUME IInv, NEW r \in Requests, ProjectDelete(r)
  PROVE  IInv'
  <1>1. Present' = {} /\ comment' \in [Comments -> {NoComment} \cup Rows] /\ fresh' = {}
    BY RemoveKeeps DEF ProjectDelete, OfProject, IInv
  <1>2. TypeOK'
    BY <1>1 DEF ProjectDelete, Done, IInv, TypeOK, Rows
  <1>3. RequestsAnchored'
    BY DEF ProjectDelete, RequestsAnchored
  <1>. QED
    BY <1>1, <1>2, <1>3 DEF IInv, ClientsCommentsAnchored

-----------------------------------------------------------------------------

\* Every step keeps the invariant.
LEMMA StepIInv == IInv /\ [Next]_vars => IInv'
  <1>. SUFFICES ASSUME IInv, [Next]_vars PROVE IInv'
    OBVIOUS
  <1>1. ASSUME NEW v \in Versions, VersionCreate(v) \/ Settle(v) PROVE IInv'
    BY <1>1, VersionsIInv DEF VersionCreate, Settle, IInv, TypeOK, OpenedVersions
  <1>2. ASSUME NEW c \in Comments, GrowsOld(c) PROVE IInv'
    BY <1>2 DEF GrowsOld, IInv, TypeOK, RequestsAnchored, ClientsCommentsAnchored, Present,
                OpenedVersions
  <1>3. CASE CloseOrReopen
    BY <1>3 DEF CloseOrReopen, IInv, TypeOK, RequestsAnchored, ClientsCommentsAnchored,
                Present, OpenedVersions
  <1>4. ASSUME NEW r \in Requests, NEW a \in Authors, NEW c \in Comments, EraseBegin(r, a, c)
        PROVE  IInv'
    <2>1. [does |-> "erase", comment |-> c, by |-> a] \in Loaded
      BY DEF Loaded
    <2>. QED
      BY <1>4, <2>1, RequestIInv DEF EraseBegin, Load
  <1>5. ASSUME NEW r \in Requests, NEW v \in Versions, VersionBegin(r, v) PROVE IInv'
    <2>1. /\ [does |-> "share", version |-> v] \in Loaded
          /\ [does |-> "delete", version |-> v] \in Loaded
      BY DEF Loaded
    <2>. QED
      BY <1>5, <2>1, RequestIInv DEF VersionBegin, Load
  <1>6. ASSUME NEW r \in Requests, DeliverableBegin(r) \/ ProjectBegin(r) PROVE IInv'
    <2>1. [does |-> "discard"] \in Loaded /\ [does |-> "delete project"] \in Loaded
      BY DEF Loaded
    <2>. QED
      BY <1>6, <2>1, RequestIInv DEF DeliverableBegin, ProjectBegin, Load
  <1>7. ASSUME NEW r \in Requests, VersionShare(r) \/ VersionDelete(r) PROVE IInv'
    BY <1>7, VersionsIInv, LoadedFields
    DEF VersionShare, VersionDelete, Deletable, Done, IInv, TypeOK, OpenedVersions
  <1>8. ASSUME NEW r \in Requests, Fail(r) PROVE IInv'
    BY <1>8, RequestIInv DEF Fail, Done, Idle
  <1>9. CASE UNCHANGED vars
    BY <1>9 DEF vars, IInv, TypeOK, RequestsAnchored, ClientsCommentsAnchored, Present,
                OpenedVersions
  <1>. QED
    BY <1>1, <1>2, <1>3, <1>4, <1>5, <1>6, <1>7, <1>8, <1>9, CommentBeginIInv,
       CommentCommitIInv, EraseCommitIInv, DeliverableDeleteIInv, ProjectDeleteIInv
    DEF Next

(* The rows stay what they may be, and requests hold what is still shown.   *)
THEOREM Invariant == Spec => []IInv
  BY InitIInv, StepIInv, PTL DEF Spec

(* Comments, versions and requests are what their types say, and no comment *)
(* outlives its project.                                                    *)
THEOREM TypeCorrect == Spec => []TypeOK
  <1>1. IInv => TypeOK
    BY DEF IInv
  <1>. QED
    BY <1>1, Invariant, PTL

(* A comment of a contact is on the brief or on a version that is there and *)
(* no draft, whatever was shared, settled or deleted between the loading of *)
(* a request and its transaction.                                           *)
THEOREM CommentsAnchored == Spec => []ClientsCommentsAnchored
  <1>1. IInv => ClientsCommentsAnchored
    BY DEF IInv
  <1>. QED
    BY <1>1, Invariant, PTL

-----------------------------------------------------------------------------
(* What a client could read *)

\* A comment stays readable when it is there, on its target, which is still shown.
LEMMA ReadableKept ==
  ASSUME OpenedVersions \subseteq OpenedVersions', Present \subseteq Present',
         \A c \in Present : /\ comment'[c].target = comment[c].target
                            /\ comment'[c].visibility = comment[c].visibility
  PROVE  Readable \subseteq Readable'
  BY DEF Readable

\* One step, with the project there after it.
LEMMA StepReadableStays ==
  ASSUME IInv, [Next]_vars, project' # "deleted"
  PROVE  /\ Readable \subseteq Readable'
         /\ \A c \in Readable : comment'[c] # comment[c] => c \in fresh
  <1>. DEFINE Goal == /\ Readable \subseteq Readable'
                      /\ \A c \in Readable : comment'[c] # comment[c] => c \in fresh
  <1>. SUFFICES Goal
    OBVIOUS
  <1>1. ASSUME UNCHANGED <<version, comment>> PROVE Goal
    BY <1>1 DEF Readable, Present, OpenedVersions
  <1>2. ASSUME OpenedVersions \subseteq OpenedVersions', UNCHANGED comment PROVE Goal
    BY <1>2 DEF Readable, Present
  <1>3. ASSUME NEW v \in Versions, VersionCreate(v) \/ Settle(v) PROVE Goal
    BY <1>2, <1>3 DEF VersionCreate, Settle, OpenedVersions, IInv, TypeOK
  <1>4. ASSUME NEW r \in Requests, VersionShare(r) \/ VersionDelete(r) PROVE Goal
    BY <1>2, <1>4, LoadedFields
    DEF VersionShare, VersionDelete, Deletable, OpenedVersions, IInv, TypeOK
  <1>5. ASSUME NEW r \in Requests, NEW c \in Comments, CommentCommit(r, c) PROVE Goal
    <2>1. c \notin Present
      BY <1>5 DEF CommentCommit, Present, NoComment
    <2>2. \A d \in Present : d \in Present' /\ comment'[d] = comment[d]
      BY <1>5, <2>1 DEF CommentCommit, Present, IInv, TypeOK
    <2>. QED
      BY <1>5, <2>2 DEF CommentCommit, Readable, OpenedVersions
  <1>6. ASSUME NEW r \in Requests, EraseCommit(r) PROVE Goal
    <2>1. OpenedVersions' = OpenedVersions
      BY <1>6 DEF EraseCommit, OpenedVersions
    <2>. QED
      BY <1>6, <2>1, EraseCommitIInv, ReadableKept DEF Readable
  <1>7. ASSUME NEW r \in Requests, DeliverableDelete(r) PROVE Goal
    <2>. DEFINE S == {c \in Present : comment[c].target \in ExistingVersions}
    <2>1. Remove(S) /\ OpenedVersions = {}
      BY <1>7 DEF DeliverableDelete, NothingShared
    <2>2. \A c \in Readable : c \in Present \ S
      BY <2>1, TargetsAssumption DEF Readable, ExistingVersions
    <2>. HIDE DEF S
    <2>3. S \in SUBSET Present
      BY DEF S
    <2>. QED
      BY <2>1, <2>2, <2>3, RemoveKeeps DEF Readable, IInv
  <1>8. ASSUME NEW r \in Requests, ProjectDelete(r) PROVE Goal
    BY <1>8 DEF ProjectDelete
  <1>. QED
    BY <1>1, <1>3, <1>4, <1>5, <1>6, <1>7, <1>8
    DEF Next, vars, GrowsOld, CloseOrReopen, CommentBegin, EraseBegin, VersionBegin,
        DeliverableBegin, ProjectBegin, Load, Fail

(* While the project is there, what a client could read remains, and its    *)
(* text goes only within 15 minutes of posting.                             *)
THEOREM WhatClientsReadStays == Spec => ReadableStays
  <1>1. IInv /\ [Next]_vars =>
          [project' # "deleted" =>
             /\ Readable \subseteq Readable'
             /\ \A c \in Readable : comment'[c] # comment[c] => c \in fresh]_vars
    BY StepReadableStays
  <1>. QED
    BY <1>1, Invariant, PTL DEF Spec, ReadableStays
=============================================================================
