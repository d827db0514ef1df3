# BriefRelay: a TLA+ model

BriefRelay is a portal for a small agency: staff upload versions of deliverables, the client's contacts
approve them or ask for a revision and sign the project off. One Go process serves HTTP, keeps everything in
one SQLite database and one directory of files, and runs a queue of background jobs (mail, cleanup). These
modules model what that process decides and in which order, check it with TLC on small instances, and prove
their safety properties with TLAPS for instances of any size. Paths are relative to `src/`.

## 1. The system

### How it works

* **Two pools, one writer** (`internal/db/db.go`). Readers (`d.R`) run beside the single writer connection
  (`d.W`). `DB.Tx` runs a function in a write transaction on it, so transactions never interleave. Each
  module treats a transaction as one atomic step.
* **Load, then write** (`internal/web/*.go`). A handler loads and authorises its record on the reader pool,
  parses the form, and then writes in one transaction. Other requests commit in between: what the
  transaction does not check again is stale when it is used. This is where most of the hazards come from.
* **Outbox.** `notify` writes an in-app row and enqueues a `mail.send` job in the transaction of the event, under
  a dedupe key (event, record, user).
* **Files** live beside the database: no transaction spans both.
* **The worker** (`internal/jobs/jobs.go`) claims one job at a time, runs its handler, and finishes it in another
  transaction. Handlers: `mail.send`, `jobs.cleanup`, `sessions.cleanup`, `files.cleanup`, `demo.reset`.
* **The commands** `backup` and `restore` are processes of their own; `backup` runs beside the server.

### Inventory

| Component | State | Operations | Hard behaviour | What makes it correct |
|---|---|---|---|---|
| Domain rules (`internal/domain`) | none | Transition, NewVersion, InvoiceTransition | boundary cases | the contract's tables |
| Approval workflow (`deliverables.go`, `portal.go`, `projects.go`) | project status, deliverables, versions, decisions, waivers, sign-offs, audit | create, edit, delete, waive; version create, share, withdraw, delete; decide; sign off; close, reopen | stale loads in every handler; two-step checklist | one open version, the newest; numbers gap-free; decisions, audit and state agree; a sign-off's snapshot is true |
| Brief (`portal.go`) | intake rows | save, submit | several contacts at once; dedupe key read before the write | one draft, submitted rows frozen, staff told of each submission |
| Comments (`portal.go`, `deliverables.go`) | comments, tombstones | post, delete own within 15 minutes | parents shared or deleted meanwhile, no foreign key to them | what the client could read stays; a client's comment keeps its version |
| Clients and projects (`clients.go`, `projects.go`, `export.go`) | client_orgs, projects | create, archive, unarchive, delete; create, close, reopen, delete | irreversible operations on stale checks | archived only over closed projects; only closed or archived things deleted |
| Team, contacts, invitations (`admin.go`, `clients.go`) | memberships, contacts, invitations | invite, accept, revoke, remove | accept against revoke, re-invite and remove | single use; one account per e-mail and contact |
| Accounts and sessions (`account.go`, `server.go`, `internal/auth`) | users, sessions, resets | login, logout, reset, change | a login or a reset beside a change | a change ends the other sessions; resets single use |
| Project membership (`projects.go`) | project_members | add, remove | teamRemove meanwhile | members are staff |
| Invoices (`invoices.go`) | invoices | create, edit, status | edit against status; money parsing | paid and canceled are final; shown is announced; amounts exact |
| Milestones (`projects.go`) | milestones | create, edit, delete | little | visibility |
| Notifications (`notify.go`) | inbox, e-mail preference | notify, read | dedupe keys | every recipient once |
| Jobs (`internal/jobs`) | jobs, worker | enqueue, claim, run, finish, purge, stop | crash, SIGTERM, lost answers, stale locks | bounded effects and attempts; every job settles |
| Mail (`internal/mail`) | none | Send | accepted, but the answer lost | an error means it may be sent again |
| Files and retention (`internal/storage`, `cleanupFiles`) | files rows, blobs, temporary files | upload, replace, delete, purge | crash between disk and database | live rows have blobs; deleted ones go |
| Settings (`settings.go`) | workspace row, cache in memory | save, load | two saves | cache current, logo live |
| Backup, restore (`internal/backup`) | archive | Write, Restore | files go during the walk; half-finished restore | archive whole |
| Export, import (`export.go`) | none of its own | CSV, zip | none (read-only, or one transaction) | client-visible content only |
| Pages, search, HTTP, limiter, configuration, seed | little | rendering, routing, start-up | none of these protocols | roles (`matrix_test.go`) |

Interactions: handlers call `notify`, `notify` enqueues jobs, the worker calls mail and `cleanupFiles`;
approval, invoices and settings insert and mark files; deleting a client deletes projects, which deletes the
approval records and marks their files; settings feed every page through the cache.

## 2. The modules

| Module | Models | Checked by | Proved in |
|---|---|---|---|
| `Domain` | the pure rules of `domain.go` | through `Approval` | through `ApprovalProofs` |
| `Approval` | one project and the handlers on it | `MCApproval` | `ApprovalProofs` |
| `ApprovalContract` | the approval state machine as the contract promises it: per deliverable, a history of version states changed by atomic steps | `ImplementsContract` | `ApprovalProofs` |
| `Jobs` | queue, worker, scheduler, process | itself | `JobsProofs` |
| `Files` | files on disk and in the database, cleanup, settings cache, backup, restore | `MCFiles` | `FilesProofs` |
| `Intake` | the brief of one project and its e-mails | `MCIntake` | `IntakeProofs` |
| `Clients` | lifecycle of clients and projects | `MCInvoices`, as a part of `Invoices` | `InvoicesProofs` |
| `Invoices` | invoices composed with `Clients`, and `parseMoney` | `MCInvoices` | `InvoicesProofs` |
| `Access` | invitations, contacts, accounts, project members | `MCAccess` | `AccessProofs` |
| `Sessions` | passwords, sessions, reset links | `MCSessions` | `SessionsProofs` |
| `Comments` | comments on versions and the brief | `MCComments` | `CommentsProofs` |

### Approval

A request is `req[r]`: `Idle`, or a record of what its handler has loaded. `XBegin` is the handler up to its
transaction (its guard: the checks made on what was loaded), `XCommit` the transaction (its guard: the
conditions it checks again, such as `WHERE id = ? AND state = ?` in `transition`), and `Abort` a rollback or a cut
connection at any point in between. `portalSignoff` reads twice before it writes and has three actions.
`versionCreate` judges the newest version inside its transaction, and so does the model. Row ids are drawn once, as
`db.NewID` does. Abstracted: texts, files, comments, access rights, notifications.
A handler reads the version and then its project; both reads are one step, since no check
relates the two. An update that changes nothing because its row is gone, and the audit event it still writes,
is not distinguished from `Abort`.

`History` maps the rows to the contract's state, the sequence of the states of each deliverable's versions;
`ImplementsContract` says that every step of every handler is a step of the contract or none.

### Jobs

A row is named by its dedupe key: every job has one but the password-reset mail (`forgotSubmit`), whose row no
second enqueue ever meets, so that it behaves as a key enqueued once.
`pc` is the worker's place in
`Run` and `RunOne`. Time is abstract: a lock becomes stale, a backoff elapses, a row grows old by steps of their
own. `Terminate` cancels the context (SIGTERM); the handler of a mail ignores it and the finishing
transaction does not. While `Sending` the worker waits for a mail server, without a deadline. The faults (crash, SIGTERM, a failed transaction, a lost answer) are bounded by
`MaxFaults`, and the properties count them.

### Files

An id stands for a file's row and its blob. An upload is temporary file, blob, row, in three steps, any of
which may be the last; deleting marks a row; the job purges blob and then row, and stops where a foreign key
refuses. `Server.prefs` is `cache`, stored by `loadPrefs` some time after it was read. A backup copies the database,
then lists and opens blobs one by one; it may be killed (the archive stays, broken off) or fail (it is removed).
`target` is the directory of a restore, which takes archives as `Write` makes them: it unpacks the database first,
then the blobs, and may stop at any entry; it begins only where there is no database. `DaysPass` and `HoursPass` are the 7 days and the 24 hours. Two
assumptions about time: an upload ends long before 24 hours (`ReadTimeout` is 5 minutes), and a backup within 7
days. The job lists at most 500 rows at once and takes the rest the next hour; the model lists all.

### Intake, Clients

`Intake` is the transaction of `portalIntakeSave` between contacts, with the dedupe keys of `notify` as they are
computed. Rows are named by their version, which is UNIQUE per project. `Clients` is `Approval`'s shape one
level up: requests carry what they loaded about a client or a project, and commit later. Both leave the texts out.

### Invoices

`Invoices` EXTENDS `Clients` and composes with it: `ClientStep` is any step of `Clients` followed by what the foreign
key does to the invoices of a project that goes, so that deleting a project, or its client, and editing an invoice
interleave. Requests about invoices are `form[q]`, apart from those of `Clients`; what their transaction reads again
(the status) is a guard or a value of the commit, the rest is from the load. Of an invoice's fields the visibility, the
status and the amount are kept. Documents are in `Files`. `Parsed` and `Minor` are `parseMoney`, `Storable` the CHECK of
the column, in signed integers up to `MaxInt`: decimals padded to two, a sign let through among them, products that wrap.

### Access

Handlers that ask everything in their transaction (`contactInvite`, `teamInvite`, `memberAdd`, the removals) are one
action. A request that accepts an invitation carries its id from `loadInvitation`; one of a signed-in user carries the
user, looked up by `withUser`, which is how `projectCreate` can commit for a user removed meanwhile. The one client
organization stands for each; `clientDelete` is possible at any time, since whether it is archived is `Clients`'
matter, and projects are there only for their members. Expiry is asked at the load only, so it is a load
that fails.

### Sessions

A password is the number of times its user has set one; a session's `proof` is the password it was opened with, or
that was chosen in it, as a history the properties compare. `LoginBegin` is `loginSubmit` up to the verified
password, `LoginCommit` its transaction, which asks nothing again but the user's row (the foreign key);
`PasswordChangeBegin` is `withUser` and `reauth` in one step: a change proves the password of a moment within the
request. `Join` is any account made with its first session (setup, or an accepted invitation, which `Access` models).
Owner and staff are alike, and `Remove` is possible for both. Hourly cleanup and expiry are steps.

### Comments

One project, one deliverable (others share nothing with it), its versions, and comments that name their target
without a foreign key. Requests load the target and the project's status, and write later. A version is `draft`,
`shared` or `settled` (decided or withdrawn): comments depend on no more. `versionCreate`, decisions and the closing of
the project are single steps here; `Approval` has their races. Notifications are left out.

## 3. The runs

| Run | Bounds | Shows |
|---|---|---|
| `approval_versions` | 2 requests, 1 deliverable, 3 versions, 1 sign-off | types, one open version, numbering, decisions, audit, reopening; what a snapshot calls approved is approved and stays so; the contract implemented |
| `jobs_queue` | 1 mail, 2 intervals, 2 attempts, 2 inserts, 2 faults of any kind | effects and attempts bounded by faults, settled for a reason, once per interval, every job settles unless a mail is sent for ever |
| `files_rows` | 2 documents, 3 images, a version, an invoice, 2 requests, 1 crash | live rows have blobs, live documents one owner; what is referred to is live, also the logo replaced from a stale cache |
| `files_retention` | 2 documents, a version, an invoice, 1 request, 1 backup, 1 crash | a walk that ends has every live file, and so has a restore that succeeds; deleted and broken files go in the end |
| `intake_brief` | 2 contacts, 3 versions, 3 answers | one draft, the newest; submitted rows frozen |
| `clients_invoices` | 1 client, 1 project, 2 requests; 1 invoice, 2 requests; 5 amounts typed, integers up to 2047 | no project without client; archived over closed projects, but for reopening; settled invoices frozen; what is shown was announced, but for two ways; amounts as typed |
| `access_invitations` | owner and 2 users, 2 contacts, 2 invitations, 3 addresses, a project, 2 requests | invitations single use, client accounts and contacts together, one way in, members on the team but for one removed while creating |
| `sessions_passwords` | 1 of the staff, 1 contact, 3 sessions, 2 links, 3 passwords each, 2 requests | a change ends the other sessions, but for a login under way; a link sets one password |
| `comments_threads` | 2 versions, 2 comments, 1 of the staff, 1 contact, 2 requests | a client's comment keeps its version; what the client could read stays |

Why these bounds are enough to mean something: two requests are needed and suffice for one to be stale while
another commits (a third would be stale against the same commits); three versions give an old, a middle and
a newest one, and a number given again after a draft was deleted; two attempts tell a retry from the last
one; two intervals tell a new interval from a restart within one, and the rows of the recurring job compete
with the mail's for the worker; three images let two saves replace the same logo. Three sessions are the one
that changes the password, one that must end, and a late one. One client and one project are enough in `clients_invoices` beside
the proofs for any number; the amounts typed have one decimal, two, too many units for the width, a sign among the decimals, and one before the number.
Every bound is a constant of its module and appears in a guard. Deadlock is checked except in `Invoices`, `Sessions` and
`Comments`, where all ids may be used up and their rows gone. `SYMMETRY` is used for safety only: no run with a liveness property has it.

Three runs look for a violation of what a document or a comment says and find it; each is one finding:

| Run | The source says | The run shows |
|---|---|---|
| `approval_gate` | sign-off only when every required deliverable is approved or waived (contract §5) | a required deliverable is created after the checklist was read, and the sign-off recorded |
| `files_cut` | a backup holds every uploaded file (`operations.md`) | it ends at the first file that goes away, and reports success |
| `intake_mail` | a submission is e-mailed to the staff (contract §7) | the second one takes a used key and is not |

The models reach further states that a document excludes; they are of the same kinds and have no run of their
own:

* A project's members are staff (contract §2), but `projectCreate` makes its creator a member by what `withUser` looked
  up, also when `teamRemove` came between (`projects.go:201`): `staffOf` then goes on notifying the removed user.
* A closed project is read-only for every role (contract §5), but only the load checks it (`authz.go:137`): a
  decision, or a second sign-off whose UPDATE of the project changes no row (`portal.go:601`), commits on a
  project closed meanwhile.
* Withdrawing a draft is audited only (contract §4), but `transition` notifies the contacts of every move
  (`deliverables.go:440`).
* A dedupe key is a no-op forever (`jobs.go:47`), but the key goes with the row that `Cleanup` purges (`jobs.go:199`).
* A notification happens at most once, ever (`notify.go:44`), but the mail of a job that finishes while the process
  shuts down is sent again after the restart: its transaction fails on the canceled context (`jobs.go:151`).
  `EffectsBounded` counts a shutdown among the faults.
* Failed sends are retried up to 5 times (`install.md:59`), but one that a silent server never answers does not fail:
  `mail.go:61` and the dialogue on port 465 set no deadline, the only worker waits, and with it mails, cleanup and the
  purge of files. `/healthz` then says that the worker has not ticked, and only the end of the process helps.
  `EventuallySettled` excepts this and nothing else.
* Reset links are revocable (contract §8), but an outstanding one survives a change of the password and another
  reset (`account.go:163`), and a change whose old password was proved before a reset overrules the reset's. A login
  that verified the old password before a change opens its session after it (`server.go:479`): `late` in `Sessions`.
* A comment is never deleted but by its author (contract §2), and there is no action for that (`operations.md:70`):
  there is one, and `deliverableDelete` deletes those on its drafts, while `versionDelete` leaves them behind
  (`deliverables.go:474`), in the archive too if they are for the client (`export.go:214`).
* A client is shown sent invoices (`user-guide.md:71`), but also a draft that was canceled, and one an edit made visible
  after it was sent, of which nobody is told (`invoices.go:149`): `quiet` in `Invoices`.
* parseMoney "turns 1234.56 into minor units" (`invoices.go:23`), but multiplies without a check: 184467440737095517.00
  is stored as 0.84 in 64 bits; signs among the decimals are read, so that 12.-5 is 11.95, and the one of -0.50 is lost.
* The settings cache is refreshed by its only writers (`settings.go:17`), but of two saves the one that read the
  older row may store last (`settings.go:166`), and the save after them then leaves a replaced logo live for good.
* Staff view the submitted brief (contract §3), but the next draft takes its place on the page (`portal.go:198`).
* A client is archived with all projects closed (contract §2), but a project of an archived client can be reopened
  (`projects.go:374`); only closed projects and archived clients are deleted (`export.go`), but both checks are
  made before the transaction.

## 4. Fairness

Safety needs none. `Jobs` assumes weak fairness of the worker but for `SendMail` (its loop runs as long as the process
does; database calls return; after a crash systemd starts the process again, after a SIGTERM whoever sent it does) and of
time (a backoff elapses, a lock becomes stale). That a mail server ever answers is not assumed, since nothing in
`mail.go` limits the wait: `EventuallySettled` says that every job settles or some mail is being sent for ever (`<>[]Sending`).
It is not assumed either that a transaction succeeds or that mail is accepted; a job settles because attempts run out.
Faults have no fairness and are bounded: with faults for ever a job may be cut off for ever.

`Files` assumes that the hourly job runs, that an upload ends, that a backup ends and that days and hours pass. The first
of these rests on `Jobs`: the job is one of the worker's, so `DeletedFilesPurged` and `TempFilesCleaned` hold as long as no
mail server holds the worker up.

## 5. What is proved

Every invariant, every action property and the refinement that a passing run checks is also a theorem of its
specification, for any sets of requests, records, users or files and any bound, and TLAPS checks the proof. A proof
module EXTENDS the module it is about. In each, the invariants are not inductive as they stand; `IInv` is what
makes them so, and the proof has one case per action. Where an action property follows (`SubmittedFrozen`, `SettledFrozen`,
`ReadableStays`), it is proved of each action from `IInv`.

| Theorem | Property | What the inductive invariant adds, and why |
|---|---|---|
| `ApprovalProofs`: `TypeCorrect`, `OneOpenVersion`, `GapFree` | `TypeOK`, `OnlyNewestOpen`, `NumbersGapFree` | see below |
| `OneDecisionEach`, `SignoffsTruthful`, `TrailAgrees` | `DecisionsAgree`, `SnapshotTruthful`, `AuditTrailAgrees` | each an invariant on top of `IInv` |
| `Refinement` | `ImplementsContract` | the same |
| `JobsProofs`: `TypeCorrect`, `EffectsOncePerFault`, `JobsSettledHonestly`, `RecurringOnce` | `TypeOK`, `EffectsBounded`, `SettledHonestly`, `OncePerInterval` | what is owed while a job is open: its effects and attempts are paid for by faults, but for one of the job in hand (`EffectsPaid`, `AttemptsPaid`); a purged row's interval is over (`IntervalsKept`) |
| `FilesProofs`: `TypeCorrect`, `LiveServable`, `ReferencedLive`, `OneOwner`, `BackupsWhole`, `RestoresWhole` | `TypeOK`, `LiveFilesServable`, `ReferencedFilesLive`, `DocumentsOwned`, `FinishedBackupWhole`, `RestoredWhole` | who may name a file: one held by a request is known to nobody else (`HeldApart`, `LogosKnown`), one being purged is deleted already (`DoomedDeleted`), and one in a snapshot is neither (`SnapshotKept`) |
| `IntakeProofs`: `TypeCorrect`, `DraftIsNewest`, `SubmittedStays` | `TypeOK`, `DraftNewest`, `SubmittedFrozen` | a save finds its row by number, so numbers are distinct (`VersionsDistinct`), and the rows are finitely many |
| `InvoicesProofs`: `ClientsStay`, `ArchivedClosed` (of `Clients`); `ClientsBesideInvoices` | `ProjectsHaveClient`, `ArchivedAllClosedButReopened` | inductive together; `ImplementsClients` carries them over to the composition |
| `InvoicesTypeCorrect`, `ClientsTold`, `AmountsRead`, `SettledStaysFrozen` | `InvoicesTypeOK`, `ShownAnnounced`, `AmountsAsTyped`, `SettledFrozen` | each amount is `Minor` of the text typed (`AmountsTyped`); `MinorReads` says what that is |
| `AccessProofs`: `TypeCorrect`, `OneAccountEach`, `ClientsBelong`, `LastLinkOnly`, `MembersOnTeam` | `TypeOK`, `InvitationSingleUse`, `ClientsAreContacts`, `OneWayIn`, `MembersOnTeamButLate` | an open invitation tells its contact's address (`InvitationsAddressed`), a bound contact is there (`BoundKept`), who began as staff was on the team (`StaffSignedIn`) |
| `SessionsProofs`: `TypeCorrect`, `SessionsCurrent`, `LinksSpentOnce` | `TypeOK`, `SessionsCurrentButLate`, `ResetSingleUse` | an account has a password (`PasswordsSet`), an unspent link has set none (`UnspentSetNone`) |
| `CommentsProofs`: `TypeCorrect`, `CommentsAnchored`, `WhatClientsReadStays` | `TypeOK`, `ClientsCommentsAnchored`, `ReadableStays` | what a contact has begun to comment on stays shown until the comment is written (`RequestsAnchored`) |

**Approval.** Adding a version is allowed by the state of the *newest* version, so the proof needs the newest to exist
and to be unique: numbers are distinct (`NumbersDistinct`) and run from 1 (`NumbersFromOne`), which also makes the
maximum exist; deleting a draft keeps that, because by `OnlyNewestOpen` itself a draft is the newest. Rows of deleted
deliverables must not be counted (`RowsLive`), and a transition loaded earlier must still be a legal move from the
state its statement names (`LoadedLegal`). `NumbersGapFree` follows: distinct numbers that run from 1 are as many as the
rows. `StepKinds` sorts every step into five kinds (a version added, passed on, decided, dropped, or a sign-off
recorded) or none, and the four other results are proved over those. `SnapshotTruthful` needs the same of a checklist
that is loaded and not yet recorded (`LoadedTruthful`); `AuditTrailAgrees` needs that an id not in use has no trail
(`FreeUntold`). The refinement maps the rows of a deliverable to the history of their states (`HistoryTrue`,
`HistoryOnly`): a row added lengthens one history by a draft (`AddsDraft`), a move changes its last entry (`MovesNewest`), a
deleted draft shortens it (`DropsDraft`), and all else is a stutter.

**Jobs.** `EffectsBounded` and `SettledHonestly` count faults that happened; the induction needs the account of each open
job. One in nobody's hands has had no effect and no attempt that a fault has not paid for. The one in the worker's
hands may be one ahead, and `Finish` settles it, or a fault does, which is counted already once the worker was told
to stop.

**Files.** Nothing locks disk and database together. What takes the place of a lock is that a file's row only moves
onward (unused, held by one request, live, deleted, purged), and `IInv` says at each stage who may name the file. A blob
that a snapshot needs cannot be purged during the walk, because its row is live or deleted for less than 7 days.

**Assumptions.** Only those named in the modules, and of these: a value that stands for "none" is not an id
(`NoDeliverableAssumption`, `NoKeyAssumption`, `NoFileAssumption`, `NoneAssumption`, and parts of others); kinds
that the tables keep apart are disjoint (`KindsAssumption`, `UsersAssumption`, `AuthorsAssumption`, `TargetsAssumption`,
`MailsAssumption`); bounds are natural numbers (`BoundsAssumption`, `MaxVersionsAssumption`,
`MaxPasswordsAssumption`, `MaxIntAssumption`); the versions are finitely many (`VersionIdsAssumption`), the owner is a user
(`OwnerAssumption`), the amounts typed are such as the form lets through (`TextsAssumption`). TLC evaluates each of them
in the runs.

**Only model-checked.** `EventuallySettled` of `Jobs` and `DeletedFilesPurged` and `TempFilesCleaned` of `Files`: liveness under
fairness, with ENABLED, is beyond the provers. The three violations are TLC's counterexamples.
No module declares a RECURSIVE operator, and no proof needs induction over data: what a module computes over
sequences (`Padded`, the `Paths` of the audit trail) has bounded length.

## 6. Plan

Modelled and proved, in this order: `Domain`, `Approval` and `ApprovalContract`; `Jobs`; `Files` with backup and restore;
`Intake`; `Clients`; `Access`; `Sessions`; `Comments`; `Invoices`. What is left:

1. The safety part of the liveness properties, as theorems: a job that is open has attempts left or is in hand, a
   deleted file is doomed or will be listed, so that only the fairness argument stays with TLC.
2. More abstract specifications for the modules that have none, with their refinements proved: the life of a file
   for `Files`, of an invitation for `Access`.

### Not modelled

* Milestones: one transaction writes or deletes a row, and no other step decides anything by it.
* The notification inbox and read marks: rows of one user that nothing else reads. The recipients and keys of mails
  are in `Intake`, whether contacts hear of an invoice in `Invoices`.
* The order of timestamps as texts: trailing zeros of a second's fraction are trimmed, so two moments within one
  second may compare the wrong way round; every comparison that decides is between moments further apart.
* Rendering, search, routing, headers, rate limits, configuration, sample data, password hashing and the SMTP
  dialogue: no state these properties speak of, or a library's.
