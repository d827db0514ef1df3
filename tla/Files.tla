------------------------------- MODULE Files -------------------------------
(***************************************************************************)
(* Uploaded files: the rows of the table files, the blobs on disk, the     *)
(* records that refer to them, the hourly cleanup, backup and restore.     *)
(*                                                                         *)
(* No transaction spans the database and the disk.  An upload writes a     *)
(* temporary file, renames it under a random key (storage.Save), and then  *)
(* inserts its row in the transaction of the record it belongs to; a file  *)
(* that is replaced or whose record goes is only marked deleted, and       *)
(* cleanupFiles removes blob and row seven days later; a backup copies the *)
(* database first and the blobs one by one, and a restore unpacks them in  *)
(* that order.  Each of these steps is an action.  A file's id stands for  *)
(* its storage key too: both are random and drawn once.  Files hold no     *)
(* contents here, and time is what has passed: 7 days since a file was     *)
(* deleted, 24 hours since an upload broke off.                            *)
(***************************************************************************)
EXTENDS Naturals, FiniteSets

CONSTANTS
  Documents,   \* ids for the files of versions and invoices
  Images,      \* ids for logos
  NoFile,      \* no file
  Versions,    \* deliverable versions
  Invoices,    \* invoices
  Requests,    \* uploading requests in progress at once
  MaxBackups,  \* bound on the backups taken
  MaxCrashes   \* bound on the crashes

FileIds == Documents \cup Images
Holders == Versions \cup Invoices

ASSUME NoFileAssumption == NoFile \notin FileIds
ASSUME KindsAssumption == Documents \cap Images = {} /\ Versions \cap Invoices = {}
ASSUME BoundsAssumption == MaxBackups \in Nat /\ MaxCrashes \in Nat

VARIABLES
  row,       \* files: "unused" before the id is drawn, "none" without a row
  aged,      \* the rows marked deleted more than 7 days ago
  blobs,     \* the files in their place on disk
  temp,      \* the files half written in tmp/
  broken,    \* those of them more than 24 hours old
  records,   \* the versions and invoices that exist
  doc,       \* their file_id
  logo,      \* workspaces.logo_file_id
  cache,     \* the logo in Server.prefs
  req,       \* what each request holds
  cleaner,   \* the running files.cleanup job
  backup,    \* the backup command: its snapshot, what it packed, what is left
  target,    \* the data directory a backup is restored into
  crashes    \* crashes so far

diskVars == <<blobs, temp, broken>>
rowVars == <<row, aged>>
recordVars == <<records, doc, logo>>
commandVars == <<backup, target>>
vars == <<row, aged, blobs, temp, broken, records, doc, logo, cache, req, cleaner,
          backup, target, crashes>>

Optional(S) == S \cup {NoFile}

Idle == [at |-> "idle"]
Held ==
       [at : {"saving", "saved"}, file : Documents, holder : Holders]
  \cup [at : {"saving", "saved"}, file : Images]
  \cup [at : {"replacing"}, file : Images, old : Optional(Images)]
  \cup [at : {"reading"}]
  \cup [at : {"storing"}, read : Optional(Images)]

Resting == [at |-> "rest"]
Cleaning == [at : {"job"}, doomed : SUBSET FileIds, gone : Optional(FileIds)]

NoBackup(n) == [at |-> "none", taken |-> n]
Backups ==
       {NoBackup(n) : n \in 0..MaxBackups}
  \cup [at : {"walk", "torn", "cut", "done"}, taken : 1..MaxBackups, live : SUBSET FileIds,
        left : SUBSET FileIds, open : Optional(FileIds), packed : SUBSET FileIds]

EmptyTarget == [at |-> "empty"]
BrokenTarget == [at |-> "broken"]
Targets ==
       {EmptyTarget, BrokenTarget}
  \cup [at : {"unpack", "done"}, from : {"torn", "cut", "done"},
        live : SUBSET FileIds, left : SUBSET FileIds, files : SUBSET FileIds]

TypeOK ==
  /\ row \in [FileIds -> {"unused", "none", "live", "deleted"}]
  /\ aged \subseteq {f \in FileIds : row[f] = "deleted"}
  /\ blobs \subseteq FileIds
  /\ temp \subseteq FileIds /\ broken \subseteq temp
  /\ records \subseteq Holders
  /\ doc \in [Holders -> Optional(Documents)]
  /\ logo \in Optional(Images) /\ cache \in Optional(Images)
  /\ req \in [Requests -> Held \cup {Idle}]
  /\ cleaner \in Cleaning \cup {Resting}
  /\ backup \in Backups
  /\ target \in Targets
  /\ crashes \in 0..MaxCrashes

Init ==
  /\ row = [f \in FileIds |-> "unused"]
  /\ aged = {} /\ blobs = {} /\ temp = {} /\ broken = {} /\ records = {}
  /\ doc = [h \in Holders |-> NoFile]
  /\ logo = NoFile /\ cache = NoFile
  /\ req = [r \in Requests |-> Idle]
  /\ cleaner = Resting
  /\ backup = NoBackup(0)
  /\ target = EmptyTarget
  /\ crashes = 0

-----------------------------------------------------------------------------
(* Rows *)

Rows(state) == {f \in FileIds : row[f] = state}

\* Mutant: what the record referred to before is left as it is.
SoftDeleteNothing(rows, S) == rows

\* UPDATE files SET deleted_at = now WHERE id IN S: no effect without a row, the
\* seven days begin again for a row already marked.
SoftDelete(rows, S) == [f \in FileIds |->
  IF f \in S /\ rows[f] \in {"live", "deleted"} THEN "deleted" ELSE rows[f]]

\* Mutant: the file to replace is read after the record was changed.
ReplacedLate(r) == req[r].file

\* The file an upload takes the place of: the logo loaded, the invoice's document.
Replaced(r) == IF req[r].file \in Images THEN req[r].old ELSE doc[req[r].holder]

\* insertFile
Insert(f) == [row EXCEPT ![f] = "live"]

-----------------------------------------------------------------------------
(* Uploads *)

\* saveUpload: the upload streams into a temporary file.
UploadBegin(r) ==
  /\ req[r] = Idle
  /\ \E f \in Rows("unused") :
       /\ row' = [row EXCEPT ![f] = "none"]
       /\ temp' = temp \cup {f}
       /\ IF f \in Images
          THEN req' = [req EXCEPT ![r] = [at |-> "saving", file |-> f]]
          ELSE \E h \in (Holders \ records) \cup (Invoices \cap records) :
                 req' = [req EXCEPT ![r] = [at |-> "saving", file |-> f, holder |-> h]]
  /\ UNCHANGED <<aged, blobs, broken, recordVars, cache, cleaner, commandVars, crashes>>

\* Too large, cut off, or the disk is full: the temporary file is removed.
UploadFails(r) ==
  /\ req[r].at = "saving"
  /\ temp' = temp \ {req[r].file}
  /\ req' = [req EXCEPT ![r] = Idle]
  /\ UNCHANGED <<rowVars, blobs, broken, recordVars, cache, cleaner, commandVars, crashes>>

\* storage.Save: the file is complete and renamed under its key.
UploadSave(r) ==
  /\ req[r].at = "saving"
  /\ temp' = temp \ {req[r].file}
  /\ blobs' = blobs \cup {req[r].file}
  /\ req' = [req EXCEPT ![r].at = "saved"]
  /\ UNCHANGED <<rowVars, broken, recordVars, cache, cleaner, commandVars, crashes>>

\* Its content or the form is refused, or the transaction fails: the blob is removed.
UploadRejected(r) ==
  /\ req[r].at \in {"saved", "replacing"}
  /\ blobs' = blobs \ {req[r].file}
  /\ req' = [req EXCEPT ![r] = Idle]
  /\ UNCHANGED <<rowVars, temp, broken, recordVars, cache, cleaner, commandVars, crashes>>

\* versionCreate, invoiceCreate: the row and the record that refers to it.
CreateCommit(r) ==
  /\ req[r].at = "saved"
  /\ req[r].file \in Documents
  /\ req[r].holder \notin records
  /\ row' = Insert(req[r].file)
  /\ records' = records \cup {req[r].holder}
  /\ doc' = [doc EXCEPT ![req[r].holder] = req[r].file]
  /\ req' = [req EXCEPT ![r] = Idle]
  /\ UNCHANGED <<aged, diskVars, logo, cache, cleaner, commandVars, crashes>>

\* invoiceEdit with a new document: the one before, read in the transaction, goes.
EditCommit(r) ==
  /\ req[r].at = "saved"
  /\ req[r].file \in Documents
  /\ req[r].holder \in records \cap Invoices
  /\ row' = SoftDelete(Insert(req[r].file), {Replaced(r)})
  /\ aged' = aged \ {Replaced(r)}
  /\ doc' = [doc EXCEPT ![req[r].holder] = req[r].file]
  /\ req' = [req EXCEPT ![r] = Idle]
  /\ UNCHANGED <<diskVars, records, logo, cache, cleaner, commandVars, crashes>>

\* A version that is a link, an invoice without a document.
CreateWithoutFile(h) ==
  /\ h \notin records
  /\ records' = records \cup {h}
  /\ UNCHANGED <<rowVars, diskVars, doc, logo, cache, req, cleaner, commandVars, crashes>>

\* versionDelete, deliverableDelete (versions), projectDelete, clientDelete (both):
\* the records go, their files are marked.
Delete(S) ==
  /\ S # {}
  /\ records' = records \ S
  /\ doc' = [h \in Holders |-> IF h \in S THEN NoFile ELSE doc[h]]
  /\ row' = SoftDelete(row, {doc[h] : h \in S})
  /\ aged' = aged \ {doc[h] : h \in S}
  /\ UNCHANGED <<diskVars, logo, cache, req, cleaner, commandVars, crashes>>

-----------------------------------------------------------------------------
(* The logo (settingsSave) *)

\* The logo to replace is the one in the cache.
LogoLoad(r) ==
  /\ req[r].at = "saved"
  /\ req[r].file \in Images
  /\ req' = [req EXCEPT ![r] = [at |-> "replacing", file |-> req[r].file, old |-> cache]]
  /\ UNCHANGED <<rowVars, diskVars, recordVars, cache, cleaner, commandVars, crashes>>

LogoCommit(r) ==
  /\ req[r].at = "replacing"
  /\ row' = SoftDelete(Insert(req[r].file), {Replaced(r)})
  /\ aged' = aged \ {Replaced(r)}
  /\ logo' = req[r].file
  /\ req' = [req EXCEPT ![r] = [at |-> "reading"]]
  /\ UNCHANGED <<diskVars, records, doc, cache, cleaner, commandVars, crashes>>

\* Settings saved without a new logo.
SettingsCommit(r) ==
  /\ req[r] = Idle
  /\ req' = [req EXCEPT ![r] = [at |-> "reading"]]
  /\ UNCHANGED <<rowVars, diskVars, recordVars, cache, cleaner, commandVars, crashes>>

\* loadPrefs: the row is read, and then the cache replaced.
PrefsRead(r) ==
  /\ req[r].at = "reading"
  /\ req' = [req EXCEPT ![r] = [at |-> "storing", read |-> logo]]
  /\ UNCHANGED <<rowVars, diskVars, recordVars, cache, cleaner, commandVars, crashes>>

PrefsStore(r) ==
  /\ req[r].at = "storing"
  /\ cache' = req[r].read
  /\ req' = [req EXCEPT ![r] = Idle]
  /\ UNCHANGED <<rowVars, diskVars, recordVars, cleaner, commandVars, crashes>>

-----------------------------------------------------------------------------
(* cleanupFiles *)

\* Mutant: a file is purged as soon as it is marked.
DoomedAtOnce == Rows("deleted")

\* Mutant: a blob without a row is taken for a leftover.
DoomedOrphans == aged \cup (blobs \cap Rows("none"))

\* deleted_at IS NOT NULL AND deleted_at < now - 7 days
Doomed == aged

\* Mutant: no temporary file is ever old enough.
AbandonedNever == {}

\* The temporary files more than 24 hours old.
Abandoned == broken

\* CleanTemp, and then the rows to purge are listed.
CleanBegin ==
  /\ cleaner = Resting
  /\ temp' = temp \ Abandoned
  /\ broken' = broken \ Abandoned
  /\ cleaner' = [at |-> "job", doomed |-> Doomed, gone |-> NoFile]
  /\ UNCHANGED <<rowVars, blobs, recordVars, cache, req, commandVars, crashes>>

CleanBlob ==
  /\ cleaner # Resting
  /\ cleaner.gone = NoFile
  /\ \E f \in cleaner.doomed :
       /\ blobs' = blobs \ {f}
       /\ cleaner' = [cleaner EXCEPT !.gone = f]
  /\ UNCHANGED <<rowVars, temp, broken, recordVars, cache, req, commandVars, crashes>>

\* The foreign keys keep the row of a file that something refers to.
Referenced == ({doc[h] : h \in records} \cup {logo}) \ {NoFile}

CleanRow ==
  /\ cleaner # Resting
  /\ cleaner.gone # NoFile
  /\ cleaner.gone \notin Referenced
  /\ row' = [row EXCEPT ![cleaner.gone] = "none"]
  /\ aged' = aged \ {cleaner.gone}
  /\ cleaner' = [cleaner EXCEPT !.doomed = @ \ {cleaner.gone}, !.gone = NoFile]
  /\ UNCHANGED <<diskVars, recordVars, cache, req, commandVars, crashes>>

\* The list is done, or the row cannot be deleted and the job fails.
CleanEnd ==
  /\ cleaner # Resting
  /\ cleaner.doomed = {} \/ cleaner.gone \in Referenced
  /\ cleaner' = Resting
  /\ UNCHANGED <<rowVars, diskVars, recordVars, cache, req, commandVars, crashes>>

-----------------------------------------------------------------------------
(* The backup command, a process of its own *)

BackupBegin ==
  /\ backup.at # "walk"
  /\ backup.taken < MaxBackups
  /\ backup' = [at |-> "walk", taken |-> backup.taken + 1, live |-> Rows("live"),
                left |-> FileIds, open |-> NoFile, packed |-> {}]
  /\ UNCHANGED <<rowVars, diskVars, recordVars, cache, req, cleaner, target, crashes>>

\* The walk lists the directory of a key: the file is there or it is not.
BackupList ==
  /\ backup.at = "walk"
  /\ backup.open = NoFile
  /\ \E f \in backup.left :
       backup' = IF f \in blobs THEN [backup EXCEPT !.open = f]
                                ELSE [backup EXCEPT !.left = @ \ {f}]
  /\ UNCHANGED <<rowVars, diskVars, recordVars, cache, req, cleaner, target, crashes>>

Ended(how) == [backup EXCEPT !.at = how, !.left = {}, !.open = NoFile]

\* A listed file that is gone when it is opened ends the walk, and the error that
\* ends it is the one Write ignores.
BackupPack ==
  /\ backup.at = "walk"
  /\ backup.open # NoFile
  /\ backup' = IF backup.open \in blobs
               THEN [backup EXCEPT !.packed = @ \cup {backup.open},
                                   !.left = @ \ {backup.open}, !.open = NoFile]
               ELSE Ended("cut")
  /\ UNCHANGED <<rowVars, diskVars, recordVars, cache, req, cleaner, target, crashes>>

BackupEnd ==
  /\ backup.at = "walk"
  /\ backup.left = {}
  /\ backup' = Ended("done")
  /\ UNCHANGED <<rowVars, diskVars, recordVars, cache, req, cleaner, target, crashes>>

\* The command is killed: what it has written of the archive stays.
BackupDies ==
  /\ backup.at = "walk"
  /\ backup' = Ended("torn")
  /\ UNCHANGED <<rowVars, diskVars, recordVars, cache, req, cleaner, target, crashes>>

\* Any other error: the archive is removed.
BackupFails ==
  /\ backup.at = "walk"
  /\ backup' = NoBackup(backup.taken)
  /\ UNCHANGED <<rowVars, diskVars, recordVars, cache, req, cleaner, target, crashes>>

-----------------------------------------------------------------------------
(* Restore, into a directory without a database *)

\* The database is the archive's first entry.
RestoreBegin ==
  /\ target = EmptyTarget
  /\ backup.at \in {"torn", "cut", "done"}
  /\ target' = [at |-> "unpack", from |-> backup.at, live |-> backup.live,
                left |-> backup.packed, files |-> {}]
  /\ UNCHANGED <<rowVars, diskVars, recordVars, cache, req, cleaner, backup, crashes>>

RestoreEntry ==
  /\ target.at = "unpack"
  /\ \E f \in target.left :
       target' = [target EXCEPT !.left = @ \ {f}, !.files = @ \cup {f}]
  /\ UNCHANGED <<rowVars, diskVars, recordVars, cache, req, cleaner, backup, crashes>>

\* Mutant: an archive that breaks off is taken for one that ends.
AtAnyEnd == target.left = {}

\* io.EOF: the archive ends as it was closed.
AtEnd == target.left = {} /\ target.from # "torn"

RestoreEnd ==
  /\ target.at = "unpack"
  /\ AtEnd
  /\ target' = [target EXCEPT !.at = "done"]
  /\ UNCHANGED <<rowVars, diskVars, recordVars, cache, req, cleaner, backup, crashes>>

\* The first error ends it, and what was unpacked stays, the database first of all:
\* another restore is refused.
RestoreFails ==
  /\ target.at = "unpack"
  /\ target' = BrokenTarget
  /\ UNCHANGED <<rowVars, diskVars, recordVars, cache, req, cleaner, backup, crashes>>

\* Until its operator has emptied the directory.
ClearTarget ==
  /\ target = BrokenTarget
  /\ target' = EmptyTarget
  /\ UNCHANGED <<rowVars, diskVars, recordVars, cache, req, cleaner, backup, crashes>>

-----------------------------------------------------------------------------
(* Crashes and time *)

\* The process dies and comes back: requests and job are gone, the cache is
\* loaded (New), the disk is as it was.
Crash ==
  /\ crashes < MaxCrashes
  /\ crashes' = crashes + 1
  /\ req' = [r \in Requests |-> Idle]
  /\ cleaner' = Resting
  /\ cache' = logo
  /\ UNCHANGED <<rowVars, diskVars, recordVars, commandVars>>

\* Mutant: an upload may last longer than the cleanup waits.
SavingNothing == {}

\* The server's ReadTimeout ends an upload long before 24 hours.
Saving == {req[r].file : r \in {s \in Requests : req[s].at = "saving"}}

\* A backup takes less than 7 days.
DaysPass(f) ==
  /\ row[f] = "deleted" /\ f \notin aged
  /\ backup.at = "walk" => f \notin backup.live
  /\ aged' = aged \cup {f}
  /\ UNCHANGED <<row, diskVars, recordVars, cache, req, cleaner, commandVars, crashes>>

HoursPass(f) ==
  /\ f \in temp \ (broken \cup Saving)
  /\ broken' = broken \cup {f}
  /\ UNCHANGED <<rowVars, blobs, temp, recordVars, cache, req, cleaner, commandVars, crashes>>

-----------------------------------------------------------------------------
Upload(r) ==
  \/ UploadBegin(r) \/ UploadFails(r) \/ UploadSave(r) \/ UploadRejected(r)
  \/ CreateCommit(r) \/ EditCommit(r)
  \/ LogoLoad(r) \/ LogoCommit(r) \/ SettingsCommit(r) \/ PrefsRead(r) \/ PrefsStore(r)
Cleaner == CleanBegin \/ CleanBlob \/ CleanRow \/ CleanEnd
Backup == BackupList \/ BackupPack \/ BackupEnd
Restore == RestoreBegin \/ RestoreEntry \/ RestoreEnd \/ RestoreFails \/ ClearTarget

Next ==
  \/ \E r \in Requests : Upload(r)
  \/ \E h \in Holders : CreateWithoutFile(h)
  \/ \E S \in SUBSET records : Delete(S)
  \/ Cleaner \/ BackupBegin \/ Backup \/ BackupDies \/ BackupFails
  \/ Restore \/ Crash
  \/ \E f \in FileIds : DaysPass(f) \/ HoursPass(f)

\* The worker runs the job every hour (no mail server holds it up), an upload ends or
\* times out, a backup comes to its end, time passes.
Fairness ==
  /\ \A r \in Requests : WF_vars(UploadFails(r) \/ UploadSave(r))
  /\ WF_vars(Cleaner) /\ WF_vars(Backup)
  /\ \A f \in FileIds : WF_vars(DaysPass(f)) /\ WF_vars(HoursPass(f))

Spec == Init /\ [][Next]_vars /\ Fairness

-----------------------------------------------------------------------------
(* Properties *)

\* A file that is not marked deleted can be served: its blob is in place.  No
\* rejected upload, purge, crash or second upload takes it away (AT-12: "no orphan
\* file record").
LiveFilesServable == Rows("live") \subseteq blobs

\* What a version, an invoice or the workspace refers to is not marked deleted,
\* though the logo to replace is taken from a cache that may be behind: no foreign
\* key can stop the purge of what it lists.
ReferencedFilesLive == Referenced \subseteq Rows("live")

\* A document that is not marked deleted belongs to one record: replacing,
\* deleting and failing leave no row behind that nothing will ever delete.
DocumentsOwned ==
  \A f \in Documents \cap Rows("live") :
    Cardinality({h \in records : doc[h] = f}) = 1

\* A backup whose walk came to its end holds the blob of every file its database
\* calls live, whatever was uploaded, deleted and purged meanwhile: the copy of
\* the database comes first, and 7 days pass before a blob goes.
FinishedBackupWhole == backup.at = "done" => backup.live \subseteq backup.packed

\* A restore that reports success has put the blob of every live file of its database
\* in place, wherever the backup beside the running server, or the restore before it,
\* broke off; the backups that BackupWhole refutes apart.
RestoredWhole ==
  target.at = "done" /\ target.from # "cut" => target.live \subseteq target.files

\* Retention: a file marked deleted is purged in the end, blob and row.
DeletedFilesPurged ==
  \A f \in FileIds : row[f] = "deleted" ~> row[f] = "none" /\ f \notin blobs

\* A half-written upload does not stay (AT-12: "temp file cleaned by the scheduled job").
TempFilesCleaned == \A f \in FileIds : f \in temp ~> f \notin temp

\* "Safe while the server is running.  Produces one .tar.gz holding a consistent
\* database snapshot and every uploaded file" (operations.md): a backup that
\* reports success, however its walk ended.
BackupWhole == backup.at \in {"cut", "done"} => backup.live \subseteq backup.packed
=============================================================================
