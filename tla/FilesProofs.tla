---------------------------- MODULE FilesProofs ----------------------------
(***************************************************************************)
(* Proofs about Files, for every set of documents, images, versions,       *)
(* invoices and requests, and any number of backups and crashes.           *)
(*                                                                         *)
(* No lock holds the disk and the database together: what does is that a   *)
(* file's state only ever moves onward, from unused to held by one         *)
(* request, to live, to deleted, to purged.  IInv says who may name a file *)
(* at each stage: a held file is known to nobody else, a doomed one is     *)
(* deleted already, and what a snapshot calls live is neither held nor     *)
(* doomed while the walk lasts, so its blob stays where it is.             *)
(***************************************************************************)
EXTENDS Files, FiniteSetTheorems, TLAPS

Holding == {"saving", "saved", "replacing"}

\* The file in a request's hands has no row, and no other request holds it.
HeldApart ==
  \A r \in Requests : req[r].at \in Holding =>
    /\ row[req[r].file] = "none"
    /\ IF req[r].at = "saving" THEN req[r].file \notin broken
                               ELSE req[r].file \in blobs
    /\ \A s \in Requests : req[s].at \in Holding /\ req[s].file = req[r].file => s = r

\* What is half written has been drawn.
HalfWritten == \A f \in temp : row[f] # "unused"

\* A logo that something remembers.
Known(f) == f # NoFile =>
  /\ row[f] # "unused"
  /\ \A r \in Requests : req[r].at \in Holding => req[r].file # f

\* The logo, the cached one, and those the requests have read were committed once.
LogosKnown ==
  /\ Known(logo) /\ Known(cache)
  /\ \A r \in Requests : /\ req[r].at = "replacing" => Known(req[r].old)
                         /\ req[r].at = "storing" => Known(req[r].read)

\* Each document belongs to one record and is live as long as it does.
RecordsOwn ==
  /\ \A h \in Holders : doc[h] # NoFile =>
       /\ h \in records /\ row[doc[h]] = "live"
       /\ \A k \in Holders : doc[k] = doc[h] => k = h
  /\ \A f \in Documents : row[f] = "live" => \E h \in records : doc[h] = f

LogoLive == logo # NoFile => row[logo] = "live"

\* The files being purged are marked deleted, until their row goes.
DoomedDeleted ==
  cleaner # Resting =>
    /\ \A f \in cleaner.doomed : row[f] = "deleted"
    /\ cleaner.gone # NoFile => cleaner.gone \in cleaner.doomed

\* What the running backup's database calls live is packed, or is where it was and
\* is still to be walked over: no purge has come to it.
SnapshotKept ==
  /\ backup.at = "walk" => \A f \in backup.live :
       /\ row[f] \in {"live", "deleted"} /\ f \notin aged
       /\ cleaner # Resting => f \notin cleaner.doomed
       /\ f \in backup.packed \/ (f \in backup.left /\ f \in blobs)
  /\ backup.at = "done" => backup.live \subseteq backup.packed

\* What a restore of a whole archive has not unpacked it has before it.
RestoreKept ==
  /\ target.at \in {"unpack", "done"} /\ target.from = "done" =>
       target.live \subseteq target.files \cup target.left
  /\ target.at = "done" => target.left = {} /\ target.from # "torn"

IInv == /\ TypeOK
        /\ HeldApart
        /\ HalfWritten
        /\ LogosKnown
        /\ RecordsOwn
        /\ LogoLive
        /\ LiveFilesServable
        /\ DoomedDeleted
        /\ SnapshotKept
        /\ RestoreKept

-----------------------------------------------------------------------------
(* Lemmas *)

LEMMA RequestFields ==
  ASSUME TypeOK, NEW r \in Requests
  PROVE  /\ req[r] \in Held \cup {Idle}
         /\ req[r].at \in Holding => req[r].file \in FileIds
         /\ req[r].at \in {"saving", "saved"} /\ req[r].file \in Documents =>
              req[r].holder \in Holders
         /\ req[r].at = "replacing" => req[r].file \in Images /\ req[r].old \in Optional(Images)
         /\ req[r].at = "storing" => req[r].read \in Optional(Images)
<1>1. req[r] \in Held \cup {Idle}
  BY DEF TypeOK
<1>2. QED
  BY <1>1, KindsAssumption DEF Held, Idle, FileIds, Holding

LEMMA CleanerFields ==
  ASSUME TypeOK, cleaner # Resting
  PROVE  /\ cleaner \in Cleaning
         /\ cleaner.doomed \subseteq FileIds /\ cleaner.gone \in Optional(FileIds)
  BY DEF TypeOK, Cleaning, Resting

LEMMA BackupFields ==
  ASSUME TypeOK
  PROVE  /\ backup.taken \in 0..MaxBackups
         /\ backup.at # "none" =>
              backup \in [at : {"walk", "torn", "cut", "done"}, taken : 1..MaxBackups,
                          live : SUBSET FileIds, left : SUBSET FileIds,
                          open : Optional(FileIds), packed : SUBSET FileIds]
<1>1. backup \in Backups
  BY DEF TypeOK
<1>2. QED
  BY <1>1, BoundsAssumption DEF Backups, NoBackup

LEMMA TargetFields ==
  ASSUME TypeOK, target.at \in {"unpack", "done"}
  PROVE  target \in [at : {"unpack", "done"}, from : {"torn", "cut", "done"},
                     live : SUBSET FileIds, left : SUBSET FileIds, files : SUBSET FileIds]
  BY DEF TypeOK, Targets, EmptyTarget, BrokenTarget

LEMMA SoftDeleteRows ==
  ASSUME NEW rows \in [FileIds -> {"unused", "none", "live", "deleted"}], NEW S
  PROVE  /\ SoftDelete(rows, S) \in [FileIds -> {"unused", "none", "live", "deleted"}]
         /\ \A f \in FileIds :
              /\ rows[f] \in {"unused", "none", "deleted"} => SoftDelete(rows, S)[f] = rows[f]
              /\ f \notin S => SoftDelete(rows, S)[f] = rows[f]
              /\ rows[f] = "live" => SoftDelete(rows, S)[f] \in {"live", "deleted"}
              /\ f \in S => SoftDelete(rows, S)[f] # "live"
  BY DEF SoftDelete

-----------------------------------------------------------------------------
(* What a step leaves alone *)

\* A row that is deleted stays deleted, one that is live stays or is deleted, and
\* their blobs stay: the purge and the backup go on as before.
LEMMA CommandsUndisturbed ==
  ASSUME IInv, UNCHANGED <<cleaner, backup, target>>, aged' \subseteq aged,
         \A f \in FileIds : row[f] = "deleted" => row'[f] = "deleted",
         \A f \in FileIds : row[f] = "live" => row'[f] \in {"live", "deleted"},
         \A f \in FileIds : row[f] \in {"live", "deleted"} /\ f \in blobs => f \in blobs'
  PROVE  DoomedDeleted' /\ SnapshotKept' /\ RestoreKept'
<1>1. DoomedDeleted'
  BY CleanerFields DEF IInv, DoomedDeleted
<1>2. SnapshotKept'
  BY BackupFields DEF IInv, SnapshotKept
<1>3. RestoreKept'
  BY DEF IInv, RestoreKept
<1>4. QED
  BY <1>1, <1>2, <1>3

\* A step of the backup or of the restore.
LEMMA RowsUndisturbed ==
  ASSUME IInv, UNCHANGED <<row, blobs, temp, broken, records, doc, logo, cache, req>>
  PROVE  HeldApart' /\ HalfWritten' /\ LogosKnown' /\ RecordsOwn' /\ LogoLive' /\ LiveFilesServable'
<1>1. HeldApart' /\ HalfWritten'
  BY DEF IInv, HeldApart, HalfWritten
<1>2. LogosKnown'
  BY DEF IInv, LogosKnown, Known
<1>3. RecordsOwn' /\ LogoLive'
  BY DEF IInv, RecordsOwn, LogoLive
<1>4. LiveFilesServable'
  BY DEF IInv, LiveFilesServable, Rows
<1>5. QED
  BY <1>1, <1>2, <1>3, <1>4

-----------------------------------------------------------------------------
(* Uploads *)

LEMMA UploadBeginIInv ==
  ASSUME IInv, NEW r \in Requests, UploadBegin(r)
  PROVE  IInv'
<1>1. PICK f \in Rows("unused") :
        /\ row' = [row EXCEPT ![f] = "none"]
        /\ temp' = temp \cup {f}
        /\ IF f \in Images
           THEN req' = [req EXCEPT ![r] = [at |-> "saving", file |-> f]]
           ELSE \E h \in (Holders \ records) \cup (Invoices \cap records) :
                  req' = [req EXCEPT ![r] = [at |-> "saving", file |-> f, holder |-> h]]
  BY DEF UploadBegin
<1>2. f \in FileIds /\ row[f] = "unused"
  BY DEF Rows
<1>3. UNCHANGED <<aged, blobs, broken, records, doc, logo, cache, cleaner, backup, target,
                  crashes>>
  BY DEF UploadBegin, recordVars, commandVars
<1>4. PICK q \in Held : /\ req' = [req EXCEPT ![r] = q]
                        /\ q.at = "saving" /\ q.file = f
  <2>1. CASE f \in Images
    <3>1. [at |-> "saving", file |-> f] \in Held
      BY <2>1 DEF Held
    <3>2. QED
      BY <1>1, <2>1, <3>1
  <2>2. CASE f \notin Images
    <3>1. PICK h \in (Holders \ records) \cup (Invoices \cap records) :
            req' = [req EXCEPT ![r] = [at |-> "saving", file |-> f, holder |-> h]]
      BY <1>1, <2>2
    <3>2. h \in Holders /\ f \in Documents
      BY <1>2, <2>2 DEF Holders, FileIds
    <3>3. [at |-> "saving", file |-> f, holder |-> h] \in Held
      BY <3>2 DEF Held
    <3>4. QED
      BY <3>1, <3>3
  <2>3. QED
    BY <2>1, <2>2
<1>5. row \in [FileIds -> {"unused", "none", "live", "deleted"}] /\ req \in [Requests -> Held \cup {Idle}]
  BY DEF IInv, TypeOK
<1>6. TypeOK'
  BY <1>1, <1>2, <1>3, <1>4, <1>5 DEF IInv, TypeOK
<1>7. HeldApart' /\ HalfWritten'
  <2>1. f \notin broken
    BY <1>2 DEF IInv, TypeOK, HalfWritten
  <2>2. HeldApart'
    BY <1>1, <1>2, <1>3, <1>4, <1>5, <2>1 DEF IInv, HeldApart, Holding
  <2>3. HalfWritten'
    BY <1>1, <1>2, <1>5 DEF IInv, HalfWritten, TypeOK
  <2>4. QED
    BY <2>2, <2>3
<1>8. LogosKnown'
  <2>1. logo \in Optional(Images) /\ cache \in Optional(Images)
    BY DEF IInv, TypeOK
  <2>2. ASSUME NEW x, x \in Optional(Images), Known(x)
        PROVE  Known(x)'
    BY <1>1, <1>2, <1>4, <1>5, <2>2 DEF Known, Holding, Optional, FileIds
  <2>3. QED
    BY <1>3, <1>4, <1>5, <2>1, <2>2, RequestFields DEF IInv, LogosKnown
<1>9. RecordsOwn' /\ LogoLive'
  BY <1>1, <1>2, <1>3, <1>5 DEF IInv, RecordsOwn, LogoLive, TypeOK, FileIds, Optional
<1>10. LiveFilesServable'
  BY <1>1, <1>2, <1>3, <1>5 DEF IInv, LiveFilesServable, Rows
<1>11. DoomedDeleted' /\ SnapshotKept' /\ RestoreKept'
  BY <1>1, <1>2, <1>3, <1>5, CommandsUndisturbed
<1>12. QED
  BY <1>6, <1>7, <1>8, <1>9, <1>10, <1>11 DEF IInv

\* The request lets go of its file: the half-written one, or the blob.
LEMMA UploadDroppedIInv ==
  ASSUME IInv, NEW r \in Requests, UploadFails(r) \/ UploadRejected(r)
  PROVE  IInv'
<1>1. /\ req[r].at \in Holding
      /\ req' = [req EXCEPT ![r] = Idle]
      /\ \/ req[r].at = "saving" /\ temp' = temp \ {req[r].file} /\ blobs' = blobs
         \/ temp' = temp /\ blobs' = blobs \ {req[r].file}
      /\ UNCHANGED <<row, aged, broken, records, doc, logo, cache, cleaner, backup, target,
                     crashes>>
  BY DEF UploadFails, UploadRejected, rowVars, recordVars, commandVars, Holding
<1>2. row[req[r].file] = "none" /\ (req[r].at = "saving" => req[r].file \notin broken)
  BY <1>1 DEF IInv, HeldApart
<1>3. req \in [Requests -> Held \cup {Idle}]
  BY DEF IInv, TypeOK
<1>4. TypeOK'
  BY <1>1, <1>2, <1>3 DEF IInv, TypeOK
<1>5. HeldApart' /\ HalfWritten'
  BY <1>1, <1>3 DEF IInv, HeldApart, HalfWritten, Holding, Idle
<1>6. LogosKnown'
  <2>1. ASSUME NEW x, Known(x) PROVE Known(x)'
    BY <1>1, <1>3, <2>1 DEF Known, Idle, Holding
  <2>2. QED
    BY <1>1, <1>3, <2>1 DEF IInv, LogosKnown, Idle
<1>7. RecordsOwn' /\ LogoLive'
  BY <1>1 DEF IInv, RecordsOwn, LogoLive
<1>8. LiveFilesServable'
  BY <1>1, <1>2 DEF IInv, LiveFilesServable, Rows
<1>9. DoomedDeleted' /\ SnapshotKept' /\ RestoreKept'
  BY <1>1, <1>2, CommandsUndisturbed
<1>10. QED
  BY <1>4, <1>5, <1>6, <1>7, <1>8, <1>9 DEF IInv

LEMMA UploadSaveIInv ==
  ASSUME IInv, NEW r \in Requests, UploadSave(r)
  PROVE  IInv'
<1>1. /\ req[r].at = "saving"
      /\ temp' = temp \ {req[r].file} /\ blobs' = blobs \cup {req[r].file}
      /\ req' = [req EXCEPT ![r].at = "saved"]
      /\ UNCHANGED <<row, aged, broken, records, doc, logo, cache, cleaner, backup, target,
                     crashes>>
  BY DEF UploadSave, rowVars, recordVars, commandVars
<1>2. /\ row[req[r].file] = "none" /\ req[r].file \notin broken
      /\ req[r].file \in FileIds
  BY <1>1, RequestFields DEF IInv, HeldApart, Holding
<1>3. req \in [Requests -> Held \cup {Idle}]
  BY DEF IInv, TypeOK
<1>4. PICK q \in Held : /\ req' = [req EXCEPT ![r] = q]
                        /\ q.at = "saved" /\ q.file = req[r].file
  <2>1. [req[r] EXCEPT !.at = "saved"] \in Held
    BY <1>1, <1>3 DEF Held, Idle
  <2>2. QED
    BY <1>1, <1>3, <2>1 DEF Held, Idle
<1>5. TypeOK'
  BY <1>1, <1>2, <1>3, <1>4 DEF IInv, TypeOK
<1>6. HeldApart' /\ HalfWritten'
  BY <1>1, <1>2, <1>3, <1>4 DEF IInv, HeldApart, HalfWritten, Holding
<1>7. LogosKnown'
  BY <1>1, <1>3, <1>4 DEF IInv, LogosKnown, Known, Holding
<1>8. RecordsOwn' /\ LogoLive'
  BY <1>1 DEF IInv, RecordsOwn, LogoLive
<1>9. LiveFilesServable'
  BY <1>1 DEF IInv, LiveFilesServable, Rows
<1>10. DoomedDeleted' /\ SnapshotKept' /\ RestoreKept'
  BY <1>1, CommandsUndisturbed
<1>11. QED
  BY <1>5, <1>6, <1>7, <1>8, <1>9, <1>10 DEF IInv

LEMMA CreateCommitIInv ==
  ASSUME IInv, NEW r \in Requests, CreateCommit(r)
  PROVE  IInv'
<1> DEFINE f == req[r].file
           h == req[r].holder
<1>1. /\ req[r].at = "saved" /\ f \in Documents /\ h \notin records
      /\ row' = [row EXCEPT ![f] = "live"]
      /\ records' = records \cup {h}
      /\ doc' = [doc EXCEPT ![h] = f]
      /\ req' = [req EXCEPT ![r] = Idle]
      /\ UNCHANGED <<aged, blobs, temp, broken, logo, cache, cleaner, backup, target, crashes>>
  BY DEF CreateCommit, Insert, diskVars, commandVars
<1>2. h \in Holders /\ f \in FileIds /\ f # NoFile
  BY <1>1, RequestFields, NoFileAssumption DEF IInv, Holding, FileIds
<1>3. row[f] = "none" /\ f \in blobs
  BY <1>1 DEF IInv, HeldApart, Holding
<1> HIDE DEF f, h
<1>4. /\ row \in [FileIds -> {"unused", "none", "live", "deleted"}]
      /\ req \in [Requests -> Held \cup {Idle}]
      /\ doc \in [Holders -> Optional(Documents)]
      /\ aged \subseteq {x \in FileIds : row[x] = "deleted"}
  BY DEF IInv, TypeOK
<1>5. TypeOK'
  BY <1>1, <1>2, <1>3, <1>4 DEF IInv, TypeOK, Optional
<1>6. HeldApart'
  <2>1. f = req[r].file
    BY DEF f
  <2>2. QED
    BY <1>1, <1>2, <1>4, <2>1, RequestFields DEF IInv, HeldApart, Holding, Idle
<1>7. HalfWritten'
  BY <1>1, <1>2, <1>4 DEF IInv, HalfWritten, TypeOK
<1>8. LogosKnown'
  <2>1. logo \in Optional(Images) /\ cache \in Optional(Images)
    BY DEF IInv, TypeOK
  <2>2. ASSUME NEW x, x \in Optional(Images), Known(x)
        PROVE  Known(x)'
    BY <1>1, <1>2, <1>4, <2>2 DEF Known, Holding, Optional, FileIds, Idle
  <2>3. QED
    BY <1>1, <1>4, <2>1, <2>2, RequestFields DEF IInv, LogosKnown, Idle
<1>9. RecordsOwn'
  BY <1>1, <1>2, <1>3, <1>4 DEF IInv, RecordsOwn, FileIds, Optional
<1>10. LogoLive'
  BY <1>1, <1>2, <1>4 DEF IInv, LogoLive, TypeOK, Optional, FileIds
<1>11. LiveFilesServable'
  BY <1>1, <1>2, <1>3, <1>4 DEF IInv, LiveFilesServable, Rows
<1>12. DoomedDeleted' /\ SnapshotKept' /\ RestoreKept'
  BY <1>1, <1>2, <1>3, <1>4, CommandsUndisturbed
<1>13. QED
  BY <1>5, <1>6, <1>7, <1>8, <1>9, <1>10, <1>11, <1>12 DEF IInv

\* An invoice's new document takes the place of the one before it.
LEMMA EditCommitIInv ==
  ASSUME IInv, NEW r \in Requests, EditCommit(r)
  PROVE  IInv'
<1> DEFINE f == req[r].file
           h == req[r].holder
           old == doc[h]
<1>1. /\ req[r].at = "saved" /\ f \in Documents /\ h \in records /\ h \in Holders
      /\ row' = SoftDelete([row EXCEPT ![f] = "live"], {old})
      /\ aged' = aged \ {old}
      /\ doc' = [doc EXCEPT ![h] = f]
      /\ req' = [req EXCEPT ![r] = Idle]
      /\ UNCHANGED <<blobs, temp, broken, records, logo, cache, cleaner, backup, target, crashes>>
  BY KindsAssumption DEF EditCommit, Insert, Replaced, diskVars, commandVars, Holders
<1>2. f \in FileIds /\ f # NoFile /\ f \notin Images
  BY <1>1, KindsAssumption, NoFileAssumption DEF FileIds
<1>3. row[f] = "none" /\ f \in blobs
  BY <1>1 DEF IInv, HeldApart, Holding
<1>4. f = req[r].file
  OBVIOUS
<1> HIDE DEF f, h
<1>5. /\ row \in [FileIds -> {"unused", "none", "live", "deleted"}]
      /\ req \in [Requests -> Held \cup {Idle}]
      /\ doc \in [Holders -> Optional(Documents)]
      /\ aged \subseteq {x \in FileIds : row[x] = "deleted"}
  BY DEF IInv, TypeOK
<1>6. old \in Optional(Documents) /\ old # f /\ old \notin Images
  BY <1>1, <1>2, <1>3, <1>5, KindsAssumption, NoFileAssumption
  DEF IInv, RecordsOwn, Optional, FileIds
<1>7. /\ row' \in [FileIds -> {"unused", "none", "live", "deleted"}]
      /\ row'[f] = "live"
      /\ \A x \in FileIds \ {f} :
           /\ row[x] \in {"unused", "none", "deleted"} => row'[x] = row[x]
           /\ x # old => row'[x] = row[x]
           /\ row[x] = "live" => row'[x] \in {"live", "deleted"}
           /\ x = old => row'[x] # "live"
  <2>1. [row EXCEPT ![f] = "live"] \in [FileIds -> {"unused", "none", "live", "deleted"}]
    BY <1>5
  <2>2. [row EXCEPT ![f] = "live"][f] = "live"
    BY <1>2, <1>5
  <2>3. \A x \in FileIds \ {f} : [row EXCEPT ![f] = "live"][x] = row[x]
    BY <1>2, <1>5
  <2>4. row'[f] = "live"
    BY <1>1, <1>2, <1>6, <2>1, <2>2, SoftDeleteRows
  <2>5. QED
    BY <1>1, <2>1, <2>3, <2>4, SoftDeleteRows
<1>8. TypeOK'
  BY <1>1, <1>2, <1>3, <1>5, <1>7 DEF IInv, TypeOK, Optional
<1>9. HeldApart'
  <2>1. ASSUME NEW s \in Requests, req'[s].at \in Holding
        PROVE  /\ s # r /\ req'[s] = req[s]
               /\ req[s].file \in FileIds \ {f}
    <3>1. s # r /\ req'[s] = req[s]
      BY <1>1, <1>5, <2>1 DEF Idle, Holding
    <3>2. req[s].file # f
      BY <1>1, <1>4, <2>1, <3>1 DEF IInv, HeldApart, Holding
    <3>3. QED
      BY <2>1, <3>1, <3>2, RequestFields DEF IInv
  <2>2. ASSUME NEW s \in Requests, req'[s].at \in Holding
        PROVE  row'[req'[s].file] = "none"
    BY <1>7, <2>1, <2>2 DEF IInv, HeldApart
  <2>3. UNCHANGED <<blobs, broken>>
    BY <1>1
  <2>4. QED
    BY <2>1, <2>2, <2>3 DEF IInv, HeldApart
<1>10. HalfWritten'
  BY <1>1, <1>2, <1>5, <1>7 DEF IInv, HalfWritten, TypeOK
<1>11. LogosKnown'
  <2>1. logo \in Optional(Images) /\ cache \in Optional(Images)
    BY DEF IInv, TypeOK
  <2>2. ASSUME NEW x, x \in Optional(Images), Known(x)
        PROVE  Known(x)'
    BY <1>1, <1>2, <1>5, <1>7, <2>2 DEF Known, Holding, Optional, FileIds, Idle
  <2>3. QED
    BY <1>1, <1>5, <2>1, <2>2, RequestFields DEF IInv, LogosKnown, Idle
<1>12. RecordsOwn'
  <2>1. ASSUME NEW k \in Holders, doc'[k] # NoFile
        PROVE  /\ k \in records' /\ row'[doc'[k]] = "live"
               /\ \A j \in Holders : doc'[j] = doc'[k] => j = k
    <3>1. CASE k = h
      BY <1>1, <1>2, <1>3, <1>5, <1>7, <3>1 DEF IInv, RecordsOwn
    <3>2. CASE k # h
      <4>1. doc'[k] = doc[k] /\ doc[k] # old /\ doc[k] # f /\ doc[k] \in FileIds
        BY <1>1, <1>3, <1>5, <2>1, <3>2 DEF IInv, RecordsOwn, Optional, FileIds
      <4>2. QED
        BY <1>1, <1>2, <1>5, <1>7, <2>1, <3>2, <4>1 DEF IInv, RecordsOwn
    <3>3. QED
      BY <3>1, <3>2
  <2>2. ASSUME NEW x \in Documents, row'[x] = "live"
        PROVE  \E k \in records' : doc'[k] = x
    <3>1. CASE x = f
      BY <1>1, <1>5, <3>1
    <3>2. CASE x # f
      <4>1. row[x] = "live" /\ x # old /\ x \in FileIds
        BY <1>5, <1>7, <2>2, <3>2 DEF FileIds
      <4>2. PICK k \in records : doc[k] = x
        BY <4>1 DEF IInv, RecordsOwn
      <4>3. k # h /\ k \in Holders
        BY <4>1, <4>2 DEF IInv, TypeOK
      <4>4. QED
        BY <1>1, <1>5, <4>2, <4>3
    <3>3. QED
      BY <3>1, <3>2
  <2>3. QED
    BY <2>1, <2>2 DEF RecordsOwn
<1>13. LogoLive'
  BY <1>1, <1>2, <1>5, <1>6, <1>7 DEF IInv, LogoLive, TypeOK, Optional, FileIds
<1>14. LiveFilesServable'
  BY <1>1, <1>2, <1>3, <1>5, <1>7 DEF IInv, LiveFilesServable, Rows
<1>15. DoomedDeleted' /\ SnapshotKept' /\ RestoreKept'
  BY <1>1, <1>2, <1>3, <1>5, <1>7, CommandsUndisturbed
<1>16. QED
  BY <1>8, <1>9, <1>10, <1>11, <1>12, <1>13, <1>14, <1>15 DEF IInv

LEMMA CreateWithoutFileIInv ==
  ASSUME IInv, NEW h \in Holders, CreateWithoutFile(h)
  PROVE  IInv'
<1>1. /\ records' = records \cup {h}
      /\ UNCHANGED <<row, aged, blobs, temp, broken, doc, logo, cache, req, cleaner, backup,
                     target, crashes>>
  BY DEF CreateWithoutFile, rowVars, diskVars, commandVars
<1>2. TypeOK'
  BY <1>1 DEF IInv, TypeOK
<1>3. HeldApart' /\ HalfWritten' /\ LogosKnown'
  BY <1>1 DEF IInv, HeldApart, HalfWritten, LogosKnown, Known
<1>4. RecordsOwn' /\ LogoLive'
  BY <1>1 DEF IInv, RecordsOwn, LogoLive
<1>5. LiveFilesServable'
  BY <1>1 DEF IInv, LiveFilesServable, Rows
<1>6. DoomedDeleted' /\ SnapshotKept' /\ RestoreKept'
  BY <1>1, CommandsUndisturbed
<1>7. QED
  BY <1>2, <1>3, <1>4, <1>5, <1>6 DEF IInv

LEMMA DeleteIInv ==
  ASSUME IInv, NEW S \in SUBSET records, Delete(S)
  PROVE  IInv'
<1> DEFINE olds == {doc[h] : h \in S}
<1>1. /\ records' = records \ S
      /\ doc' = [h \in Holders |-> IF h \in S THEN NoFile ELSE doc[h]]
      /\ row' = SoftDelete(row, olds)
      /\ aged' = aged \ olds
      /\ UNCHANGED <<blobs, temp, broken, logo, cache, req, cleaner, backup, target, crashes>>
  BY DEF Delete, diskVars, commandVars
<1>2. /\ row \in [FileIds -> {"unused", "none", "live", "deleted"}]
      /\ doc \in [Holders -> Optional(Documents)]
      /\ aged \subseteq {x \in FileIds : row[x] = "deleted"}
      /\ S \subseteq Holders
  BY DEF IInv, TypeOK
<1>3. \A x \in olds : x \notin Images
  BY <1>2, KindsAssumption, NoFileAssumption DEF Optional, FileIds
<1>4. /\ row' \in [FileIds -> {"unused", "none", "live", "deleted"}]
      /\ \A x \in FileIds :
           /\ row[x] \in {"unused", "none", "deleted"} => row'[x] = row[x]
           /\ x \notin olds => row'[x] = row[x]
           /\ row[x] = "live" => row'[x] \in {"live", "deleted"}
           /\ x \in olds => row'[x] # "live"
  BY <1>1, <1>2, SoftDeleteRows
<1>5. RecordsOwn'
  <2>1. ASSUME NEW k \in Holders, doc'[k] # NoFile
        PROVE  /\ k \in records' /\ row'[doc'[k]] = "live"
               /\ \A j \in Holders : doc'[j] = doc'[k] => j = k
    <3>1. k \notin S /\ doc'[k] = doc[k] /\ doc[k] # NoFile
      BY <1>1, <2>1
    <3>2. /\ k \in records /\ row[doc[k]] = "live"
          /\ \A j \in Holders : doc[j] = doc[k] => j = k
      BY <3>1 DEF IInv, RecordsOwn
    <3>3. doc[k] \notin olds /\ doc[k] \in FileIds
      BY <1>2, <3>1, <3>2 DEF Optional, FileIds
    <3>4. row'[doc[k]] = "live"
      BY <1>4, <3>2, <3>3
    <3>5. ASSUME NEW j \in Holders, doc'[j] = doc'[k] PROVE j = k
      BY <1>1, <2>1, <3>1, <3>2, <3>5
    <3>6. QED
      BY <1>1, <3>1, <3>2, <3>4, <3>5
  <2>2. ASSUME NEW x \in Documents, row'[x] = "live"
        PROVE  \E k \in records' : doc'[k] = x
    <3>1. row[x] = "live" /\ x \notin olds
      BY <1>2, <1>4, <2>2 DEF FileIds
    <3>2. PICK k \in records : doc[k] = x
      BY <3>1 DEF IInv, RecordsOwn
    <3>3. k \notin S /\ k \in Holders
      BY <3>1, <3>2 DEF IInv, TypeOK
    <3>4. QED
      BY <1>1, <3>2, <3>3
  <2>3. QED
    BY <2>1, <2>2 DEF RecordsOwn
<1> HIDE DEF olds
<1>6. TypeOK'
  <2>1. doc' \in [Holders -> Optional(Documents)]
    BY <1>1, <1>2 DEF Optional
  <2>2. QED
    BY <1>1, <1>2, <1>4, <2>1 DEF IInv, TypeOK
<1>7. HeldApart'
  BY <1>1, <1>4, RequestFields DEF IInv, HeldApart
<1>8. HalfWritten'
  BY <1>1, <1>4 DEF IInv, HalfWritten, TypeOK
<1>9. LogosKnown'
  <2>1. logo \in Optional(Images) /\ cache \in Optional(Images)
    BY DEF IInv, TypeOK
  <2>2. ASSUME NEW x, x \in Optional(Images), Known(x)
        PROVE  Known(x)'
    BY <1>1, <1>2, <1>4, <2>2 DEF Known, Optional, FileIds
  <2>3. QED
    BY <1>1, <2>1, <2>2, RequestFields DEF IInv, LogosKnown
<1>10. LogoLive'
  BY <1>1, <1>3, <1>4 DEF IInv, LogoLive, TypeOK, Optional, FileIds
<1>11. LiveFilesServable'
  BY <1>1, <1>2, <1>4 DEF IInv, LiveFilesServable, Rows
<1>12. DoomedDeleted' /\ SnapshotKept' /\ RestoreKept'
  BY <1>1, <1>2, <1>4, CommandsUndisturbed
<1>13. QED
  BY <1>5, <1>6, <1>7, <1>8, <1>9, <1>10, <1>11, <1>12 DEF IInv

-----------------------------------------------------------------------------
(* The logo *)

\* A request that goes on without touching rows or disk.
LEMMA RequestIInv ==
  ASSUME IInv, NEW r \in Requests, NEW q \in Held \cup {Idle},
         req' = [req EXCEPT ![r] = q],
         q.at \in Holding => req[r].at = "saved" /\ q.at # "saving" /\ q.file = req[r].file,
         q.at = "replacing" => Known(q.old),
         q.at = "storing" => Known(q.read),
         cache' \in Optional(Images), Known(cache'),
         UNCHANGED <<row, aged, blobs, temp, broken, records, doc, logo, cleaner, backup,
                     target, crashes>>
  PROVE  IInv'
<1>1. req \in [Requests -> Held \cup {Idle}]
  BY DEF IInv, TypeOK
<1>2. TypeOK'
  BY <1>1 DEF IInv, TypeOK
<1>3. HeldApart' /\ HalfWritten'
  BY <1>1 DEF IInv, HeldApart, HalfWritten, Holding
<1>4. LogosKnown'
  <2>1. ASSUME NEW x, Known(x)
        PROVE  Known(x)'
    BY <1>1, <2>1 DEF Known, Holding
  <2>2. Known(logo)' /\ Known(cache)'
    BY <2>1 DEF IInv, LogosKnown, Known
  <2>3. ASSUME NEW s \in Requests
        PROVE  /\ req'[s].at = "replacing" => Known(req[s].old)'
               /\ req'[s].at = "storing" => Known(req[s].read)'
    <3>1. CASE s = r
      <4>1. req'[s] = q
        BY <1>1, <3>1
      <4>2. ASSUME q.at = "replacing" PROVE Known(req[s].old)'
        <5>1. Known(q.old)
          BY <4>2
        <5>2. QED
          BY <1>1, <4>1, <5>1 DEF Known, Holding
      <4>3. ASSUME q.at = "storing" PROVE Known(req[s].read)'
        <5>1. Known(q.read)
          BY <4>3
        <5>2. QED
          BY <1>1, <4>1, <5>1 DEF Known, Holding
      <4>4. QED
        BY <4>1, <4>2, <4>3
    <3>2. CASE s # r
      BY <1>1, <2>1, <3>2 DEF IInv, LogosKnown, Known, Holding
    <3>3. QED
      BY <3>1, <3>2
  <2>4. QED
    BY <2>2, <2>3 DEF LogosKnown
<1>5. RecordsOwn' /\ LogoLive'
  BY DEF IInv, RecordsOwn, LogoLive
<1>6. LiveFilesServable'
  BY DEF IInv, LiveFilesServable, Rows
<1>7. DoomedDeleted' /\ SnapshotKept' /\ RestoreKept'
  BY CommandsUndisturbed
<1>8. QED
  BY <1>2, <1>3, <1>4, <1>5, <1>6, <1>7 DEF IInv

LEMMA SettingsIInv ==
  ASSUME IInv, NEW r \in Requests,
         LogoLoad(r) \/ SettingsCommit(r) \/ PrefsRead(r) \/ PrefsStore(r)
  PROVE  IInv'
<1> USE DEF rowVars, diskVars, recordVars, commandVars
<1>1. cache \in Optional(Images) /\ logo \in Optional(Images) /\ Known(cache) /\ Known(logo)
  BY DEF IInv, TypeOK, LogosKnown
<1>2. CASE LogoLoad(r)
  <2> DEFINE q == [at |-> "replacing", file |-> req[r].file, old |-> cache]
  <2>1. q \in Held
    BY <1>1, <1>2 DEF LogoLoad, Held
  <2>2. /\ req' = [req EXCEPT ![r] = q] /\ req[r].at = "saved"
        /\ q.at = "replacing" /\ q.file = req[r].file /\ q.old = cache
    BY <1>2 DEF LogoLoad
  <2> HIDE DEF q
  <2>3. Known(q.old)
    BY <1>1, <2>2
  <2>4. /\ UNCHANGED <<row, aged, blobs, temp, broken, records, doc, logo, cleaner, backup,
                      target, crashes>>
        /\ cache' = cache
    BY <1>2 DEF LogoLoad
  <2>5. Known(cache')
    BY <1>1, <2>4
  <2>6. QED
    BY <1>1, <2>1, <2>2, <2>3, <2>4, <2>5, RequestIInv
<1>3. CASE SettingsCommit(r)
  <2> DEFINE q == [at |-> "reading"]
  <2>1. q \in Held /\ q.at = "reading" /\ "reading" \notin Holding
    BY DEF Held, Holding
  <2>2. /\ req' = [req EXCEPT ![r] = q]
        /\ UNCHANGED <<row, aged, blobs, temp, broken, records, doc, logo, cleaner, backup,
                      target, crashes>>
        /\ cache' = cache
    BY <1>3 DEF SettingsCommit
  <2> HIDE DEF q
  <2>3. Known(cache')
    BY <1>1, <2>2
  <2>4. QED
    BY <1>1, <2>1, <2>2, <2>3, RequestIInv
<1>4. CASE PrefsRead(r)
  <2> DEFINE q == [at |-> "storing", read |-> logo]
  <2>1. q \in Held /\ q.at = "storing" /\ q.read = logo /\ "storing" \notin Holding
    BY <1>1 DEF Held, Holding
  <2>2. /\ req' = [req EXCEPT ![r] = q]
        /\ UNCHANGED <<row, aged, blobs, temp, broken, records, doc, logo, cleaner, backup,
                      target, crashes>>
        /\ cache' = cache
    BY <1>4 DEF PrefsRead
  <2> HIDE DEF q
  <2>3. Known(cache') /\ Known(q.read)
    BY <1>1, <2>1, <2>2
  <2>4. QED
    BY <1>1, <2>1, <2>2, <2>3, RequestIInv
<1>5. CASE PrefsStore(r)
  <2>1. /\ req' = [req EXCEPT ![r] = Idle]
        /\ cache' = req[r].read /\ req[r].at = "storing"
        /\ UNCHANGED <<row, aged, blobs, temp, broken, records, doc, logo, cleaner, backup,
                      target, crashes>>
    BY <1>5 DEF PrefsStore
  <2>2. Known(req[r].read) /\ req[r].read \in Optional(Images)
    BY <2>1, RequestFields DEF IInv, LogosKnown
  <2>3. Known(cache') /\ cache' \in Optional(Images)
    BY <2>1, <2>2
  <2>4. Idle \in Held \cup {Idle} /\ Idle.at = "idle" /\ "idle" \notin Holding
    BY DEF Idle, Holding
  <2>5. QED
    BY <2>1, <2>3, <2>4, RequestIInv
<1>6. QED
  BY <1>2, <1>3, <1>4, <1>5

\* The logo it replaces is the one the cache held: never the new one.
LEMMA LogoCommitIInv ==
  ASSUME IInv, NEW r \in Requests, LogoCommit(r)
  PROVE  IInv'
<1> DEFINE f == req[r].file
           old == req[r].old
<1>1. /\ req[r].at = "replacing" /\ f \in Images /\ old \in Optional(Images)
      /\ row' = SoftDelete([row EXCEPT ![f] = "live"], {old})
      /\ aged' = aged \ {old}
      /\ logo' = f
      /\ req' = [req EXCEPT ![r] = [at |-> "reading"]]
      /\ UNCHANGED <<blobs, temp, broken, records, doc, cache, cleaner, backup, target, crashes>>
  BY RequestFields DEF IInv, LogoCommit, Insert, Replaced, diskVars, commandVars
<1>2. f \in FileIds /\ f # NoFile /\ f \notin Documents
  BY <1>1, KindsAssumption, NoFileAssumption DEF FileIds
<1>3. row[f] = "none" /\ f \in blobs
  BY <1>1 DEF IInv, HeldApart, Holding
<1>4. old # f /\ old \notin Documents
  <2>1. Known(old)
    BY <1>1 DEF IInv, LogosKnown
  <2>2. old # f
    BY <1>1, <1>2, <2>1 DEF Known, Holding
  <2>3. QED
    BY <1>1, <2>2, KindsAssumption, NoFileAssumption DEF Optional, FileIds
<1>5. f = req[r].file
  OBVIOUS
<1> HIDE DEF f, old
<1>6. /\ row \in [FileIds -> {"unused", "none", "live", "deleted"}]
      /\ req \in [Requests -> Held \cup {Idle}]
      /\ doc \in [Holders -> Optional(Documents)]
      /\ aged \subseteq {x \in FileIds : row[x] = "deleted"}
  BY DEF IInv, TypeOK
<1>7. /\ row' \in [FileIds -> {"unused", "none", "live", "deleted"}]
      /\ row'[f] = "live"
      /\ \A x \in FileIds \ {f} :
           /\ row[x] \in {"unused", "none", "deleted"} => row'[x] = row[x]
           /\ x # old => row'[x] = row[x]
           /\ row[x] = "live" => row'[x] \in {"live", "deleted"}
  <2>1. [row EXCEPT ![f] = "live"] \in [FileIds -> {"unused", "none", "live", "deleted"}]
    BY <1>6
  <2>2. [row EXCEPT ![f] = "live"][f] = "live"
    BY <1>2, <1>6
  <2>3. \A x \in FileIds \ {f} : [row EXCEPT ![f] = "live"][x] = row[x]
    BY <1>2, <1>6
  <2>4. row'[f] = "live"
    BY <1>1, <1>2, <1>4, <2>1, <2>2, SoftDeleteRows
  <2>5. QED
    BY <1>1, <2>1, <2>3, <2>4, SoftDeleteRows
<1>8. [at |-> "reading"] \in Held /\ "reading" \notin Holding
  BY DEF Held, Holding
<1>9. TypeOK'
  BY <1>1, <1>2, <1>3, <1>6, <1>7, <1>8 DEF IInv, TypeOK, Optional
<1>10. ASSUME NEW s \in Requests, req'[s].at \in Holding
       PROVE  /\ s # r /\ req'[s] = req[s]
              /\ req[s].file \in FileIds \ {f}
  <2>1. s # r /\ req'[s] = req[s]
    BY <1>1, <1>6, <1>8, <1>10
  <2>2. req[s].file # f
    BY <1>1, <1>5, <1>10, <2>1 DEF IInv, HeldApart, Holding
  <2>3. QED
    BY <1>10, <2>1, <2>2, RequestFields DEF IInv
<1>11. HeldApart'
  <2>1. ASSUME NEW s \in Requests, req'[s].at \in Holding
        PROVE  row'[req'[s].file] = "none"
    BY <1>7, <1>10, <2>1 DEF IInv, HeldApart
  <2>2. UNCHANGED <<blobs, broken>>
    BY <1>1
  <2>3. QED
    BY <1>10, <2>1, <2>2 DEF IInv, HeldApart
<1>12. HalfWritten'
  BY <1>1, <1>2, <1>6, <1>7 DEF IInv, HalfWritten, TypeOK
<1>13. LogosKnown'
  <2>1. logo' = f /\ cache' = cache /\ cache \in Optional(Images)
    BY <1>1 DEF IInv, TypeOK
  <2>2. ASSUME NEW x, x \in Optional(Images), Known(x)
        PROVE  Known(x)'
    <3>1. x # NoFile => row'[x] # "unused"
      BY <1>6, <1>7, <2>2 DEF Known, Optional, FileIds
    <3>2. QED
      BY <1>10, <2>2, <3>1 DEF Known
  <2>3. Known(logo)'
    BY <1>7, <1>10, <2>1 DEF Known
  <2>4. Known(cache)'
    BY <2>1, <2>2 DEF IInv, LogosKnown, Known
  <2>5. ASSUME NEW s \in Requests
        PROVE  /\ req'[s].at = "replacing" => Known(req[s].old)'
               /\ req'[s].at = "storing" => Known(req[s].read)'
    <3>1. s = r => req'[s].at = "reading"
      BY <1>1, <1>6
    <3>2. s # r => req'[s] = req[s]
      BY <1>1, <1>6
    <3>3. ASSUME s # r, req[s].at = "replacing"
          PROVE  Known(req[s].old)'
      <4>1. Known(req[s].old) /\ req[s].old \in Optional(Images)
        BY <3>3, RequestFields DEF IInv, LogosKnown
      <4>2. QED
        BY <2>2, <3>2, <3>3, <4>1 DEF Known
    <3>4. ASSUME s # r, req[s].at = "storing"
          PROVE  Known(req[s].read)'
      <4>1. Known(req[s].read) /\ req[s].read \in Optional(Images)
        BY <3>4, RequestFields DEF IInv, LogosKnown
      <4>2. QED
        BY <2>2, <3>2, <3>4, <4>1 DEF Known
    <3>5. QED
      BY <3>1, <3>2, <3>3, <3>4
  <2>6. QED
    BY <2>3, <2>4, <2>5 DEF LogosKnown
<1>14. RecordsOwn'
  <2>1. \A h \in Holders : doc[h] # NoFile => doc[h] \in FileIds /\ doc[h] # f /\ doc[h] # old
    BY <1>2, <1>4, <1>6 DEF Optional, FileIds
  <2>2. \A x \in Documents : x \in FileIds /\ x # f /\ x # old
    BY <1>2, <1>4 DEF FileIds
  <2>3. \A h \in Holders : doc[h] # NoFile => row'[doc[h]] = row[doc[h]]
    BY <1>7, <2>1
  <2>4. \A x \in Documents : row'[x] = row[x]
    BY <1>7, <2>2
  <2>5. UNCHANGED <<doc, records>>
    BY <1>1
  <2>6. QED
    BY <2>3, <2>4, <2>5 DEF IInv, RecordsOwn
<1>15. LogoLive'
  BY <1>1, <1>7 DEF LogoLive
<1>16. LiveFilesServable'
  BY <1>1, <1>2, <1>3, <1>6, <1>7 DEF IInv, LiveFilesServable, Rows
<1>17. DoomedDeleted' /\ SnapshotKept' /\ RestoreKept'
  BY <1>1, <1>2, <1>3, <1>6, <1>7, CommandsUndisturbed
<1>18. QED
  BY <1>9, <1>11, <1>12, <1>13, <1>14, <1>15, <1>16, <1>17 DEF IInv

-----------------------------------------------------------------------------
(* The cleanup *)

LEMMA CleanerIInv ==
  ASSUME IInv, Cleaner
  PROVE  IInv'
<1> USE DEF rowVars, diskVars, recordVars, commandVars
<1>1. CASE CleanBegin
  <2>1. /\ temp' = temp \ broken /\ broken' = broken \ broken
        /\ cleaner' = [at |-> "job", doomed |-> aged, gone |-> NoFile]
        /\ UNCHANGED <<row, aged, blobs, records, doc, logo, cache, req, backup, target, crashes>>
    BY <1>1 DEF CleanBegin, Abandoned, Doomed
  <2>2. aged \subseteq {f \in FileIds : row[f] = "deleted"}
    BY DEF IInv, TypeOK
  <2>3. cleaner' \in Cleaning
    BY <2>1, <2>2 DEF Cleaning, Optional
  <2>4. TypeOK'
    BY <2>1, <2>3 DEF IInv, TypeOK
  <2>5. HeldApart' /\ HalfWritten'
    BY <2>1 DEF IInv, HeldApart, HalfWritten
  <2>6. LogosKnown' /\ RecordsOwn' /\ LogoLive'
    BY <2>1 DEF IInv, LogosKnown, Known, RecordsOwn, LogoLive
  <2>7. LiveFilesServable'
    BY <2>1 DEF IInv, LiveFilesServable, Rows
  <2>8. DoomedDeleted' /\ SnapshotKept' /\ RestoreKept'
    BY <2>1, <2>2 DEF IInv, DoomedDeleted, SnapshotKept, RestoreKept
  <2>9. QED
    BY <2>4, <2>5, <2>6, <2>7, <2>8 DEF IInv
<1>2. CASE CleanBlob
  <2>1. PICK f \in cleaner.doomed : /\ blobs' = blobs \ {f}
                                    /\ cleaner' = [cleaner EXCEPT !.gone = f]
    BY <1>2 DEF CleanBlob
  <2>2. /\ cleaner # Resting
        /\ UNCHANGED <<row, aged, temp, broken, records, doc, logo, cache, req, backup, target,
                       crashes>>
    BY <1>2 DEF CleanBlob
  <2>3. cleaner \in Cleaning /\ f \in FileIds /\ row[f] = "deleted"
    BY <2>1, <2>2, CleanerFields DEF IInv, DoomedDeleted
  <2>4. /\ cleaner' \in Cleaning /\ cleaner'.doomed = cleaner.doomed /\ cleaner'.gone = f
    BY <2>1, <2>3 DEF Cleaning, Optional
  <2>5. TypeOK'
    BY <2>1, <2>2, <2>4 DEF IInv, TypeOK
  <2>6. HeldApart' /\ HalfWritten'
    BY <2>1, <2>2, <2>3 DEF IInv, HeldApart, HalfWritten
  <2>7. LogosKnown' /\ RecordsOwn' /\ LogoLive'
    BY <2>2 DEF IInv, LogosKnown, Known, RecordsOwn, LogoLive
  <2>8. LiveFilesServable'
    BY <2>1, <2>2, <2>3 DEF IInv, LiveFilesServable, Rows
  <2>9. DoomedDeleted' /\ RestoreKept'
    BY <2>1, <2>2, <2>4 DEF IInv, DoomedDeleted, RestoreKept
  <2>10. SnapshotKept'
    BY <2>1, <2>2, <2>4 DEF IInv, SnapshotKept
  <2>11. QED
    BY <2>5, <2>6, <2>7, <2>8, <2>9, <2>10 DEF IInv
<1>3. CASE CleanRow
  <2> DEFINE f == cleaner.gone
  <2>1. /\ cleaner # Resting /\ f # NoFile /\ f \notin Referenced
        /\ row' = [row EXCEPT ![f] = "none"] /\ aged' = aged \ {f}
        /\ cleaner' = [cleaner EXCEPT !.doomed = @ \ {f}, !.gone = NoFile]
        /\ UNCHANGED <<blobs, temp, broken, records, doc, logo, cache, req, backup, target,
                       crashes>>
    BY <1>3 DEF CleanRow
  <2>2. cleaner \in Cleaning /\ f \in cleaner.doomed /\ f \in FileIds /\ row[f] = "deleted"
    BY <2>1, CleanerFields DEF IInv, DoomedDeleted
  <2>3. /\ cleaner' \in Cleaning
        /\ cleaner'.doomed = cleaner.doomed \ {f} /\ cleaner'.gone = NoFile
    BY <2>1, <2>2 DEF Cleaning, Optional
  <2>4. /\ row \in [FileIds -> {"unused", "none", "live", "deleted"}]
        /\ aged \subseteq {x \in FileIds : row[x] = "deleted"}
        /\ doc \in [Holders -> Optional(Documents)]
        /\ logo \in Optional(Images) /\ cache \in Optional(Images)
    BY DEF IInv, TypeOK
  <2>5. SnapshotKept'
    <3>1. backup.at = "walk" => f \notin backup.live
      BY <2>1, <2>2 DEF IInv, SnapshotKept
    <3>2. ASSUME backup.at = "walk", NEW x \in backup.live
          PROVE  x \in FileIds /\ x # f
      BY <3>1, <3>2, BackupFields DEF IInv
    <3>3. QED
      BY <2>1, <2>3, <2>4, <3>2 DEF IInv, SnapshotKept
  <2> HIDE DEF f
  <2>6. TypeOK'
    BY <2>1, <2>2, <2>3, <2>4 DEF IInv, TypeOK
  <2>7. HeldApart' /\ HalfWritten'
    <3>1. HeldApart'
      BY <2>1, <2>2, <2>4, RequestFields DEF IInv, HeldApart
    <3>2. HalfWritten'
      BY <2>1, <2>2, <2>4 DEF IInv, HalfWritten, TypeOK
    <3>3. QED
      BY <3>1, <3>2
  <2>8. LogosKnown'
    <3>1. ASSUME NEW x, x \in Optional(Images), Known(x)
          PROVE  Known(x)'
      BY <2>1, <2>4, <3>1 DEF Known, Optional, FileIds
    <3>2. QED
      BY <2>1, <2>4, <3>1, RequestFields DEF IInv, LogosKnown
  <2>9. RecordsOwn' /\ LogoLive'
    <3>1. \A x \in FileIds : row[x] = "live" <=> row'[x] = "live"
      BY <2>1, <2>2, <2>4
    <3>2. \A h \in Holders : doc[h] # NoFile => doc[h] \in FileIds
      BY <2>4 DEF Optional, FileIds
    <3>3. /\ \A x \in Documents : x \in FileIds
          /\ logo # NoFile => logo \in FileIds
      BY <2>4 DEF Optional, FileIds
    <3>4. UNCHANGED <<doc, records, logo>>
      BY <2>1
    <3>5. QED
      BY <3>1, <3>2, <3>3, <3>4 DEF IInv, RecordsOwn, LogoLive
  <2>10. LiveFilesServable'
    BY <2>1, <2>2, <2>4 DEF IInv, LiveFilesServable, Rows
  <2>11. DoomedDeleted' /\ RestoreKept'
    <3>1. DoomedDeleted'
      BY <2>1, <2>2, <2>3, <2>4 DEF IInv, DoomedDeleted, Cleaning
    <3>2. RestoreKept'
      BY <2>1 DEF IInv, RestoreKept
    <3>3. QED
      BY <3>1, <3>2
  <2>12. QED
    BY <2>5, <2>6, <2>7, <2>8, <2>9, <2>10, <2>11 DEF IInv
<1>4. CASE CleanEnd
  <2>1. /\ cleaner' = Resting
        /\ UNCHANGED <<row, aged, blobs, temp, broken, records, doc, logo, cache, req, backup,
                       target, crashes>>
    BY <1>4 DEF CleanEnd
  <2>2. TypeOK'
    BY <2>1 DEF IInv, TypeOK
  <2>3. HeldApart' /\ HalfWritten' /\ LogosKnown' /\ RecordsOwn' /\ LogoLive'
        /\ LiveFilesServable'
    BY <2>1, RowsUndisturbed
  <2>4. DoomedDeleted' /\ RestoreKept' /\ SnapshotKept'
    BY <2>1 DEF IInv, DoomedDeleted, RestoreKept, SnapshotKept
  <2>5. QED
    BY <2>2, <2>3, <2>4 DEF IInv
<1>5. QED
  BY <1>1, <1>2, <1>3, <1>4 DEF Cleaner

-----------------------------------------------------------------------------
(* Backup and restore *)

LEMMA BackupIInv ==
  ASSUME IInv, BackupBegin \/ Backup \/ BackupDies \/ BackupFails
  PROVE  IInv'
<1>1. UNCHANGED <<row, aged, blobs, temp, broken, records, doc, logo, cache, req, cleaner,
                  target, crashes>>
  BY DEF BackupBegin, Backup, BackupList, BackupPack, BackupEnd, BackupDies, BackupFails,
         rowVars, diskVars, recordVars
<1>2. HeldApart' /\ HalfWritten' /\ LogosKnown' /\ RecordsOwn' /\ LogoLive'
      /\ LiveFilesServable'
  BY <1>1, RowsUndisturbed
<1>3. DoomedDeleted' /\ RestoreKept'
  BY <1>1 DEF IInv, DoomedDeleted, RestoreKept
<1>4. /\ row \in [FileIds -> {"unused", "none", "live", "deleted"}]
      /\ aged \subseteq {x \in FileIds : row[x] = "deleted"}
  BY DEF IInv, TypeOK
<1>5. backup.taken \in 0..MaxBackups
  BY BackupFields DEF IInv
<1> DEFINE Walked == [at : {"walk", "torn", "cut", "done"}, taken : 1..MaxBackups,
                      live : SUBSET FileIds, left : SUBSET FileIds,
                      open : Optional(FileIds), packed : SUBSET FileIds]
<1>6. Walked \subseteq Backups
  BY DEF Backups
<1>7. backup.at = "walk" => backup \in Walked
  BY BackupFields DEF IInv
<1> SUFFICES backup' \in Backups /\ SnapshotKept'
  <2>1. ASSUME backup' \in Backups
        PROVE  TypeOK'
    BY <1>1, <2>1 DEF IInv, TypeOK
  <2>2. QED
    BY <1>2, <1>3, <2>1 DEF IInv
<1>8. CASE BackupBegin
  <2>1. /\ backup.taken < MaxBackups
        /\ backup' = [at |-> "walk", taken |-> backup.taken + 1, live |-> Rows("live"),
                      left |-> FileIds, open |-> NoFile, packed |-> {}]
    BY <1>8 DEF BackupBegin
  <2>2. backup' \in Walked
    BY <1>5, <2>1, BoundsAssumption DEF Rows, Optional
  <2>3. SnapshotKept'
    <3>1. \A f \in Rows("live") : f \in FileIds /\ row[f] = "live" /\ f \in blobs /\ f \notin aged
      BY <1>4 DEF IInv, LiveFilesServable, Rows
    <3>2. cleaner # Resting => \A f \in Rows("live") : f \notin cleaner.doomed
      BY <3>1 DEF IInv, DoomedDeleted
    <3>3. QED
      BY <1>1, <2>1, <3>1, <3>2 DEF SnapshotKept
  <2>4. QED
    BY <1>6, <2>2, <2>3
<1>9. CASE BackupList
  <2>1. /\ backup.at = "walk"
        /\ \E f \in backup.left :
             backup' = IF f \in blobs THEN [backup EXCEPT !.open = f]
                                      ELSE [backup EXCEPT !.left = @ \ {f}]
    BY <1>9 DEF BackupList
  <2>2. PICK f \in backup.left :
          backup' = IF f \in blobs THEN [backup EXCEPT !.open = f]
                                   ELSE [backup EXCEPT !.left = @ \ {f}]
    BY <2>1
  <2>3. f \in FileIds
    BY <1>7, <2>1
  <2>4. backup' \in Walked
    BY <1>7, <2>1, <2>2, <2>3 DEF Optional
  <2>5. /\ backup'.at = "walk" /\ backup'.live = backup.live
        /\ backup'.packed = backup.packed
        /\ \/ backup'.left = backup.left
           \/ f \notin blobs /\ backup'.left = backup.left \ {f}
    BY <1>7, <2>1, <2>2
  <2>6. SnapshotKept'
    BY <1>1, <2>1, <2>5 DEF IInv, SnapshotKept
  <2>7. QED
    BY <1>6, <2>4, <2>6
<1>10. ASSUME NEW how \in {"cut", "done", "torn"}, backup.at = "walk", backup' = Ended(how),
              how = "done" => backup.left = {}
       PROVE  SnapshotKept' /\ backup' \in Walked
  <2>1. backup' \in Walked
    BY <1>7, <1>10 DEF Ended, Optional
  <2>2. /\ backup'.at = how /\ backup'.live = backup.live /\ backup'.packed = backup.packed
    BY <1>7, <1>10 DEF Ended
  <2>3. QED
    BY <1>10, <2>1, <2>2 DEF IInv, SnapshotKept
<1>11. CASE BackupPack
  <2>1. /\ backup.at = "walk" /\ backup.open # NoFile
        /\ backup' = IF backup.open \in blobs
                     THEN [backup EXCEPT !.packed = @ \cup {backup.open},
                                         !.left = @ \ {backup.open}, !.open = NoFile]
                     ELSE Ended("cut")
    BY <1>11 DEF BackupPack
  <2>2. CASE backup.open \in blobs
    <3>1. backup' = [backup EXCEPT !.packed = @ \cup {backup.open},
                                   !.left = @ \ {backup.open}, !.open = NoFile]
      BY <2>1, <2>2
    <3>2. backup.open \in FileIds /\ backup \in Walked
      BY <1>7, <2>1 DEF Optional
    <3>3. backup' \in Walked
      <4>1. NoFile \in Optional(FileIds)
        BY DEF Optional
      <4>2. backup.packed \cup {backup.open} \in SUBSET FileIds
        BY <3>2
      <4>3. backup.left \ {backup.open} \in SUBSET FileIds
        BY <3>2
      <4>4. QED
        BY <3>1, <3>2, <4>1, <4>2, <4>3
    <3>4. /\ backup'.at = "walk" /\ backup'.live = backup.live
          /\ backup'.packed = backup.packed \cup {backup.open}
          /\ backup'.left = backup.left \ {backup.open}
      BY <1>7, <2>1, <3>1
    <3>5. SnapshotKept'
      BY <1>1, <2>1, <3>4 DEF IInv, SnapshotKept
    <3>6. QED
      BY <1>6, <3>3, <3>5
  <2>3. CASE backup.open \notin blobs
    BY <1>6, <1>10, <2>1, <2>3
  <2>4. QED
    BY <2>2, <2>3
<1>12. CASE BackupEnd
  BY <1>6, <1>10, <1>12 DEF BackupEnd
<1>13. CASE BackupDies
  BY <1>6, <1>10, <1>13 DEF BackupDies
<1>14. CASE BackupFails
  <2>1. backup' = NoBackup(backup.taken)
    BY <1>14 DEF BackupFails
  <2>2. backup' \in Backups
    BY <1>5, <2>1 DEF Backups
  <2>3. backup'.at = "none"
    BY <2>1 DEF NoBackup
  <2>4. QED
    BY <2>2, <2>3 DEF SnapshotKept
<1>15. QED
  BY <1>8, <1>9, <1>11, <1>12, <1>13, <1>14 DEF Backup

LEMMA RestoreIInv ==
  ASSUME IInv, Restore
  PROVE  IInv'
<1> DEFINE Unpacked == [at : {"unpack", "done"}, from : {"torn", "cut", "done"},
                        live : SUBSET FileIds, left : SUBSET FileIds, files : SUBSET FileIds]
<1>1. UNCHANGED <<row, aged, blobs, temp, broken, records, doc, logo, cache, req, cleaner,
                  backup, crashes>>
  BY DEF Restore, RestoreBegin, RestoreEntry, RestoreEnd, RestoreFails, ClearTarget,
         rowVars, diskVars, recordVars
<1>2. Unpacked \subseteq Targets
  BY DEF Targets
<1>3. target.at = "unpack" => target \in Unpacked
  BY TargetFields DEF IInv
<1> SUFFICES target' \in Targets /\ RestoreKept'
  <2>1. ASSUME target' \in Targets
        PROVE  TypeOK'
    BY <1>1, <2>1 DEF IInv, TypeOK
  <2>2. HeldApart' /\ HalfWritten' /\ LogosKnown' /\ RecordsOwn' /\ LogoLive'
        /\ LiveFilesServable'
    BY <1>1, RowsUndisturbed
  <2>3. DoomedDeleted' /\ SnapshotKept'
    BY <1>1 DEF IInv, DoomedDeleted, SnapshotKept
  <2>4. QED
    BY <2>1, <2>2, <2>3 DEF IInv
<1>4. CASE RestoreBegin
  <2>1. /\ backup.at \in {"torn", "cut", "done"}
        /\ target' = [at |-> "unpack", from |-> backup.at, live |-> backup.live,
                      left |-> backup.packed, files |-> {}]
    BY <1>4 DEF RestoreBegin
  <2>2. backup.live \in SUBSET FileIds /\ backup.packed \in SUBSET FileIds
    BY <2>1, BackupFields DEF IInv
  <2>3. target' \in Unpacked
    BY <2>1, <2>2
  <2>4. RestoreKept'
    BY <2>1 DEF IInv, SnapshotKept, RestoreKept
  <2>5. QED
    BY <1>2, <2>3, <2>4
<1>5. CASE RestoreEntry
  <2>1. target.at = "unpack" /\ \E f \in target.left :
          target' = [target EXCEPT !.left = @ \ {f}, !.files = @ \cup {f}]
    BY <1>5 DEF RestoreEntry
  <2>2. PICK f \in target.left :
          target' = [target EXCEPT !.left = @ \ {f}, !.files = @ \cup {f}]
    BY <2>1
  <2>3. target' \in Unpacked
    <3>1. f \in FileIds
      BY <1>3, <2>1, <2>2
    <3>2. QED
      BY <1>3, <2>1, <2>2, <3>1
  <2>4. /\ target'.at = "unpack" /\ target'.from = target.from /\ target'.live = target.live
        /\ target'.left = target.left \ {f} /\ target'.files = target.files \cup {f}
    BY <1>3, <2>1, <2>2
  <2>5. RestoreKept'
    BY <2>1, <2>4 DEF IInv, RestoreKept
  <2>6. QED
    BY <1>2, <2>3, <2>5
<1>6. CASE RestoreEnd
  <2>1. /\ target.at = "unpack" /\ target.left = {} /\ target.from # "torn"
        /\ target' = [target EXCEPT !.at = "done"]
    BY <1>6 DEF RestoreEnd, AtEnd
  <2>2. target' \in Unpacked
    BY <1>3, <2>1
  <2>3. /\ target'.at = "done" /\ target'.from = target.from /\ target'.live = target.live
        /\ target'.left = target.left /\ target'.files = target.files
    BY <1>3, <2>1
  <2>4. RestoreKept'
    BY <2>1, <2>3 DEF IInv, RestoreKept
  <2>5. QED
    BY <1>2, <2>2, <2>4
<1>7. CASE RestoreFails \/ ClearTarget
  BY <1>7 DEF RestoreFails, ClearTarget, EmptyTarget, BrokenTarget, Targets, RestoreKept
<1>8. QED
  BY <1>4, <1>5, <1>6, <1>7 DEF Restore

-----------------------------------------------------------------------------
(* Crashes and time *)

LEMMA CrashIInv ==
  ASSUME IInv, Crash
  PROVE  IInv'
<1>1. /\ crashes < MaxCrashes /\ crashes' = crashes + 1
      /\ req' = [r \in Requests |-> Idle] /\ cleaner' = Resting /\ cache' = logo
      /\ UNCHANGED <<row, aged, blobs, temp, broken, records, doc, logo, backup, target>>
  BY DEF Crash, rowVars, diskVars, recordVars, commandVars
<1>2. TypeOK'
  BY <1>1, BoundsAssumption DEF IInv, TypeOK
<1>3. \A r \in Requests : req'[r].at = "idle"
  BY <1>1 DEF Idle
<1>4. HeldApart' /\ HalfWritten'
  BY <1>1, <1>3 DEF IInv, HeldApart, HalfWritten, Holding
<1>5. LogosKnown'
  <2>1. Known(logo)'
    BY <1>1, <1>3 DEF IInv, LogosKnown, Known, Holding
  <2>2. Known(cache)'
    BY <1>1, <2>1 DEF Known
  <2>3. QED
    BY <1>3, <2>1, <2>2 DEF LogosKnown
<1>6. RecordsOwn' /\ LogoLive'
  BY <1>1 DEF IInv, RecordsOwn, LogoLive
<1>7. LiveFilesServable'
  BY <1>1 DEF IInv, LiveFilesServable, Rows
<1>8. DoomedDeleted' /\ SnapshotKept' /\ RestoreKept'
  BY <1>1 DEF IInv, DoomedDeleted, SnapshotKept, RestoreKept
<1>9. QED
  BY <1>2, <1>4, <1>5, <1>6, <1>7, <1>8 DEF IInv

LEMMA TimeIInv ==
  ASSUME IInv, NEW f \in FileIds, DaysPass(f) \/ HoursPass(f)
  PROVE  IInv'
<1> USE DEF diskVars, rowVars, recordVars, commandVars
<1>1. CASE DaysPass(f)
  <2>1. /\ row[f] = "deleted" /\ f \notin aged
        /\ backup.at = "walk" => f \notin backup.live
        /\ aged' = aged \cup {f}
        /\ UNCHANGED <<row, blobs, temp, broken, records, doc, logo, cache, req, cleaner,
                       backup, target, crashes>>
    BY <1>1 DEF DaysPass
  <2>2. TypeOK'
    BY <2>1 DEF IInv, TypeOK
  <2>3. HeldApart' /\ HalfWritten' /\ LogosKnown' /\ RecordsOwn' /\ LogoLive'
        /\ LiveFilesServable'
    BY <2>1, RowsUndisturbed
  <2>4. DoomedDeleted' /\ RestoreKept' /\ SnapshotKept'
    BY <2>1 DEF IInv, DoomedDeleted, RestoreKept, SnapshotKept
  <2>5. QED
    BY <2>2, <2>3, <2>4 DEF IInv
<1>2. CASE HoursPass(f)
  <2>1. /\ f \in temp \ (broken \cup Saving)
        /\ broken' = broken \cup {f}
        /\ UNCHANGED <<row, aged, blobs, temp, records, doc, logo, cache, req, cleaner,
                       backup, target, crashes>>
    BY <1>2 DEF HoursPass
  <2>2. TypeOK'
    BY <2>1 DEF IInv, TypeOK
  <2>3. \A r \in Requests : req[r].at = "saving" => req[r].file # f
    BY <2>1 DEF Saving
  <2>4. HeldApart' /\ HalfWritten'
    BY <2>1, <2>3 DEF IInv, HeldApart, HalfWritten
  <2>5. LogosKnown' /\ RecordsOwn' /\ LogoLive'
    BY <2>1 DEF IInv, LogosKnown, Known, RecordsOwn, LogoLive
  <2>6. LiveFilesServable'
    BY <2>1 DEF IInv, LiveFilesServable, Rows
  <2>7. DoomedDeleted' /\ SnapshotKept' /\ RestoreKept'
    BY <2>1, CommandsUndisturbed
  <2>8. QED
    BY <2>2, <2>4, <2>5, <2>6, <2>7 DEF IInv
<1>3. QED
  BY <1>1, <1>2

-----------------------------------------------------------------------------
(* The theorems *)

LEMMA InitIInv == Init => IInv
<1> SUFFICES ASSUME Init PROVE IInv
  OBVIOUS
<1> USE DEF Init
<1>1. TypeOK
  BY BoundsAssumption
  DEF TypeOK, Optional, Idle, Resting, Backups, NoBackup, Targets, EmptyTarget
<1>2. HeldApart /\ HalfWritten
  BY DEF HeldApart, HalfWritten, Holding, Idle
<1>3. LogosKnown
  BY DEF LogosKnown, Known, Idle
<1>4. RecordsOwn /\ LogoLive
  BY DEF RecordsOwn, LogoLive, FileIds
<1>5. LiveFilesServable
  BY DEF LiveFilesServable, Rows
<1>6. DoomedDeleted /\ SnapshotKept /\ RestoreKept
  BY DEF DoomedDeleted, SnapshotKept, RestoreKept, NoBackup, EmptyTarget
<1>7. QED
  BY <1>1, <1>2, <1>3, <1>4, <1>5, <1>6 DEF IInv

LEMMA NextIInv == IInv /\ [Next]_vars => IInv'
<1> SUFFICES ASSUME IInv, [Next]_vars PROVE IInv'
  OBVIOUS
<1>1. ASSUME NEW r \in Requests, Upload(r)
      PROVE  IInv'
  BY <1>1, UploadBeginIInv, UploadDroppedIInv, UploadSaveIInv, CreateCommitIInv,
     EditCommitIInv, LogoCommitIInv, SettingsIInv DEF Upload
<1>2. ASSUME NEW h \in Holders, CreateWithoutFile(h)
      PROVE  IInv'
  BY <1>2, CreateWithoutFileIInv
<1>3. ASSUME NEW S \in SUBSET records, Delete(S)
      PROVE  IInv'
  BY <1>3, DeleteIInv
<1>4. CASE Cleaner
  BY <1>4, CleanerIInv
<1>5. CASE BackupBegin \/ Backup \/ BackupDies \/ BackupFails
  BY <1>5, BackupIInv
<1>6. CASE Restore
  BY <1>6, RestoreIInv
<1>7. CASE Crash
  BY <1>7, CrashIInv
<1>8. ASSUME NEW f \in FileIds, DaysPass(f) \/ HoursPass(f)
      PROVE  IInv'
  BY <1>8, TimeIInv
<1>9. CASE UNCHANGED vars
  <2>1. UNCHANGED <<row, aged, blobs, temp, broken, records, doc, logo, cache, req, cleaner,
                    backup, target, crashes>>
    BY <1>9 DEF vars
  <2>2. TypeOK'
    BY <2>1 DEF IInv, TypeOK
  <2>3. HeldApart' /\ HalfWritten' /\ LogosKnown' /\ RecordsOwn' /\ LogoLive'
        /\ LiveFilesServable'
    BY <2>1, RowsUndisturbed
  <2>4. DoomedDeleted' /\ SnapshotKept' /\ RestoreKept'
    BY <2>1, CommandsUndisturbed
  <2>5. QED
    BY <2>2, <2>3, <2>4 DEF IInv
<1>10. QED
  BY <1>1, <1>2, <1>3, <1>4, <1>5, <1>6, <1>7, <1>8, <1>9 DEF Next

\* The inductive invariant.
THEOREM Invariant == Spec => []IInv
<1>1. Init => IInv
  BY InitIInv
<1>2. IInv /\ [Next]_vars => IInv'
  BY NextIInv
<1>3. QED
  BY <1>1, <1>2, PTL DEF Spec

\* Every variable has its type.
THEOREM TypeCorrect == Spec => []TypeOK
<1>1. IInv => TypeOK
  BY DEF IInv
<1>2. QED
  BY <1>1, Invariant, PTL

\* Files.LiveFilesServable: uploads, purges and crashes leave the blob of a file that
\* is not marked deleted in place, whatever the number of requests.
THEOREM LiveServable == Spec => []LiveFilesServable
<1>1. IInv => LiveFilesServable
  BY DEF IInv
<1>2. QED
  BY <1>1, Invariant, PTL

\* Files.ReferencedFilesLive: replacing, also the logo of a stale cache, never marks
\* a file that a record or the workspace refers to.
THEOREM ReferencedLive == Spec => []ReferencedFilesLive
<1>1. ASSUME IInv PROVE ReferencedFilesLive
  <2>1. ASSUME NEW f \in Referenced PROVE f \in Rows("live")
    <3>1. CASE f = logo
      BY <1>1, <2>1, <3>1 DEF IInv, LogoLive, TypeOK, Referenced, Rows, Optional, FileIds
    <3>2. CASE f # logo
      <4>1. PICK h \in records : doc[h] = f
        BY <2>1, <3>2 DEF Referenced
      <4>2. h \in Holders /\ doc[h] \in Optional(Documents) /\ doc[h] # NoFile
        BY <1>1, <2>1, <4>1 DEF IInv, TypeOK, Referenced
      <4>3. QED
        BY <1>1, <4>1, <4>2 DEF IInv, RecordsOwn, Rows, Optional, FileIds
    <3>3. QED
      BY <3>1, <3>2
  <2>2. QED
    BY <2>1 DEF ReferencedFilesLive
<1>2. QED
  BY <1>1, Invariant, PTL

\* Files.DocumentsOwned: a live document has exactly one record.
THEOREM OneOwner == Spec => []DocumentsOwned
<1>1. ASSUME IInv PROVE DocumentsOwned
  <2>1. ASSUME NEW f \in Documents \cap Rows("live")
        PROVE  Cardinality({h \in records : doc[h] = f}) = 1
    <3>1. f \in Documents /\ row[f] = "live" /\ f # NoFile
      BY <2>1, NoFileAssumption DEF Rows, FileIds
    <3>2. PICK h \in records : doc[h] = f
      BY <1>1, <3>1 DEF IInv, RecordsOwn
    <3>3. records \subseteq Holders
      BY <1>1 DEF IInv, TypeOK
    <3>4. \A k \in records : doc[k] = f => k = h
      BY <1>1, <3>1, <3>2, <3>3 DEF IInv, RecordsOwn
    <3>5. {k \in records : doc[k] = f} = {h}
      BY <3>2, <3>4
    <3>6. QED
      BY <3>5, FS_Singleton
  <2>2. QED
    BY <2>1 DEF DocumentsOwned
<1>2. QED
  BY <1>1, Invariant, PTL

\* Files.FinishedBackupWhole: a walk that comes to its end has packed the blob of
\* every file its snapshot calls live.
THEOREM BackupsWhole == Spec => []FinishedBackupWhole
<1>1. IInv => FinishedBackupWhole
  BY DEF IInv, SnapshotKept, FinishedBackupWhole
<1>2. QED
  BY <1>1, Invariant, PTL

\* Files.RestoredWhole: a restore that reports success has put every one in place.
THEOREM RestoresWhole == Spec => []RestoredWhole
<1>1. ASSUME IInv, target.at = "done", target.from # "cut"
      PROVE  target.live \subseteq target.files
  <2>1. target.from \in {"torn", "cut", "done"}
    BY <1>1, TargetFields DEF IInv
  <2>2. target.from # "torn" /\ target.left = {}
    BY <1>1 DEF IInv, RestoreKept
  <2>3. target.from = "done"
    BY <1>1, <2>1, <2>2
  <2>4. QED
    BY <1>1, <2>2, <2>3 DEF IInv, RestoreKept
<1>2. IInv => RestoredWhole
  BY <1>1 DEF RestoredWhole
<1>3. QED
  BY <1>2, Invariant, PTL
=============================================================================
