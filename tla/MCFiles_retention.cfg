SPECIFICATION Spec
CONSTANTS
  Documents = {f1, f2}
  Images = {}
  NoFile = NoFile
  Versions = {v}
  Invoices = {i}
  Requests = {r1}
  MaxBackups = 1
  MaxCrashes = 1
INVARIANTS
  FinishedBackupWhole
  RestoredWhole
PROPERTIES
  DeletedFilesPurged
  TempFilesCleaned
