SPECIFICATION Spec
CONSTANTS
  Documents = {f1, f2}
  Images = {}
  NoFile = NoFile
  Versions = {v, w}
  Invoices = {}
  Requests = {r1}
  MaxBackups = 1
  MaxCrashes = 0
SYMMETRY Symmetry
INVARIANTS
  BackupWhole
