SPECIFICATION Spec
CONSTANTS
  Documents = {f1, f2}
  Images = {g1, g2, g3}
  NoFile = NoFile
  Versions = {v}
  Invoices = {i}
  Requests = {r1, r2}
  MaxBackups = 0
  MaxCrashes = 1
SYMMETRY Symmetry
INVARIANTS
  TypeOK
  LiveFilesServable
  ReferencedFilesLive
  DocumentsOwned
