SPECIFICATION InvoicesSpec
CONSTANTS
  Orgs = {o1}
  Projects = {p1}
  NoOrg = NoOrg
  Requests = {r1, r2}
  InvoiceIds = {i1}
  Forms = {q1, q2}
  NoProject = NoProject
  MaxInt = 2047
  Texts <- MCTexts
SYMMETRY Symmetry
INVARIANTS
  InvoicesTypeOK
  ProjectsHaveClient
  ArchivedAllClosedButReopened
  ShownAnnounced
  AmountsAsTyped
PROPERTIES
  SettledFrozen
CHECK_DEADLOCK FALSE
