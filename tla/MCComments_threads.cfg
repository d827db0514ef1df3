SPECIFICATION Spec
CONSTANTS
  Versions = {v1, v2}
  Comments = {c1, c2}
  Brief = brief
  Staff = {s}
  Contacts = {c}
  None = None
  Requests = {r1, r2}
SYMMETRY Symmetry
INVARIANTS
  TypeOK
  ClientsCommentsAnchored
PROPERTIES
  ReadableStays
CHECK_DEADLOCK FALSE
