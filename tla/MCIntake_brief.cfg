SPECIFICATION Spec
CONSTANTS
  Contacts = {c1, c2}
  Staff = {s}
  Answers = {a, b, none}
  Goalless = {none}
  MaxVersions = 3
INVARIANTS
  TypeOK
  DraftNewest
PROPERTIES
  SubmittedFrozen
