SPECIFICATION Spec
CONSTANTS
  Contacts = {c1}
  Staff = {s1, s2}
  Answers = {a}
  Goalless = {}
  MaxVersions = 3
SYMMETRY Symmetry
INVARIANTS
  SubmissionsMailed
