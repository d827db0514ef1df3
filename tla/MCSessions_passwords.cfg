SPECIFICATION Spec
CONSTANTS
  Staff = {s}
  Contacts = {c}
  Tokens = {t1, t2, t3}
  Resets = {z1, z2}
  Nobody = nobody
  Requests = {r1, r2}
  MaxPasswords = 3
SYMMETRY Symmetry
INVARIANTS
  TypeOK
  SessionsCurrentButLate
  ResetSingleUse
CHECK_DEADLOCK FALSE
