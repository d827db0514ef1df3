SPECIFICATION Spec
CONSTANTS
  Users = {o, u1, u2}
  Owner = o
  Contacts = {c1, c2}
  Invitations = {i1, i2}
  Projects = {p}
  Emails = {e0, e1, e2}
  OwnerEmail = e0
  None = None
  Requests = {r1, r2}
SYMMETRY Symmetry
INVARIANTS
  TypeOK
  InvitationSingleUse
  ClientsAreContacts
  OneWayIn
  MembersOnTeamButLate
