---------------------------- MODULE AccessProofs ----------------------------
(***************************************************************************)
(* Proofs about Access, for any users, contacts, invitations, projects,    *)
(* addresses and requests.                                                 *)
(*                                                                         *)
(* A client account is made from an invitation, so that it belongs to its  *)
(* contact only if every open invitation still tells the contact's own     *)
(* address, and a contact that is bound is still there: what contactRemove *)
(* and the change of an address leave untouched.  That members are on the  *)
(* team rests on requests: who began one as staff was on the team, and     *)
(* only leaves it as a former member.                                      *)
(***************************************************************************)
EXTENDS Access, TLAPS

Kept == {"live", "removed"}

\* An open invitation of a contact goes to the address the contact has.
InvitationsAddressed ==
  \A i \in Invitations : inv[i] = "open" /\ icontact[i] # None =>
    contact[icontact[i]] \in Kept /\ iemail[i] = cemail[icontact[i]]

BoundKept == \A c \in Contacts : cuser[c] # None => contact[c] \in Kept

StaffSignedIn ==
  \A r \in Requests : req[r].does = "staff" => account[req[r].user] \in OnTeam \cup {"former"}

IInv ==
  /\ TypeOK
  /\ InvitationsAddressed
  /\ BoundKept
  /\ StaffSignedIn
  /\ InvitationSingleUse
  /\ ClientsAreContacts
  /\ OneWayIn
  /\ MembersOnTeamButLate

-----------------------------------------------------------------------------
(* Facts *)

\* What a request has loaded, by what it does.
LEMMA LoadedFields ==
  ASSUME TypeOK, NEW r \in Requests
  PROVE  /\ req[r].does = "accept" => req[r].invitation \in Invitations
         /\ req[r].does \in {"staff", "client"} => req[r].user \in Users
         /\ req[r] \in SignedIn => req[r].does \in {"staff", "client"}
  <1>1. req[r] \in {Idle} \cup Accepting \cup SignedIn
    BY DEF TypeOK
  <1>. QED
    BY <1>1 DEF Idle, Accepting, SignedIn

\* A transaction leaves its request idle.
LEMMA DoneType ==
  ASSUME TypeOK, NEW r \in Requests, Done(r)
  PROVE  /\ req' \in [Requests -> {Idle} \cup Accepting \cup SignedIn]
         /\ \A q \in Requests : req'[q].does = "staff" => req'[q] = req[q]
  BY DEF TypeOK, Done, Idle

\* At first there is the owner alone.
LEMMA InitIInv == Init => IInv
  <1>. SUFFICES ASSUME Init PROVE IInv
    OBVIOUS
  <1>. USE OwnerAssumption, NoneAssumption DEF Init
  <1>1. TypeOK
    BY DEF TypeOK
  <1>2. StaffSignedIn
    BY DEF StaffSignedIn, Idle
  <1>. QED
    BY <1>1, <1>2 DEF IInv, InvitationsAddressed, BoundKept, InvitationSingleUse, ClientsAreContacts,
       OneWayIn, MembersOnTeamButLate

-----------------------------------------------------------------------------
(* Invitations *)

\* An invitation to the team concerns no contact.
LEMMA TeamInviteIInv ==
  ASSUME IInv, NEW e \in Emails, TeamInvite(e)
  PROVE  IInv'
  <1>. USE NoneAssumption, LoadedFields, DoneType
       DEF IInv, TypeOK, TeamInvite, Invite, contactVars, invitationVars, accountVars, projectVars
  <1>1. TypeOK'
    BY DEF OnTeam, ClientsAreContacts, StaffSignedIn
  <1>2. (InvitationsAddressed /\ BoundKept /\ OneWayIn)'
    BY DEF InvitationsAddressed, BoundKept, OneWayIn, Kept
  <1>3. ClientsAreContacts'
    BY DEF ClientsAreContacts, InvitationsAddressed, BoundKept, OneWayIn, Kept, OnTeam
  <1>4. InvitationSingleUse'
    BY DEF InvitationSingleUse
  <1>5. (StaffSignedIn /\ MembersOnTeamButLate)'
    BY DEF StaffSignedIn, MembersOnTeamButLate, ClientsAreContacts, OnTeam, Idle
  <1>. QED
    BY <1>1, <1>2, <1>3, <1>4, <1>5

\* The contact's new invitation is the only open one, and goes to its address.
LEMMA ContactInviteIInv ==
  ASSUME IInv, NEW c \in Contacts, ContactInvite(c)
  PROVE  IInv'
  <1>. USE NoneAssumption, LoadedFields, DoneType
       DEF IInv, TypeOK, ContactInvite, Invite, Overridden, contactVars, invitationVars, accountVars, projectVars
  <1>1. TypeOK'
    BY DEF OnTeam, ClientsAreContacts, StaffSignedIn
  <1>2. (InvitationsAddressed /\ BoundKept /\ OneWayIn)'
    BY DEF InvitationsAddressed, BoundKept, OneWayIn, Kept
  <1>3. ClientsAreContacts'
    BY DEF ClientsAreContacts, InvitationsAddressed, BoundKept, OneWayIn, Kept, OnTeam
  <1>4. InvitationSingleUse'
    BY DEF InvitationSingleUse
  <1>5. (StaffSignedIn /\ MembersOnTeamButLate)'
    BY DEF StaffSignedIn, MembersOnTeamButLate, ClientsAreContacts, OnTeam, Idle
  <1>. QED
    BY <1>1, <1>2, <1>3, <1>4, <1>5

\* A revoked invitation is not open.
LEMMA InvitationRevokeIInv ==
  ASSUME IInv, NEW i \in Invitations, InvitationRevoke(i)
  PROVE  IInv'
  <1>. USE NoneAssumption, LoadedFields, DoneType
       DEF IInv, TypeOK, InvitationRevoke, contactVars, invitationVars, accountVars, projectVars
  <1>1. TypeOK'
    BY DEF OnTeam, ClientsAreContacts, StaffSignedIn
  <1>2. (InvitationsAddressed /\ BoundKept /\ OneWayIn)'
    BY DEF InvitationsAddressed, BoundKept, OneWayIn, Kept
  <1>3. ClientsAreContacts'
    BY DEF ClientsAreContacts, InvitationsAddressed, BoundKept, OneWayIn, Kept, OnTeam
  <1>4. InvitationSingleUse'
    BY DEF InvitationSingleUse
  <1>5. (StaffSignedIn /\ MembersOnTeamButLate)'
    BY DEF StaffSignedIn, MembersOnTeamButLate, ClientsAreContacts, OnTeam, Idle
  <1>. QED
    BY <1>1, <1>2, <1>3, <1>4, <1>5

\* What an invitation shows writes no row.
LEMMA InviteAcceptBeginIInv ==
  ASSUME IInv, NEW r \in Requests, NEW i \in Invitations, InviteAcceptBegin(r, i)
  PROVE  IInv'
  <1>. USE NoneAssumption, LoadedFields, DoneType
       DEF IInv, TypeOK, InviteAcceptBegin, Accepting, contactVars, invitationVars, accountVars, projectVars
  <1>1. TypeOK'
    BY DEF OnTeam, ClientsAreContacts, StaffSignedIn
  <1>2. (InvitationsAddressed /\ BoundKept /\ OneWayIn)'
    BY DEF InvitationsAddressed, BoundKept, OneWayIn, Kept
  <1>3. ClientsAreContacts'
    BY DEF ClientsAreContacts, InvitationsAddressed, BoundKept, OneWayIn, Kept, OnTeam
  <1>4. InvitationSingleUse'
    BY DEF InvitationSingleUse
  <1>5. (StaffSignedIn /\ MembersOnTeamButLate)'
    BY DEF StaffSignedIn, MembersOnTeamButLate, ClientsAreContacts, OnTeam, Idle
  <1>. QED
    BY <1>1, <1>2, <1>3, <1>4, <1>5

\* The invitation is spent, and its contact, not bound before, has the new account.
LEMMA InviteAcceptCommitIInv ==
  ASSUME IInv, NEW r \in Requests, NEW u \in Users, InviteAcceptCommit(r, u)
  PROVE  IInv'
  <1>. USE NoneAssumption, LoadedFields, DoneType
       DEF IInv, TypeOK, InviteAcceptCommit, StillOpen, BindContact, contactVars, invitationVars, accountVars, projectVars
  <1>1. TypeOK'
    BY DEF OnTeam, ClientsAreContacts, StaffSignedIn
  <1>2. (InvitationsAddressed /\ BoundKept /\ OneWayIn)'
    BY DEF InvitationsAddressed, BoundKept, OneWayIn, Kept
  <1>3. ClientsAreContacts'
    BY DEF ClientsAreContacts, InvitationsAddressed, BoundKept, OneWayIn, Kept, OnTeam
  <1>4. InvitationSingleUse'
    BY DEF InvitationSingleUse
  <1>5. (StaffSignedIn /\ MembersOnTeamButLate)'
    BY DEF StaffSignedIn, MembersOnTeamButLate, ClientsAreContacts, OnTeam, Idle
  <1>. QED
    BY <1>1, <1>2, <1>3, <1>4, <1>5

-----------------------------------------------------------------------------
(* Contacts *)

\* A new contact has neither an invitation nor an account.
LEMMA ContactCreateIInv ==
  ASSUME IInv, NEW c \in Contacts, NEW e \in Emails, ContactCreate(c, e)
  PROVE  IInv'
  <1>. USE NoneAssumption, LoadedFields, DoneType
       DEF IInv, TypeOK, ContactCreate, contactVars, invitationVars, accountVars, projectVars
  <1>1. TypeOK'
    BY DEF OnTeam, ClientsAreContacts, StaffSignedIn
  <1>2. (InvitationsAddressed /\ BoundKept /\ OneWayIn)'
    BY DEF InvitationsAddressed, BoundKept, OneWayIn, Kept
  <1>3. ClientsAreContacts'
    BY DEF ClientsAreContacts, InvitationsAddressed, BoundKept, OneWayIn, Kept, OnTeam
  <1>4. InvitationSingleUse'
    BY DEF InvitationSingleUse
  <1>5. (StaffSignedIn /\ MembersOnTeamButLate)'
    BY DEF StaffSignedIn, MembersOnTeamButLate, ClientsAreContacts, OnTeam, Idle
  <1>. QED
    BY <1>1, <1>2, <1>3, <1>4, <1>5

\* A removed contact keeps its address and its account.
LEMMA ContactRemoveIInv ==
  ASSUME IInv, NEW c \in Contacts, ContactRemove(c)
  PROVE  IInv'
  <1>. USE NoneAssumption, LoadedFields, DoneType
       DEF IInv, TypeOK, ContactRemove, contactVars, invitationVars, accountVars, projectVars
  <1>1. TypeOK'
    BY DEF OnTeam, ClientsAreContacts, StaffSignedIn
  <1>2. (InvitationsAddressed /\ BoundKept /\ OneWayIn)'
    BY DEF InvitationsAddressed, BoundKept, OneWayIn, Kept
  <1>3. ClientsAreContacts'
    BY DEF ClientsAreContacts, InvitationsAddressed, BoundKept, OneWayIn, Kept, OnTeam
  <1>4. InvitationSingleUse'
    BY DEF InvitationSingleUse
  <1>5. (StaffSignedIn /\ MembersOnTeamButLate)'
    BY DEF StaffSignedIn, MembersOnTeamButLate, ClientsAreContacts, OnTeam, Idle
  <1>. QED
    BY <1>1, <1>2, <1>3, <1>4, <1>5

\* All client accounts are of contacts, and go with them; no account of the team does.
LEMMA ClientDeleteIInv ==
  ASSUME IInv, ClientDelete
  PROVE  IInv'
  <1>. USE NoneAssumption, LoadedFields, DoneType
       DEF IInv, TypeOK, ClientDelete, AccountsOfContacts, contactVars, invitationVars, accountVars, projectVars
  <1>1. TypeOK'
    BY DEF OnTeam, ClientsAreContacts, StaffSignedIn
  <1>2. (InvitationsAddressed /\ BoundKept /\ OneWayIn)'
    BY DEF InvitationsAddressed, BoundKept, OneWayIn, Kept
  <1>3. ClientsAreContacts'
    BY DEF ClientsAreContacts, InvitationsAddressed, BoundKept, OneWayIn, Kept, OnTeam
  <1>4. InvitationSingleUse'
    BY DEF InvitationSingleUse
  <1>5. (StaffSignedIn /\ MembersOnTeamButLate)'
    BY DEF StaffSignedIn, MembersOnTeamButLate, ClientsAreContacts, OnTeam, Idle
  <1>. QED
    BY <1>1, <1>2, <1>3, <1>4, <1>5

-----------------------------------------------------------------------------
(* Accounts and members *)

\* Staff who sign in are on the team.
LEMMA SignInIInv ==
  ASSUME IInv, NEW r \in Requests, NEW u \in Users, SignIn(r, u)
  PROVE  IInv'
  <1>. USE NoneAssumption, LoadedFields, DoneType
       DEF IInv, TypeOK, SignIn, SignedIn, contactVars, invitationVars, accountVars, projectVars
  <1>1. TypeOK'
    BY DEF OnTeam, ClientsAreContacts, StaffSignedIn
  <1>2. (InvitationsAddressed /\ BoundKept /\ OneWayIn)'
    BY DEF InvitationsAddressed, BoundKept, OneWayIn, Kept
  <1>3. ClientsAreContacts'
    BY DEF ClientsAreContacts, InvitationsAddressed, BoundKept, OneWayIn, Kept, OnTeam
  <1>4. InvitationSingleUse'
    BY DEF InvitationSingleUse
  <1>5. (StaffSignedIn /\ MembersOnTeamButLate)'
    BY DEF StaffSignedIn, MembersOnTeamButLate, ClientsAreContacts, OnTeam, Idle
  <1>. QED
    BY <1>1, <1>2, <1>3, <1>4, <1>5

\* A new address is the contact's too, whose invitations are all spent.
LEMMA EmailChangeIInv ==
  ASSUME IInv, NEW r \in Requests, NEW e \in Emails, EmailChange(r, e)
  PROVE  IInv'
  <1>. USE NoneAssumption, LoadedFields, DoneType
       DEF IInv, TypeOK, EmailChange, Follows, contactVars, invitationVars, accountVars, projectVars
  <1>1. TypeOK'
    BY DEF OnTeam, ClientsAreContacts, StaffSignedIn
  <1>2. (InvitationsAddressed /\ BoundKept /\ OneWayIn)'
    BY DEF InvitationsAddressed, BoundKept, OneWayIn, Kept
  <1>3. ClientsAreContacts'
    BY DEF ClientsAreContacts, InvitationsAddressed, BoundKept, OneWayIn, Kept, OnTeam
  <1>4. InvitationSingleUse'
    BY DEF InvitationSingleUse
  <1>5. (StaffSignedIn /\ MembersOnTeamButLate)'
    BY DEF StaffSignedIn, MembersOnTeamButLate, ClientsAreContacts, OnTeam, Idle
  <1>. QED
    BY <1>1, <1>2, <1>3, <1>4, <1>5

\* Who creates a project is on the team, or is late.
LEMMA ProjectCreateIInv ==
  ASSUME IInv, NEW r \in Requests, NEW p \in Projects, ProjectCreate(r, p)
  PROVE  IInv'
  <1>. USE NoneAssumption, LoadedFields, DoneType
       DEF IInv, TypeOK, ProjectCreate, contactVars, invitationVars, accountVars, projectVars
  <1>1. TypeOK'
    BY DEF OnTeam, ClientsAreContacts, StaffSignedIn
  <1>2. (InvitationsAddressed /\ BoundKept /\ OneWayIn)'
    BY DEF InvitationsAddressed, BoundKept, OneWayIn, Kept
  <1>3. ClientsAreContacts'
    BY DEF ClientsAreContacts, InvitationsAddressed, BoundKept, OneWayIn, Kept, OnTeam
  <1>4. InvitationSingleUse'
    BY DEF InvitationSingleUse
  <1>5. (StaffSignedIn /\ MembersOnTeamButLate)'
    BY DEF StaffSignedIn, MembersOnTeamButLate, ClientsAreContacts, OnTeam, Idle
  <1>. QED
    BY <1>1, <1>2, <1>3, <1>4, <1>5

\* Who is added is on the team.
LEMMA MemberIInv ==
  ASSUME IInv, NEW p \in Projects, NEW u \in Users, MemberAdd(p, u) \/ MemberRemove(p, u)
  PROVE  IInv'
  <1>. USE NoneAssumption, LoadedFields, DoneType
       DEF IInv, TypeOK, MemberAdd, MemberRemove, IsStaff, contactVars, invitationVars, accountVars, projectVars
  <1>1. TypeOK'
    BY DEF OnTeam, ClientsAreContacts, StaffSignedIn
  <1>2. (InvitationsAddressed /\ BoundKept /\ OneWayIn)'
    BY DEF InvitationsAddressed, BoundKept, OneWayIn, Kept
  <1>3. ClientsAreContacts'
    BY DEF ClientsAreContacts, InvitationsAddressed, BoundKept, OneWayIn, Kept, OnTeam
  <1>4. InvitationSingleUse'
    BY DEF InvitationSingleUse
  <1>5. (StaffSignedIn /\ MembersOnTeamButLate)'
    BY DEF StaffSignedIn, MembersOnTeamButLate, ClientsAreContacts, OnTeam, Idle
  <1>. QED
    BY <1>1, <1>2, <1>3, <1>4, <1>5

\* Who leaves the team leaves every project.
LEMMA TeamRemoveIInv ==
  ASSUME IInv, NEW u \in Users, TeamRemove(u)
  PROVE  IInv'
  <1>. USE NoneAssumption, LoadedFields, DoneType
       DEF IInv, TypeOK, TeamRemove, contactVars, invitationVars, accountVars, projectVars
  <1>1. TypeOK'
    BY DEF OnTeam, ClientsAreContacts, StaffSignedIn
  <1>2. (InvitationsAddressed /\ BoundKept /\ OneWayIn)'
    BY DEF InvitationsAddressed, BoundKept, OneWayIn, Kept
  <1>3. ClientsAreContacts'
    BY DEF ClientsAreContacts, InvitationsAddressed, BoundKept, OneWayIn, Kept, OnTeam
  <1>4. InvitationSingleUse'
    BY DEF InvitationSingleUse
  <1>5. (StaffSignedIn /\ MembersOnTeamButLate)'
    BY DEF StaffSignedIn, MembersOnTeamButLate, ClientsAreContacts, OnTeam, Idle
  <1>. QED
    BY <1>1, <1>2, <1>3, <1>4, <1>5

\* A request that fails writes no row.
LEMMA FailIInv ==
  ASSUME IInv, NEW r \in Requests, Fail(r)
  PROVE  IInv'
  <1>. USE NoneAssumption, LoadedFields, DoneType
       DEF IInv, TypeOK, Fail, contactVars, invitationVars, accountVars, projectVars
  <1>1. TypeOK'
    BY DEF OnTeam, ClientsAreContacts, StaffSignedIn
  <1>2. (InvitationsAddressed /\ BoundKept /\ OneWayIn)'
    BY DEF InvitationsAddressed, BoundKept, OneWayIn, Kept
  <1>3. ClientsAreContacts'
    BY DEF ClientsAreContacts, InvitationsAddressed, BoundKept, OneWayIn, Kept, OnTeam
  <1>4. InvitationSingleUse'
    BY DEF InvitationSingleUse
  <1>5. (StaffSignedIn /\ MembersOnTeamButLate)'
    BY DEF StaffSignedIn, MembersOnTeamButLate, ClientsAreContacts, OnTeam, Idle
  <1>. QED
    BY <1>1, <1>2, <1>3, <1>4, <1>5

-----------------------------------------------------------------------------

\* Every step keeps the invariant.
LEMMA StepIInv == IInv /\ [Next]_vars => IInv'
  <1>. SUFFICES ASSUME IInv, [Next]_vars PROVE IInv'
    OBVIOUS
  <1>1. CASE UNCHANGED vars
    BY <1>1 DEF vars, IInv, TypeOK, InvitationsAddressed, BoundKept, StaffSignedIn,
       InvitationSingleUse, ClientsAreContacts, OneWayIn, MembersOnTeamButLate
  <1>. QED
    BY <1>1, TeamInviteIInv, ContactInviteIInv, InvitationRevokeIInv, InviteAcceptBeginIInv,
       InviteAcceptCommitIInv, ContactCreateIInv, ContactRemoveIInv, ClientDeleteIInv, SignInIInv,
       EmailChangeIInv, ProjectCreateIInv, MemberIInv, TeamRemoveIInv, FailIInv
    DEF Next

(* Invitations, contacts, accounts and members stay together through every  *)
(* order of invitations, removals and changes of address.                   *)
THEOREM Invariant == Spec => []IInv
  BY InitIInv, StepIInv, PTL DEF Spec

(* Rows and requests are what their types say; members are of projects that *)
(* exist, and the late ones are no longer on the team.                      *)
THEOREM TypeCorrect == Spec => []TypeOK
  <1>1. IInv => TypeOK
    BY DEF IInv
  <1>. QED
    BY <1>1, Invariant, PTL

(* No two accounts are made from one invitation, and it stays spent.        *)
THEOREM OneAccountEach == Spec => []InvitationSingleUse
  <1>1. IInv => InvitationSingleUse
    BY DEF IInv
  <1>. QED
    BY <1>1, Invariant, PTL

(* Each client account belongs to one contact, under the same address, and  *)
(* each contact's account is a client's.                                    *)
THEOREM ClientsBelong == Spec => []ClientsAreContacts
  <1>1. IInv => ClientsAreContacts
    BY DEF IInv
  <1>. QED
    BY <1>1, Invariant, PTL

(* A contact has one open invitation at most, and none once it has an       *)
(* account.                                                                 *)
THEOREM LastLinkOnly == Spec => []OneWayIn
  <1>1. IInv => OneWayIn
    BY DEF IInv
  <1>. QED
    BY <1>1, Invariant, PTL

(* The members of every project are on the team, but for one who was        *)
(* removed from it while creating the project.                              *)
THEOREM MembersOnTeam == Spec => []MembersOnTeamButLate
  <1>1. IInv => MembersOnTeamButLate
    BY DEF IInv
  <1>. QED
    BY <1>1, Invariant, PTL
=============================================================================
