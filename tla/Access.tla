------------------------------- MODULE Access -------------------------------
(***************************************************************************)
(* Who may enter: invitations, the accounts made from them, the contacts   *)
(* of one client organization and the members of its projects.             *)
(*                                                                         *)
(* Most handlers here ask everything they rely on in their transaction and *)
(* are one action.  Two kinds of request carry something into it: one that *)
(* accepts an invitation it has loaded, and one of a user whose account    *)
(* was looked up when the request began.                                   *)
(*                                                                         *)
(* An invitation expires after 7 days, which is asked when it is loaded:   *)
(* here every load may fail.  Passwords and sessions are not in this       *)
(* module, nor whether the organization is archived (see Clients).         *)
(***************************************************************************)
EXTENDS FiniteSets

CONSTANTS
  Users,        \* ids for users
  Owner,        \* the workspace's owner
  Contacts,     \* ids for client_contacts
  Invitations,  \* ids for invitations
  Projects,     \* ids for projects
  Emails,       \* addresses, in lower case
  OwnerEmail,   \* the owner's at first
  None,         \* NULL
  Requests      \* requests in progress at once

ASSUME OwnerAssumption == Owner \in Users /\ OwnerEmail \in Emails
ASSUME NoneAssumption == None \notin Users \cup Contacts \cup Emails \cup Invitations

VARIABLES
  org,      \* whether the client organization is there
  contact,  \* client_contacts: "unused", "live", "removed" (removed_at), "deleted"
  cemail,   \* their email
  cuser,    \* their user_id
  inv,      \* invitations: "unused", "open", "accepted", "revoked", "deleted"
  iemail,   \* their email
  icontact, \* their contact_id; a staff invitation has none
  account,  \* users: "unused", "deleted", or the role of their membership, "former" for none
  email,    \* users.email
  projects, \* the projects that exist
  members,  \* project_members, pairs of project and user
  req,      \* what each request has loaded
  madeFrom, \* history: the invitation an account was made from
  late      \* history: users removed from the team who then created a project

contactVars == <<contact, cemail, cuser>>
invitationVars == <<inv, iemail, icontact>>
accountVars == <<account, email, madeFrom>>
projectVars == <<projects, members, late>>
vars == <<org, contact, cemail, cuser, inv, iemail, icontact, account, email,
          projects, members, req, madeFrom, late>>

Idle == [does |-> "idle"]
Accepting == [does : {"accept"}, invitation : Invitations]
SignedIn == [does : {"staff", "client"}, user : Users]

OnTeam == {"owner", "staff"}
Exists(u) == account[u] \notin {"unused", "deleted"}

TypeOK ==
  /\ org \in {"live", "deleted"}
  /\ contact \in [Contacts -> {"unused", "live", "removed", "deleted"}]
  /\ cemail \in [Contacts -> Emails \cup {None}]
  /\ cuser \in [Contacts -> Users \cup {None}]
  /\ inv \in [Invitations -> {"unused", "open", "accepted", "revoked", "deleted"}]
  /\ iemail \in [Invitations -> Emails \cup {None}]
  /\ icontact \in [Invitations -> Contacts \cup {None}]
  /\ account \in [Users -> {"unused", "owner", "staff", "client", "former", "deleted"}]
  /\ email \in [Users -> Emails \cup {None}]
  /\ projects \subseteq Projects
  /\ members \subseteq projects \X Users
  /\ req \in [Requests -> {Idle} \cup Accepting \cup SignedIn]
  /\ madeFrom \in [Users -> Invitations \cup {None}]
  /\ late \subseteq {u \in Users : account[u] = "former"}

Init ==
  /\ org = "live"
  /\ contact = [c \in Contacts |-> "unused"]
  /\ cemail = [c \in Contacts |-> None]
  /\ cuser = [c \in Contacts |-> None]
  /\ inv = [i \in Invitations |-> "unused"]
  /\ iemail = [i \in Invitations |-> None]
  /\ icontact = [i \in Invitations |-> None]
  /\ account = [u \in Users |-> IF u = Owner THEN "owner" ELSE "unused"]
  /\ email = [u \in Users |-> IF u = Owner THEN OwnerEmail ELSE None]
  /\ projects = {} /\ members = {}
  /\ req = [r \in Requests |-> Idle]
  /\ madeFrom = [u \in Users |-> None]
  /\ late = {}

EmailTaken(e) == \E u \in Users : Exists(u) /\ email[u] = e

\* Mutant: what was loaded is left behind.
DoneKeeping(r) == req' = [req EXCEPT ![r].does = "idle"]

Done(r) == req' = [req EXCEPT ![r] = Idle]

Fail(r) ==
  /\ req[r] # Idle
  /\ Done(r)
  /\ UNCHANGED <<org, contactVars, invitationVars, accountVars, projectVars>>

-----------------------------------------------------------------------------
(* Invitations *)

\* Mutant: an earlier invitation of the contact stays open.
OverriddenNever(c) == {}

\* UPDATE invitations SET revoked_at WHERE contact_id = ? and neither accepted nor revoked
Overridden(c) == {i \in Invitations : icontact[i] = c /\ inv[i] = "open"}

\* createInvitation; the e-mail is queued in the same transaction.
Invite(e, c, revoked) ==
  \E i \in Invitations :
    /\ inv[i] = "unused"
    /\ inv' = [j \in Invitations |-> IF j = i THEN "open"
                                     ELSE IF j \in revoked THEN "revoked" ELSE inv[j]]
    /\ iemail' = [iemail EXCEPT ![i] = e]
    /\ icontact' = [icontact EXCEPT ![i] = c]

TeamInvite(e) ==
  /\ ~EmailTaken(e)
  /\ Invite(e, None, {})
  /\ UNCHANGED <<org, contactVars, accountVars, projectVars, req>>

ContactInvite(c) ==
  /\ contact[c] = "live"
  /\ cuser[c] = None
  /\ ~EmailTaken(cemail[c])
  /\ Invite(cemail[c], c, Overridden(c))
  /\ UNCHANGED <<org, contactVars, accountVars, projectVars, req>>

InvitationRevoke(i) ==
  /\ inv[i] = "open"
  /\ inv' = [inv EXCEPT ![i] = "revoked"]
  /\ UNCHANGED <<org, contactVars, iemail, icontact, accountVars, projectVars, req>>

\* loadInvitation
InviteAcceptBegin(r, i) ==
  /\ req[r] = Idle
  /\ inv[i] = "open"
  /\ req' = [req EXCEPT ![r] = [does |-> "accept", invitation |-> i]]
  /\ UNCHANGED <<org, contactVars, invitationVars, accountVars, projectVars>>

\* Mutant: the loaded invitation is taken for valid.
Loaded(i) == inv[i] # "deleted"

\* WHERE id = ? AND accepted_at IS NULL AND revoked_at IS NULL
StillOpen(i) == inv[i] = "open"

\* The UPDATE of the contact: rolled back unless it changes a row.
BindContact(c, u) ==
  IF c = None THEN UNCHANGED cuser
  ELSE /\ contact[c] = "live" /\ cuser[c] = None
       /\ cuser' = [cuser EXCEPT ![c] = u]

InviteAcceptCommit(r, u) ==
  LET i == req[r].invitation IN
  /\ req[r].does = "accept"
  /\ StillOpen(i)
  /\ account[u] = "unused"
  /\ ~EmailTaken(iemail[i])
  /\ BindContact(icontact[i], u)
  /\ inv' = [inv EXCEPT ![i] = "accepted"]
  /\ account' = [account EXCEPT ![u] = IF icontact[i] = None THEN "staff" ELSE "client"]
  /\ email' = [email EXCEPT ![u] = iemail[i]]
  /\ madeFrom' = [madeFrom EXCEPT ![u] = i]
  /\ Done(r)
  /\ UNCHANGED <<org, contact, cemail, iemail, icontact, projectVars>>

-----------------------------------------------------------------------------
(* Contacts *)

\* Once the organization is deleted its foreign key refuses the contact.
ContactCreate(c, e) ==
  /\ contact[c] = "unused"
  /\ org = "live"
  /\ contact' = [contact EXCEPT ![c] = "live"]
  /\ cemail' = [cemail EXCEPT ![c] = e]
  /\ UNCHANGED <<org, cuser, invitationVars, accountVars, projectVars, req>>

ContactRemove(c) ==
  /\ contact[c] = "live"
  /\ contact' = [contact EXCEPT ![c] = "removed"]
  /\ UNCHANGED <<org, cemail, cuser, invitationVars, accountVars, projectVars, req>>

\* Mutant: the accounts of removed contacts are left.
AccountsOfLive == {u \in Users : \E c \in Contacts : cuser[c] = u /\ contact[c] = "live"}

AccountsOfContacts == {u \in Users : \E c \in Contacts : cuser[c] = u}

\* clientDelete: the organization, its projects, contacts, invitations and accounts.
ClientDelete ==
  LET gone == AccountsOfContacts IN
  /\ org = "live"
  /\ org' = "deleted"
  /\ contact' = [c \in Contacts |-> IF contact[c] = "unused" THEN "unused" ELSE "deleted"]
  /\ cemail' = [c \in Contacts |-> None]
  /\ cuser' = [c \in Contacts |-> None]
  /\ inv' = [i \in Invitations |-> IF icontact[i] = None THEN inv[i] ELSE "deleted"]
  /\ account' = [u \in Users |-> IF u \in gone THEN "deleted" ELSE account[u]]
  /\ email' = [u \in Users |-> IF u \in gone THEN None ELSE email[u]]
  /\ projects' = {} /\ members' = {}
  /\ UNCHANGED <<iemail, icontact, req, madeFrom, late>>

-----------------------------------------------------------------------------
(* Accounts and members *)

\* withUser, requireStaff, requireUser: who asks is looked up when the request begins.
SignIn(r, u) ==
  /\ req[r] = Idle
  /\ account[u] \in OnTeam \cup {"client"}
  /\ req' = [req EXCEPT ![r] = [does |-> IF account[u] = "client" THEN "client" ELSE "staff",
                                user |-> u]]
  /\ UNCHANGED <<org, contactVars, invitationVars, accountVars, projectVars>>

\* UPDATE client_contacts SET email = ? WHERE user_id = ?
Follows(u, e) == [c \in Contacts |-> IF cuser[c] = u THEN e ELSE cemail[c]]

EmailChange(r, e) ==
  LET u == req[r].user IN
  /\ req[r] \in SignedIn
  /\ Exists(u)
  /\ ~\E w \in Users \ {u} : Exists(w) /\ email[w] = e
  /\ email' = [email EXCEPT ![u] = e]
  /\ cemail' = Follows(u, e)
  /\ Done(r)
  /\ UNCHANGED <<org, contact, cuser, invitationVars, account, madeFrom, projectVars>>

\* The creator is a member, whatever became of the account meanwhile.
ProjectCreate(r, p) ==
  /\ req[r].does = "staff"
  /\ p \in Projects \ projects
  /\ org = "live"
  /\ projects' = projects \cup {p}
  /\ members' = members \cup {<<p, req[r].user>>}
  /\ late' = late \cup {u \in {req[r].user} : account[u] = "former"}
  /\ Done(r)
  /\ UNCHANGED <<org, contactVars, invitationVars, accountVars>>

\* Mutant: anyone who was ever on the team.
OnceStaff(u) == account[u] \in OnTeam \cup {"former"}

\* count(*) of memberships WHERE role IN ('owner','staff')
IsStaff(u) == account[u] \in OnTeam

MemberAdd(p, u) ==
  /\ p \in projects
  /\ IsStaff(u)
  /\ members' = members \cup {<<p, u>>}
  /\ UNCHANGED <<org, contactVars, invitationVars, accountVars, projects, late, req>>

MemberRemove(p, u) ==
  /\ <<p, u>> \in members
  /\ members' = members \ {<<p, u>>}
  /\ UNCHANGED <<org, contactVars, invitationVars, accountVars, projects, late, req>>

\* The membership, the places in projects and the sessions go; the user's row stays.
TeamRemove(u) ==
  /\ account[u] = "staff"
  /\ account' = [account EXCEPT ![u] = "former"]
  /\ members' = {m \in members : m[2] # u}
  /\ UNCHANGED <<org, contactVars, invitationVars, email, madeFrom, projects, late, req>>

Next ==
  \/ \E e \in Emails : TeamInvite(e)
  \/ \E c \in Contacts : ContactInvite(c) \/ ContactRemove(c)
  \/ \E c \in Contacts, e \in Emails : ContactCreate(c, e)
  \/ \E i \in Invitations : InvitationRevoke(i)
  \/ ClientDelete
  \/ \E u \in Users : TeamRemove(u)
  \/ \E p \in Projects, u \in Users : MemberAdd(p, u) \/ MemberRemove(p, u)
  \/ \E r \in Requests :
       \/ Fail(r)
       \/ \E i \in Invitations : InviteAcceptBegin(r, i)
       \/ \E u \in Users : InviteAcceptCommit(r, u) \/ SignIn(r, u)
       \/ \E e \in Emails : EmailChange(r, e)
       \/ \E p \in Projects : ProjectCreate(r, p)

Spec == Init /\ [][Next]_vars

-----------------------------------------------------------------------------
(* Properties *)

\* Single use (contract 8): the invitation an account was made from is spent, and no
\* other account was made from it, though two browsers may hold its form and the
\* first account change its address in between.
InvitationSingleUse ==
  \A u, w \in Users : madeFrom[u] # None =>
    /\ inv[madeFrom[u]] \in {"accepted", "deleted"}
    /\ u # w => madeFrom[u] # madeFrom[w]

\* A client's account and the contact's record stay together: each client account
\* belongs to one contact, present or removed, under the same address, and no
\* contact points to an account that is not a client's ("Portal accounts belong to
\* this org only (one contact per user)", export.go).  clientDelete takes accounts by
\* this.
ClientsAreContacts ==
  /\ \A u \in Users : account[u] = "client" =>
       \E c \in Contacts : /\ cuser[c] = u /\ cemail[c] = email[u]
                           /\ \A d \in Contacts \ {c} : cuser[d] # u
  /\ \A c \in Contacts : cuser[c] # None => account[cuser[c]] = "client"

\* A contact has one open invitation at most, and none once it has an account:
\* the link that was mailed last is the only one that works.
OneWayIn ==
  \A i \in Invitations : inv[i] = "open" /\ icontact[i] # None =>
    /\ cuser[icontact[i]] = None
    /\ \A j \in Invitations \ {i} : inv[j] = "open" => icontact[j] # icontact[i]

\* "Project member: Project + User (staff)" (contract 2): the members of a project
\* are on the team, but for one who was removed while creating it.
MembersOnTeamButLate ==
  \A m \in members : account[m[2]] \in OnTeam \/ m[2] \in late
=============================================================================
