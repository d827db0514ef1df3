------------------------------ MODULE Sessions ------------------------------
(***************************************************************************)
(* Who is logged in: passwords, the sessions opened with them, and the     *)
(* links that reset them.                                                  *)
(*                                                                         *)
(* A login verifies the password on the reader pool and inserts its        *)
(* session in a later transaction; a change of the password proves the old *)
(* one first and replaces it later; a reset loads its link, and spends it  *)
(* later.  The password may be changed, the user removed or deleted in     *)
(* between.  Every request looks its session up again (withUser), so that  *)
(* the rows alone decide who is logged in.                                 *)
(*                                                                         *)
(* A password is the number of times its user has set one.  Expiry is a    *)
(* step of its own: 7 days of a session, one hour of a link.               *)
(***************************************************************************)
EXTENDS Naturals

CONSTANTS
  Staff,        \* ids for users on the team
  Contacts,     \* ids for users of the client organization
  Tokens,       \* session tokens
  Resets,       \* tokens of reset links
  Nobody,       \* the user of a token that was never drawn
  Requests,     \* requests in progress at once
  MaxPasswords  \* bound on the passwords of a user

Users == Staff \cup Contacts

ASSUME UsersAssumption == Staff \cap Contacts = {} /\ Nobody \notin Users
ASSUME MaxPasswordsAssumption == MaxPasswords \in Nat \ {0}

VARIABLES
  account,   \* users: "unused", "active", "removed" (no membership, or removed_at), "deleted"
  password,  \* users.password_hash
  session,   \* sessions: "unused", "live", "expired" (expires_at is past), "gone"
  holder,    \* their user_id, while the row is there
  reset,     \* password_resets: "unused", "open", "expired", "used", "gone"
  owner,     \* their user_id
  req,       \* what each request has loaded
  proof,     \* history: the password a session was opened with, or that was chosen in it
  late,      \* history: the sessions opened with a password replaced since it was verified
  uses       \* history: the passwords set through a link

sessionVars == <<session, holder, proof, late>>
resetVars == <<reset, owner, uses>>
vars == <<account, password, session, holder, reset, owner, req, proof, late, uses>>

Idle == [does |-> "idle"]
LoggingIn == [does : {"login"}, user : Users, knew : 1..MaxPasswords]
Changing == [does : {"change"}, user : Users, token : Tokens]
Resetting == [does : {"reset"}, reset : Resets]

Exists(u) == u \in Users /\ account[u] \in {"active", "removed"}
Sessions(u) == {t \in Tokens : holder[t] = u}

\* What each row is, and that its user is there (the foreign keys).
TypeOK ==
  /\ account \in [Users -> {"unused", "active", "removed", "deleted"}]
  /\ password \in [Users -> 0..MaxPasswords]
  /\ session \in [Tokens -> {"unused", "live", "expired", "gone"}]
  /\ holder \in [Tokens -> Users \cup {Nobody}]
  /\ reset \in [Resets -> {"unused", "open", "expired", "used", "gone"}]
  /\ owner \in [Resets -> Users \cup {Nobody}]
  /\ req \in [Requests -> {Idle} \cup LoggingIn \cup Changing \cup Resetting]
  /\ proof \in [Tokens -> 0..MaxPasswords]
  /\ late \subseteq {t \in Tokens : session[t] \in {"live", "expired"}}
  /\ uses \in [Resets -> Nat]
  /\ \A t \in Tokens :
       IF session[t] \in {"live", "expired"} THEN Exists(holder[t]) ELSE holder[t] = Nobody
  /\ \A z \in Resets : reset[z] \in {"open", "expired", "used"} => Exists(owner[z])

Init ==
  /\ account = [u \in Users |-> "unused"]
  /\ password = [u \in Users |-> 0]
  /\ session = [t \in Tokens |-> "unused"]
  /\ holder = [t \in Tokens |-> Nobody]
  /\ reset = [z \in Resets |-> "unused"]
  /\ owner = [z \in Resets |-> Nobody]
  /\ req = [r \in Requests |-> Idle]
  /\ proof = [t \in Tokens |-> 0]
  /\ late = {}
  /\ uses = [z \in Resets |-> 0]

Done(r) == req' = [req EXCEPT ![r] = Idle]

\* The form is refused, the password is wrong, or the transaction fails.
Fail(r) ==
  /\ req[r] # Idle
  /\ Done(r)
  /\ UNCHANGED <<account, password, sessionVars, resetVars>>

-----------------------------------------------------------------------------
(* Sessions *)

\* CreateSession
Open(t, u, knew) ==
  /\ session[t] = "unused"
  /\ session' = [session EXCEPT ![t] = "live"]
  /\ holder' = [holder EXCEPT ![t] = u]
  /\ proof' = [proof EXCEPT ![t] = knew]
  /\ late' = late \cup {s \in {t} : knew # password'[u]}

\* DELETE FROM sessions
Delete(S) ==
  /\ session' = [t \in Tokens |-> IF t \in S THEN "gone" ELSE session[t]]
  /\ holder' = [t \in Tokens |-> IF t \in S THEN Nobody ELSE holder[t]]

\* The histories forget the rows that go.
End(S) ==
  /\ Delete(S)
  /\ proof' = [t \in Tokens |-> IF t \in S THEN 0 ELSE proof[t]]
  /\ late' = late \ S

\* inviteAccept and setupSubmit: an account, its first password and its first session.
Join(u, t) ==
  /\ account[u] = "unused"
  /\ account' = [account EXCEPT ![u] = "active"]
  /\ password' = [password EXCEPT ![u] = 1]
  /\ Open(t, u, 1)
  /\ UNCHANGED <<resetVars, req>>

\* loginSubmit: any user there is, also one who was removed.
LoginBegin(r, u) ==
  /\ req[r] = Idle
  /\ Exists(u)
  /\ req' = [req EXCEPT ![r] = [does |-> "login", user |-> u, knew |-> password[u]]]
  /\ UNCHANGED <<account, password, sessionVars, resetVars>>

\* The transaction does not read the password again; the foreign key wants the user.
LoginCommit(r, t) ==
  /\ req[r].does = "login"
  /\ Exists(req[r].user)
  /\ UNCHANGED password
  /\ Open(t, req[r].user, req[r].knew)
  /\ Done(r)
  /\ UNCHANGED <<account, resetVars>>

\* By the cookie alone, whether or not it resolves to a user.
Logout(t) ==
  /\ session[t] \in {"live", "expired"}
  /\ End({t})
  /\ UNCHANGED <<account, password, resetVars, req>>

SessionExpires(t) ==
  /\ session[t] = "live"
  /\ session' = [session EXCEPT ![t] = "expired"]
  /\ UNCHANGED <<account, password, holder, proof, late, resetVars, req>>

\* sessions.cleanup, every hour.
DeleteExpiredSessions ==
  /\ \E t \in Tokens : session[t] = "expired"
  /\ End({t \in Tokens : session[t] = "expired"})
  /\ UNCHANGED <<account, password, resetVars, req>>

-----------------------------------------------------------------------------
(* Passwords *)

\* UserBySession: staff need their membership; a contact keeps it when removed.
LoggedIn(t) ==
  /\ session[t] = "live"
  /\ account[holder[t]] = "active" \/ holder[t] \in Contacts

SetPassword(u) ==
  /\ password[u] < MaxPasswords
  /\ password' = [password EXCEPT ![u] = @ + 1]

\* passwordChange, up to reauth: the session is there and the current password proved.
PasswordChangeBegin(r, t) ==
  /\ req[r] = Idle
  /\ LoggedIn(t)
  /\ req' = [req EXCEPT ![r] = [does |-> "change", user |-> holder[t], token |-> t]]
  /\ UNCHANGED <<account, password, sessionVars, resetVars>>

\* Mutant: the session of the request is all that ends.
OwnOnly(u, t) == Sessions(u) \cap {t}

\* DELETE FROM sessions WHERE user_id = ? AND token_hash != ?
Others(u, t) == Sessions(u) \ {t}

\* What was proved may have been replaced since, and the session ended.
PasswordChangeCommit(r) ==
  LET u == req[r].user
      t == req[r].token
  IN /\ req[r].does = "change"
     /\ Exists(u)
     /\ SetPassword(u)
     /\ Delete(Others(u, t))
     /\ proof' = [s \in Tokens |->
          IF s \in Others(u, t) THEN 0
          ELSE IF s \in Sessions(u) \cap {t} THEN password'[u] ELSE proof[s]]
     /\ late' = late \ Sessions(u)
     /\ Done(r)
     /\ UNCHANGED <<account, resetVars>>

-----------------------------------------------------------------------------
(* Reset links *)

\* forgotSubmit; the mail with the link is queued in the same transaction.
ForgotSubmit(u, z) ==
  /\ Exists(u)
  /\ reset[z] = "unused"
  /\ reset' = [reset EXCEPT ![z] = "open"]
  /\ owner' = [owner EXCEPT ![z] = u]
  /\ UNCHANGED <<account, password, sessionVars, uses, req>>

ResetExpires(z) ==
  /\ reset[z] = "open"
  /\ reset' = [reset EXCEPT ![z] = "expired"]
  /\ UNCHANGED <<account, password, sessionVars, owner, uses, req>>

\* loadReset
ResetBegin(r, z) ==
  /\ req[r] = Idle
  /\ reset[z] = "open"
  /\ req' = [req EXCEPT ![r] = [does |-> "reset", reset |-> z]]
  /\ UNCHANGED <<account, password, sessionVars, resetVars>>

\* Mutant: what was loaded is taken for valid.
RowThere(z) == reset[z] # "gone"

\* WHERE token_hash = ? AND used_at IS NULL: the hour is not asked again.
NotUsed(z) == reset[z] \in {"open", "expired"}

ResetCommit(r) ==
  LET z == req[r].reset IN
  /\ req[r].does = "reset"
  /\ NotUsed(z)
  /\ SetPassword(owner[z])
  /\ reset' = [reset EXCEPT ![z] = "used"]
  /\ End(Sessions(owner[z]))
  /\ uses' = [uses EXCEPT ![z] = @ + 1]
  /\ Done(r)
  /\ UNCHANGED <<account, owner>>

-----------------------------------------------------------------------------
(* Users who go *)

\* teamRemove and contactRemove.
Remove(u) ==
  /\ account[u] = "active"
  /\ account' = [account EXCEPT ![u] = "removed"]
  /\ End(Sessions(u))
  /\ UNCHANGED <<password, resetVars, req>>

\* Mutant: the links of the users are left.
ClientDeleteLinksLeft ==
  LET gone == {u \in Contacts : Exists(u)} IN
  /\ gone # {}
  /\ account' = [u \in Users |-> IF u \in gone THEN "deleted" ELSE account[u]]
  /\ End(UNION {Sessions(u) : u \in gone})
  /\ UNCHANGED <<password, resetVars, req>>

\* clientDelete: sessions and links go with the rows of the users.
ClientDelete ==
  LET gone == {u \in Contacts : Exists(u)} IN
  /\ gone # {}
  /\ account' = [u \in Users |-> IF u \in gone THEN "deleted" ELSE account[u]]
  /\ End(UNION {Sessions(u) : u \in gone})
  /\ reset' = [z \in Resets |-> IF owner[z] \in gone THEN "gone" ELSE reset[z]]
  /\ UNCHANGED <<password, owner, uses, req>>

Next ==
  \/ \E u \in Users : Remove(u)
  \/ \E u \in Users, t \in Tokens : Join(u, t)
  \/ \E u \in Users, z \in Resets : ForgotSubmit(u, z)
  \/ \E t \in Tokens : Logout(t) \/ SessionExpires(t)
  \/ \E z \in Resets : ResetExpires(z)
  \/ ClientDelete \/ DeleteExpiredSessions
  \/ \E r \in Requests :
       \/ Fail(r)
       \/ \E u \in Users : LoginBegin(r, u)
       \/ \E t \in Tokens : LoginCommit(r, t) \/ PasswordChangeBegin(r, t)
       \/ \E z \in Resets : ResetBegin(r, z)
       \/ PasswordChangeCommit(r) \/ ResetCommit(r)

Spec == Init /\ [][Next]_vars

-----------------------------------------------------------------------------
(* Properties *)

(* Changing a password, by the form or by a link, logs every other device   *)
(* out (docs/user-guide.md, "Other devices were logged out"): a session     *)
(* there is was opened with, or chose, the password its user has now,       *)
(* whatever logins, changes, resets and removals met.  The one exception is *)
(* a login that had verified the old password before the change and         *)
(* inserted its session after it; the next change ends that session too.    *)
SessionsCurrentButLate ==
  \A t \in Tokens :
    session[t] \in {"live", "expired"} /\ t \notin late => proof[t] = password[holder[t]]

(* A reset link sets one password, however many requests hold it, and it is *)
(* spent from then on.                                                      *)
ResetSingleUse ==
  \A z \in Resets :
    uses[z] <= 1 /\ (uses[z] = 1 => reset[z] \in {"used", "gone"})
=============================================================================
