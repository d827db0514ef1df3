--------------------------- MODULE SessionsProofs ---------------------------
(***************************************************************************)
(* Proofs about Sessions, for any users, tokens, links and requests, and   *)
(* any number of passwords.                                                *)
(*                                                                         *)
(* What the rows promise does not depend on what the requests loaded: the  *)
(* inductive invariant says of requests only what they are.  It adds to    *)
(* the invariants that a user there is has a password (a login has one to  *)
(* verify), and that a link that is not spent has set none.                *)
(***************************************************************************)
EXTENDS Sessions, TLAPS

PasswordsSet == \A u \in Users : Exists(u) => password[u] # 0

UnspentSetNone ==
  \A z \in Resets : reset[z] \in {"unused", "open", "expired"} => uses[z] = 0

IInv ==
  /\ TypeOK
  /\ PasswordsSet
  /\ SessionsCurrentButLate
  /\ UnspentSetNone
  /\ ResetSingleUse

\* At first nobody has an account.
LEMMA InitIInv == Init => IInv
  BY MaxPasswordsAssumption
  DEF Init, IInv, TypeOK, PasswordsSet, SessionsCurrentButLate, UnspentSetNone,
      ResetSingleUse, Exists

\* What a request has loaded, by what it does.
LEMMA LoadedFields ==
  ASSUME TypeOK, NEW r \in Requests
  PROVE  /\ req[r].does = "login" => req[r].user \in Users /\ req[r].knew \in 1..MaxPasswords
         /\ req[r].does = "change" => req[r].user \in Users /\ req[r].token \in Tokens
         /\ req[r].does = "reset" => req[r].reset \in Resets
  <1>1. req[r] \in {Idle} \cup LoggingIn \cup Changing \cup Resetting
    BY DEF TypeOK
  <1>. QED
    BY <1>1 DEF Idle, LoggingIn, Changing, Resetting

\* A transaction leaves its request idle.
LEMMA DoneType ==
  ASSUME TypeOK, NEW r \in Requests, Done(r)
  PROVE  req' \in [Requests -> {Idle} \cup LoggingIn \cup Changing \cup Resetting]
  BY DEF TypeOK, Done

-----------------------------------------------------------------------------
(* Steps that end sessions *)

\* What End leaves: typed rows, and of the sessions the same ones less S.
LEMMA EndKeeps ==
  ASSUME TypeOK, NEW S \in SUBSET Tokens, End(S)
  PROVE  /\ session' \in [Tokens -> {"unused", "live", "expired", "gone"}]
         /\ holder' \in [Tokens -> Users \cup {Nobody}]
         /\ proof' \in [Tokens -> 0..MaxPasswords]
         /\ late' \subseteq {t \in Tokens : session'[t] \in {"live", "expired"}}
         /\ \A t \in Tokens :
              session'[t] \in {"live", "expired"} =>
                /\ t \notin S
                /\ session[t] \in {"live", "expired"}
                /\ holder'[t] = holder[t]
                /\ proof'[t] = proof[t]
                /\ t \in late' <=> t \in late
         /\ \A t \in Tokens : session'[t] \notin {"live", "expired"} => holder'[t] = Nobody
  BY MaxPasswordsAssumption DEF TypeOK, End, Delete

-----------------------------------------------------------------------------
(* One lemma per action *)

\* An account begins with one password and one session opened with it.
LEMMA JoinIInv ==
  ASSUME IInv, NEW u \in Users, NEW t \in Tokens, Join(u, t)
  PROVE  IInv'
  <1>. USE UsersAssumption, MaxPasswordsAssumption DEF IInv, Join, Open, sessionVars, resetVars
  <1>1. TypeOK'
    BY DEF TypeOK, Exists
  <1>2. PasswordsSet'
    BY DEF PasswordsSet, TypeOK, Exists
  <1>3. SessionsCurrentButLate'
    BY DEF SessionsCurrentButLate, TypeOK, Exists
  <1>. QED
    BY <1>1, <1>2, <1>3 DEF UnspentSetNone, ResetSingleUse

\* A login verifies the password its user has.
LEMMA LoginBeginIInv ==
  ASSUME IInv, NEW r \in Requests, NEW u \in Users, LoginBegin(r, u)
  PROVE  IInv'
  <1>. USE DEF IInv, LoginBegin, sessionVars, resetVars
  <1>1. [does |-> "login", user |-> u, knew |-> password[u]] \in LoggingIn
    BY MaxPasswordsAssumption DEF TypeOK, PasswordsSet, LoggingIn
  <1>2. TypeOK'
    BY <1>1 DEF TypeOK, Exists
  <1>. QED
    BY <1>2 DEF PasswordsSet, SessionsCurrentButLate, UnspentSetNone, ResetSingleUse, Exists

\* A session opened with a password that was replaced meanwhile is late.
LEMMA LoginCommitIInv ==
  ASSUME IInv, NEW r \in Requests, NEW t \in Tokens, LoginCommit(r, t)
  PROVE  IInv'
  <1>. USE DEF IInv, LoginCommit, Open, sessionVars, resetVars
  <1>1. req[r].user \in Users /\ req[r].knew \in 1..MaxPasswords
    BY LoadedFields
  <1>2. TypeOK'
    BY <1>1, DoneType, MaxPasswordsAssumption, UsersAssumption DEF TypeOK, Exists
  <1>3. SessionsCurrentButLate'
    BY <1>1 DEF SessionsCurrentButLate, TypeOK
  <1>. QED
    BY <1>2, <1>3 DEF PasswordsSet, UnspentSetNone, ResetSingleUse, Exists

\* The rows of users and links as they were, and some sessions ended.
LEMMA SessionsEndIInv ==
  ASSUME IInv, NEW S \in SUBSET Tokens, End(S),
         UNCHANGED <<account, password, resetVars, req>>
  PROVE  IInv'
  <1>. USE DEF IInv, resetVars
  <1>1. TypeOK'
    BY EndKeeps DEF TypeOK, Exists
  <1>2. SessionsCurrentButLate'
    BY EndKeeps DEF SessionsCurrentButLate
  <1>. QED
    BY <1>1, <1>2 DEF PasswordsSet, UnspentSetNone, ResetSingleUse, Exists

\* An expired session is still the same session.
LEMMA SessionExpiresIInv ==
  ASSUME IInv, NEW t \in Tokens, SessionExpires(t)
  PROVE  IInv'
  <1>. USE DEF IInv, SessionExpires, resetVars
  <1>1. TypeOK'
    BY DEF TypeOK, Exists
  <1>2. SessionsCurrentButLate'
    BY DEF SessionsCurrentButLate, TypeOK
  <1>. QED
    BY <1>1, <1>2 DEF PasswordsSet, UnspentSetNone, ResetSingleUse, Exists

\* Requests that load, or are refused, write no row.
LEMMA RequestIInv ==
  ASSUME IInv,
         req' \in [Requests -> {Idle} \cup LoggingIn \cup Changing \cup Resetting],
         UNCHANGED <<account, password, sessionVars, resetVars>>
  PROVE  IInv'
  BY DEF IInv, TypeOK, PasswordsSet, SessionsCurrentButLate, UnspentSetNone, ResetSingleUse,
         Exists, sessionVars, resetVars

\* The session that chose the password is current, and every other one of its user goes.
LEMMA PasswordChangeCommitIInv ==
  ASSUME IInv, NEW r \in Requests, PasswordChangeCommit(r)
  PROVE  IInv'
  <1>. DEFINE u == req[r].user
              t == req[r].token
  <1>1. /\ u \in Users /\ t \in Tokens /\ Exists(u)
        /\ password[u] < MaxPasswords
        /\ password' = [password EXCEPT ![u] = @ + 1]
        /\ Delete(Others(u, t))
        /\ proof' = [s \in Tokens |->
             IF s \in Others(u, t) THEN 0
             ELSE IF s \in Sessions(u) \cap {t} THEN password'[u] ELSE proof[s]]
        /\ late' = late \ Sessions(u)
        /\ Done(r)
        /\ UNCHANGED <<account, resetVars>>
    BY LoadedFields DEF IInv, PasswordChangeCommit, SetPassword
  <1>. HIDE DEF u, t
  <1>2. password' \in [Users -> 0..MaxPasswords]
    BY <1>1, MaxPasswordsAssumption DEF IInv, TypeOK
  <1>3. \A s \in Tokens :
          session'[s] \in {"live", "expired"} =>
            session[s] \in {"live", "expired"} /\ s \notin Others(u, t) /\ holder'[s] = holder[s]
    BY <1>1 DEF Delete, IInv, TypeOK
  <1>4. TypeOK'
    BY <1>1, <1>2, <1>3, DoneType, MaxPasswordsAssumption
    DEF IInv, TypeOK, Delete, Others, Sessions, Exists, resetVars
  <1>5. PasswordsSet'
    BY <1>1 DEF IInv, PasswordsSet, TypeOK, Exists
  <1>6. SessionsCurrentButLate'
    <2>. SUFFICES ASSUME NEW s \in Tokens,
                         session'[s] \in {"live", "expired"}, s \notin late'
                  PROVE  proof'[s] = password'[holder'[s]]
      BY DEF SessionsCurrentButLate
    <2>1. CASE s \in Sessions(u)
      BY <1>1, <1>3, <2>1 DEF Others, Sessions
    <2>2. CASE s \notin Sessions(u)
      BY <1>1, <1>3, <2>2 DEF IInv, SessionsCurrentButLate, TypeOK, Others, Sessions, Exists
    <2>. QED
      BY <2>1, <2>2
  <1>. QED
    BY <1>1, <1>4, <1>5, <1>6 DEF IInv, UnspentSetNone, ResetSingleUse, resetVars

\* A link that is opened has set no password.
LEMMA ForgotSubmitIInv ==
  ASSUME IInv, NEW u \in Users, NEW z \in Resets, ForgotSubmit(u, z)
  PROVE  IInv'
  <1>. USE DEF IInv, ForgotSubmit, sessionVars
  <1>1. TypeOK'
    BY DEF TypeOK, Exists
  <1>. QED
    BY <1>1
    DEF TypeOK, PasswordsSet, SessionsCurrentButLate, UnspentSetNone, ResetSingleUse, Exists

\* An expired link is still its user's.
LEMMA ResetExpiresIInv ==
  ASSUME IInv, NEW z \in Resets, ResetExpires(z)
  PROVE  IInv'
  <1>. USE DEF IInv, ResetExpires, sessionVars
  <1>1. TypeOK'
    BY DEF TypeOK, Exists
  <1>. QED
    BY <1>1
    DEF TypeOK, PasswordsSet, SessionsCurrentButLate, UnspentSetNone, ResetSingleUse, Exists

\* The link is spent with the first password it sets, and its user's sessions go.
LEMMA ResetCommitIInv ==
  ASSUME IInv, NEW r \in Requests, ResetCommit(r)
  PROVE  IInv'
  <1>. DEFINE z == req[r].reset
              u == owner[z]
              S == Sessions(u)
  <1>1. /\ z \in Resets
        /\ reset[z] \in {"open", "expired"}
        /\ password[u] < MaxPasswords
        /\ password' = [password EXCEPT ![u] = @ + 1]
        /\ reset' = [reset EXCEPT ![z] = "used"]
        /\ End(S)
        /\ uses' = [uses EXCEPT ![z] = @ + 1]
        /\ Done(r)
        /\ UNCHANGED <<account, owner>>
    BY LoadedFields DEF IInv, ResetCommit, SetPassword, NotUsed
  <1>2. Exists(u) /\ u \in Users /\ uses[z] = 0 /\ S \in SUBSET Tokens
    BY <1>1 DEF IInv, TypeOK, UnspentSetNone, Sessions, Exists
  <1>. HIDE DEF z, u
  <1>3. password' \in [Users -> 0..MaxPasswords]
    BY <1>1, <1>2, MaxPasswordsAssumption DEF IInv, TypeOK
  <1>4. TypeOK'
    BY <1>1, <1>2, <1>3, DoneType, EndKeeps DEF IInv, TypeOK, Exists
  <1>5. PasswordsSet'
    BY <1>1, <1>2 DEF IInv, PasswordsSet, TypeOK, Exists
  <1>6. SessionsCurrentButLate'
    BY <1>1, <1>2, EndKeeps DEF IInv, SessionsCurrentButLate, TypeOK, Sessions
  <1>. QED
    BY <1>1, <1>2, <1>4, <1>5, <1>6 DEF IInv, TypeOK, UnspentSetNone, ResetSingleUse

\* Whoever leaves is logged out.
LEMMA RemoveIInv ==
  ASSUME IInv, NEW u \in Users, Remove(u)
  PROVE  IInv'
  <1>. USE DEF IInv, Remove, resetVars
  <1>1. Sessions(u) \in SUBSET Tokens
    BY DEF Sessions
  <1>2. TypeOK'
    BY <1>1, EndKeeps DEF TypeOK, Exists, Sessions
  <1>3. SessionsCurrentButLate'
    BY <1>1, EndKeeps DEF SessionsCurrentButLate
  <1>. QED
    BY <1>2, <1>3 DEF TypeOK, PasswordsSet, UnspentSetNone, ResetSingleUse, Exists

\* The contacts of a deleted client go with their sessions and their links.
LEMMA ClientDeleteIInv ==
  ASSUME IInv, ClientDelete
  PROVE  IInv'
  <1>. DEFINE gone == {u \in Contacts : Exists(u)}
              S == UNION {Sessions(u) : u \in gone}
  <1>1. /\ account' = [u \in Users |-> IF u \in gone THEN "deleted" ELSE account[u]]
        /\ End(S)
        /\ reset' = [z \in Resets |-> IF owner[z] \in gone THEN "gone" ELSE reset[z]]
        /\ UNCHANGED <<password, owner, uses, req>>
    BY DEF ClientDelete
  <1>2. S \in SUBSET Tokens /\ \A t \in Tokens : holder[t] \in gone => t \in S
    BY DEF Sessions
  <1>3. Nobody \notin gone
    BY UsersAssumption DEF Users
  <1>. HIDE DEF S
  <1>4. TypeOK'
    BY <1>1, <1>2, <1>3, EndKeeps DEF IInv, TypeOK, Exists
  <1>5. SessionsCurrentButLate'
    BY <1>1, <1>2, EndKeeps DEF IInv, SessionsCurrentButLate
  <1>6. PasswordsSet'
    BY <1>1 DEF IInv, PasswordsSet, Exists
  <1>. QED
    BY <1>1, <1>3, <1>4, <1>5, <1>6 DEF IInv, UnspentSetNone, ResetSingleUse

-----------------------------------------------------------------------------

\* Every step keeps the invariant.
LEMMA StepIInv == IInv /\ [Next]_vars => IInv'
  <1>. SUFFICES ASSUME IInv, [Next]_vars PROVE IInv'
    OBVIOUS
  <1>1. ASSUME NEW t \in Tokens, Logout(t) PROVE IInv'
    BY <1>1, SessionsEndIInv DEF Logout
  <1>2. CASE DeleteExpiredSessions
    BY <1>2, SessionsEndIInv DEF DeleteExpiredSessions
  <1>3. ASSUME NEW r \in Requests, Fail(r) PROVE IInv'
    BY <1>3, RequestIInv, DoneType DEF Fail, IInv
  <1>4. ASSUME NEW r \in Requests, NEW t \in Tokens, PasswordChangeBegin(r, t) PROVE IInv'
    <2>1. [does |-> "change", user |-> holder[t], token |-> t] \in Changing
      BY <1>4 DEF PasswordChangeBegin, LoggedIn, IInv, TypeOK, Exists, Changing
    <2>. QED
      BY <1>4, <2>1, RequestIInv DEF PasswordChangeBegin, IInv, TypeOK
  <1>5. ASSUME NEW r \in Requests, NEW z \in Resets, ResetBegin(r, z) PROVE IInv'
    <2>1. [does |-> "reset", reset |-> z] \in Resetting
      BY DEF Resetting
    <2>. QED
      BY <1>5, <2>1, RequestIInv DEF ResetBegin, IInv, TypeOK
  <1>6. CASE UNCHANGED vars
    BY <1>6, RequestIInv DEF IInv, TypeOK, vars, sessionVars, resetVars
  <1>. QED
    BY <1>1, <1>2, <1>3, <1>4, <1>5, <1>6, JoinIInv, LoginBeginIInv, LoginCommitIInv,
       SessionExpiresIInv, PasswordChangeCommitIInv, ForgotSubmitIInv, ResetExpiresIInv,
       ResetCommitIInv, RemoveIInv, ClientDeleteIInv
    DEF Next

(* The rows of accounts, sessions and links stay what they may be, through  *)
(* every interleaving of the requests.                                      *)
THEOREM Invariant == Spec => []IInv
  BY InitIInv, StepIInv, PTL DEF Spec

(* Each row is what it may be, and a session or link there is has its user. *)
THEOREM TypeCorrect == Spec => []TypeOK
  <1>1. IInv => TypeOK
    BY DEF IInv
  <1>. QED
    BY <1>1, Invariant, PTL

(* Every session there is was opened with, or chose, the password its user  *)
(* has now, but for one a login inserted after the change that overtook it. *)
THEOREM SessionsCurrent == Spec => []SessionsCurrentButLate
  <1>1. IInv => SessionsCurrentButLate
    BY DEF IInv
  <1>. QED
    BY <1>1, Invariant, PTL

(* A reset link sets one password, whoever holds it and for how long.       *)
THEOREM LinksSpentOnce == Spec => []ResetSingleUse
  <1>1. IInv => ResetSingleUse
    BY DEF IInv
  <1>. QED
    BY <1>1, Invariant, PTL
=============================================================================
