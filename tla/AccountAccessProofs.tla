------------------------ MODULE AccountAccessProofs ------------------------
(* Proofs about AccountAccess, for any number of overlapping requests,      *)
(* login sessions, links and passwords.                                     *)
EXTENDS AccountAccess, TLAPS

Row == [status : SessionStates, known : Passwords \cup {NoPassword}]
Link == [purpose : Purposes, state : TokenStates, acted : 0 .. 2]

LEMMA InitInv == Init => IndInv
<1> SUFFICES ASSUME Init PROVE IndInv
  OBVIOUS
<1>1. NoAccount \in Account /\ NoSession \in Row /\ NoToken \in Link /\ Idle \in Request
  BY DEF NoAccount, Account, Roles, NoSession, Row, SessionStates, NoToken, Link,
         Purposes, TokenStates, Idle, Request
<1>2. TypeOK
  <2>1. account \in Account /\ session \in [Sessions -> Row] /\ token \in [Tokens -> Link]
    BY <1>1 DEF Init
  <2>2. req \in [Requests -> Request]
    BY <1>1 DEF Init
  <2>3. faults \in 0 .. MaxFaults
    BY FaultsAssumption DEF Init
  <2>4. lost \in BOOLEAN
    BY DEF Init
  <2> QED BY <2>1, <2>2, <2>3, <2>4 DEF TypeOK, Row, Link
<1>3. SessionsKnowThePassword /\ InactiveAccountsAreSignedOut /\ LinksActOnce
  BY DEF Init, NoSession, NoToken, SessionsKnowThePassword,
         InactiveAccountsAreSignedOut, LinksActOnce, IsLive
<1>4. /\ ~account.linked
      /\ \A s \in Sessions : session[s].status = "NONE"
      /\ \A t \in Tokens : token[t].state = "NONE"
      /\ \A r \in Requests : LocalsAreSound(req[r])
  BY DEF Init, NoAccount, NoSession, NoToken, Idle, LocalsAreSound
<1> QED BY <1>2, <1>3, <1>4 DEF IndInv

-----------------------------------------------------------------------------
(* What every step but a deletion does to what other requests rely on: the *)
(* account stays, and a session never gets better.                          *)
OnlyCloses ==
    /\ account.status # "NONE" => account'.status # "NONE"
    /\ account.linked => account'.linked
    /\ \A s \in Sessions : session[s].status # "NONE" =>
          /\ session'[s].status # "NONE"
          /\ session[s].status # "ACTIVE" => session'[s].status # "ACTIVE"
          /\ ~IsLive(s) => ~IsLive(s)'
    /\ account.status = "ACTIVE" \/ SigningOut =>
          \/ account'.status = "ACTIVE" \/ SigningOut'
          \/ \A s \in Sessions : ~IsLive(s)'

LEMMA OthersStaySound ==
    ASSUME IndInv, OnlyCloses, NEW q \in Requests, req'[q] = req[q]
    PROVE  LocalsAreSound(req[q])'
<1>1. req[q] \in Request /\ LocalsAreSound(req[q])
  BY DEF IndInv, TypeOK
<1>2. req[q].at \in {"touch", "expire", "revokeOne", "change"} => req[q].session \in Sessions
  BY <1>1 DEF Request
<1>3. req[q].at \notin {"idle", "register", "invite"} => account'.status # "NONE"
  BY <1>1 DEF LocalsAreSound, OnlyCloses
<1>4. req[q].at \in {"touch", "expire", "revokeOne", "change"} =>
            session'[req[q].session].status # "NONE"
  BY <1>1, <1>2 DEF LocalsAreSound, OnlyCloses
<1>5. req[q].at = "openSession" => account'.linked
  BY <1>1 DEF LocalsAreSound, OnlyCloses
<1>6. req[q].at = "expire" => session'[req[q].session].status # "ACTIVE"
  BY <1>1, <1>2 DEF LocalsAreSound, OnlyCloses
<1>7. req[q].at = "change" =>
            account'.status = "ACTIVE" \/ SigningOut' \/ ~IsLive(req[q].session)'
  BY <1>1, <1>2 DEF LocalsAreSound, OnlyCloses
<1>8. req[q].at = "signOut" => (req[q].suspended => req[q].rows = Sessions)
  BY <1>1 DEF LocalsAreSound
<1> QED BY <1>3, <1>4, <1>5, <1>6, <1>7, <1>8 DEF LocalsAreSound, IsLive

(* A request that is not about to sign the user out may move on.           *)
LEMMA StillSigningOut ==
    ASSUME TypeOK, NEW r \in Requests, NEW next, Goto(r, next), lost' = lost,
           ~(At(r, "signOut") /\ req[r].suspended), SigningOut
    PROVE  SigningOut'
<1>1. CASE lost
  BY <1>1 DEF SigningOut
<1>2. CASE ~lost
  <2>1. PICK q \in Requests : At(q, "signOut") /\ req[q].suspended
    BY <1>2 DEF SigningOut
  <2>2. q # r
    BY <2>1
  <2>3. req'[q] = req[q]
    BY <2>2 DEF Goto, TypeOK
  <2> QED BY <2>1, <2>3 DEF SigningOut, At
<1> QED BY <1>1, <1>2

(* A step of r that goes on to `next`.                                      *)
LEMMA MoveSound ==
    ASSUME IndInv, NEW r \in Requests, NEW next \in Request, Goto(r, next), OnlyCloses,
           account' \in Account, session' \in [Sessions -> Row],
           token' \in [Tokens -> Link], lost' \in BOOLEAN, faults' \in 0 .. MaxFaults,
           SessionsKnowThePassword', InactiveAccountsAreSignedOut', LinksActOnce',
           account'.status = "NONE" => ~account'.linked,
           \A s \in Sessions : session'[s].status # "NONE" => account'.linked,
           \A t \in Tokens : token'[t].state # "NONE" => account'.status # "NONE",
           LocalsAreSound(next)'
    PROVE  IndInv'
<1>1. req' \in [Requests -> Request] /\ req'[r] = next
  BY DEF Goto, IndInv, TypeOK
<1>2. TypeOK'
  BY <1>1 DEF TypeOK, Row, Link
<1>3. ASSUME NEW q \in Requests PROVE LocalsAreSound(req[q])'
  <2>1. CASE q = r
    BY <2>1, <1>1 DEF LocalsAreSound
  <2>2. CASE q # r
    <3>1. req'[q] = req[q]
      BY <2>2 DEF Goto, IndInv, TypeOK
    <3> QED BY <3>1, OthersStaySound
  <2> QED BY <2>1, <2>2
<1> QED BY <1>2, <1>3 DEF IndInv

(* A step that changes nothing but its request.                             *)
LEMMA QuietSound ==
    ASSUME IndInv, NEW r \in Requests, NEW next \in Request, Goto(r, next),
           ~(At(r, "signOut") /\ req[r].suspended), LocalsAreSound(next),
           UNCHANGED <<account, session, token, faults, lost>>
    PROVE  IndInv'
<1>1. SigningOut => SigningOut'
  BY StillSigningOut DEF IndInv
<1>2. OnlyCloses
  BY <1>1 DEF OnlyCloses, IsLive
<1>3. LocalsAreSound(next)'
  BY <1>1 DEF LocalsAreSound, IsLive
<1>4. /\ account' \in Account /\ session' \in [Sessions -> Row]
      /\ token' \in [Tokens -> Link] /\ lost' \in BOOLEAN /\ faults' \in 0 .. MaxFaults
  BY DEF IndInv, TypeOK, Row, Link
<1>5. SessionsKnowThePassword' /\ InactiveAccountsAreSignedOut' /\ LinksActOnce'
  BY <1>1 DEF IndInv, SessionsKnowThePassword, InactiveAccountsAreSignedOut,
              LinksActOnce, IsLive
<1>6. /\ account'.status = "NONE" => ~account'.linked
      /\ \A s \in Sessions : session'[s].status # "NONE" => account'.linked
      /\ \A t \in Tokens : token'[t].state # "NONE" => account'.status # "NONE"
  BY DEF IndInv
<1> QED BY <1>2, <1>3, <1>4, <1>5, <1>6, MoveSound

LEMMA IdleSound == Idle \in Request /\ LocalsAreSound(Idle) /\ LocalsAreSound(Idle)'
  BY DEF Idle, Request, LocalsAreSound

-----------------------------------------------------------------------------
(* Arrivals and other steps that only move their request.                   *)

LEMMA StartSound ==
    ASSUME IndInv, NEW r \in Requests, NEW next \in Request, Start(r, next),
           LocalsAreSound(next), UNCHANGED <<account, session, token, faults, lost>>
    PROVE  IndInv'
BY QuietSound DEF Start, At

LEMMA ArriveOutside ==
    ASSUME IndInv, NEW r \in Requests,
           \/ register(r) \/ invitePlatformAdmin(r)
           \/ resendEmailVerification(r) \/ forgotPassword(r)
    PROVE  IndInv'
<1>1. CASE register(r)
  <2>1. [at |-> "register"] \in Request /\ LocalsAreSound([at |-> "register"])
    BY DEF Request, LocalsAreSound
  <2> QED BY <1>1, <2>1, StartSound DEF register
<1>2. CASE invitePlatformAdmin(r)
  <2>1. [at |-> "invite"] \in Request /\ LocalsAreSound([at |-> "invite"])
    BY DEF Request, LocalsAreSound
  <2> QED BY <1>2, <2>1, StartSound DEF invitePlatformAdmin
<1>3. CASE resendEmailVerification(r) \/ forgotPassword(r)
  <2> PICK purpose \in Purposes : Start(r, [at |-> "revokeTokens", purpose |-> purpose])
    BY <1>3 DEF resendEmailVerification, forgotPassword, Purposes
  <2>1. account.status # "NONE"
    BY <1>3 DEF resendEmailVerification, forgotPassword, Pending
  <2>2. [at |-> "revokeTokens", purpose |-> purpose] \in Request
    BY DEF Request
  <2>3. LocalsAreSound([at |-> "revokeTokens", purpose |-> purpose])
    BY <2>1 DEF LocalsAreSound
  <2> QED BY <1>3, <2>2, <2>3, StartSound DEF resendEmailVerification, forgotPassword
<1> QED BY <1>1, <1>2, <1>3

LEMMA ArriveToVerify ==
    ASSUME IndInv, NEW r \in Requests, NEW t \in Tokens, verifyEmail(r, t)
    PROVE  IndInv'
<1>1. account.status # "NONE"
  BY DEF verifyEmail, findUsableToken, IndInv
<1>2. [at |-> "verify", token |-> t] \in Request
  BY DEF Request
<1>3. LocalsAreSound([at |-> "verify", token |-> t])
  BY <1>1 DEF LocalsAreSound
<1> QED BY <1>2, <1>3, StartSound DEF verifyEmail

LEMMA ArriveWithLink ==
    ASSUME IndInv, NEW r \in Requests, NEW t \in Tokens, NEW p \in Passwords,
           resetPassword(r, t, p) \/ acceptPlatformAdminInvitation(r, t, p)
    PROVE  IndInv'
<1>1. account.status # "NONE"
  BY DEF resetPassword, acceptPlatformAdminInvitation, findUsableToken, IndInv
<1> PICK place \in {"accept", "reset"} :
        Start(r, [at |-> place, token |-> t, password |-> p])
  BY DEF resetPassword, acceptPlatformAdminInvitation
<1>2. [at |-> place, token |-> t, password |-> p] \in Request
  BY DEF Request
<1>3. LocalsAreSound([at |-> place, token |-> t, password |-> p])
  BY <1>1 DEF LocalsAreSound
<1> QED BY <1>2, <1>3, StartSound DEF resetPassword, acceptPlatformAdminInvitation

LEMMA ArriveToSignIn ==
    ASSUME IndInv, NEW r \in Requests, NEW p \in Passwords, login(r, p)
    PROVE  IndInv'
<1> PICK place \in {"link", "openSession"} :
        /\ Start(r, [at |-> place, password |-> p])
        /\ place = "openSession" => account.linked
  BY DEF login
<1>1. [at |-> place, password |-> p] \in Request
  BY DEF Request
<1>2. LocalsAreSound([at |-> place, password |-> p])
  BY DEF LocalsAreSound, login
<1> QED BY <1>1, <1>2, StartSound DEF login

LEMMA ArriveSignedIn ==
    ASSUME IndInv, NEW r \in Requests, NEW s \in Sessions,
           \/ refresh(r, s) \/ logout(r, s) \/ revokeOtherAuthSessions(r, s)
           \/ deleteAccount(r, s) \/ \E p \in Passwords : changePassword(r, s, p)
           \/ \E other \in Sessions : revokeAuthSession(r, s, other)
    PROVE  IndInv'
<1>1. session[s].status \in {"ACTIVE", "LAPSED"}
  BY DEF refresh, logout, revokeOtherAuthSessions, deleteAccount, changePassword,
         revokeAuthSession, canActivate
<1>2. account.status # "NONE"
  BY <1>1 DEF IndInv
<1>3. CASE refresh(r, s)
  <2> PICK place \in {"expire", "touch"} :
          /\ Start(r, [at |-> place, session |-> s])
          /\ place = "expire" => session[s].status = "LAPSED"
    BY <1>3 DEF refresh
  <2>1. [at |-> place, session |-> s] \in Request
    BY DEF Request
  <2>2. LocalsAreSound([at |-> place, session |-> s])
    BY <1>1, <1>2 DEF LocalsAreSound
  <2> QED BY <1>3, <2>1, <2>2, StartSound DEF refresh
<1>4. CASE logout(r, s) \/ revokeOtherAuthSessions(r, s)
  <2> PICK rows \in SUBSET Sessions :
          Start(r, [at |-> "signOut", rows |-> rows, suspended |-> FALSE])
    BY <1>4 DEF logout, revokeOtherAuthSessions
  <2>1. [at |-> "signOut", rows |-> rows, suspended |-> FALSE] \in Request
    BY DEF Request
  <2>2. LocalsAreSound([at |-> "signOut", rows |-> rows, suspended |-> FALSE])
    BY <1>2 DEF LocalsAreSound
  <2> QED BY <1>4, <2>1, <2>2, StartSound DEF logout, revokeOtherAuthSessions
<1>5. CASE deleteAccount(r, s)
  <2>1. [at |-> "delete"] \in Request
    BY DEF Request
  <2>2. LocalsAreSound([at |-> "delete"])
    BY <1>2 DEF LocalsAreSound
  <2> QED BY <1>5, <2>1, <2>2, StartSound DEF deleteAccount
<1>6. ASSUME NEW p \in Passwords, changePassword(r, s, p) PROVE IndInv'
  <2>1. [at |-> "change", session |-> s, password |-> p] \in Request
    BY DEF Request
  <2>2. LocalsAreSound([at |-> "change", session |-> s, password |-> p])
    BY <1>6, <1>1, <1>2 DEF LocalsAreSound, changePassword, canActivate
  <2> QED BY <1>6, <2>1, <2>2, StartSound DEF changePassword
<1>7. ASSUME NEW other \in Sessions, revokeAuthSession(r, s, other) PROVE IndInv'
  <2>1. [at |-> "revokeOne", session |-> other] \in Request
    BY DEF Request
  <2>2. LocalsAreSound([at |-> "revokeOne", session |-> other])
    BY <1>7, <1>2 DEF LocalsAreSound, revokeAuthSession, IsLive
  <2> QED BY <1>7, <2>1, <2>2, StartSound DEF revokeAuthSession
<1> QED BY <1>3, <1>4, <1>5, <1>6, <1>7

LEMMA ArriveStaff ==
    ASSUME IndInv, NEW r \in Requests,
           \/ \E status \in UserStatus : updateUserStatus(r, status)
           \/ revokeAdminSessions(r)
           \/ permanentlyDeleteUser(r)
    PROVE  IndInv'
<1>1. account.status # "NONE"
  BY DEF updateUserStatus, revokeAdminSessions, permanentlyDeleteUser
<1>2. ASSUME NEW status \in UserStatus, updateUserStatus(r, status) PROVE IndInv'
  <2>1. [at |-> "setStatus", status |-> status] \in Request
    BY DEF Request
  <2>2. LocalsAreSound([at |-> "setStatus", status |-> status])
    BY <1>1 DEF LocalsAreSound
  <2> QED BY <1>2, <2>1, <2>2, StartSound DEF updateUserStatus
<1>3. CASE revokeAdminSessions(r)
  <2>1. [at |-> "signOut", rows |-> Sessions, suspended |-> FALSE] \in Request
    BY DEF Request
  <2>2. LocalsAreSound([at |-> "signOut", rows |-> Sessions, suspended |-> FALSE])
    BY <1>1 DEF LocalsAreSound
  <2> QED BY <1>3, <2>1, <2>2, StartSound DEF revokeAdminSessions
<1>4. CASE permanentlyDeleteUser(r)
  <2>1. [at |-> "purge"] \in Request
    BY DEF Request
  <2>2. LocalsAreSound([at |-> "purge"])
    BY <1>1 DEF LocalsAreSound
  <2> QED BY <1>4, <2>1, <2>2, StartSound DEF permanentlyDeleteUser
<1> QED BY <1>2, <1>3, <1>4

LEMMA ArriveSound ==
    ASSUME IndInv, NEW r \in Requests, Arrive(r)
    PROVE  IndInv'
<1>1. CASE \/ register(r) \/ invitePlatformAdmin(r)
           \/ resendEmailVerification(r) \/ forgotPassword(r)
  BY <1>1, ArriveOutside
<1>2. CASE \E t \in Tokens : verifyEmail(r, t)
  BY <1>2, ArriveToVerify
<1>3. CASE \E t \in Tokens, p \in Passwords :
              acceptPlatformAdminInvitation(r, t, p) \/ resetPassword(r, t, p)
  BY <1>3, ArriveWithLink
<1>4. CASE \E p \in Passwords : login(r, p)
  BY <1>4, ArriveToSignIn
<1>5. CASE \E s \in Sessions :
              \/ refresh(r, s) \/ logout(r, s)
              \/ revokeOtherAuthSessions(r, s) \/ deleteAccount(r, s)
              \/ \E p \in Passwords : changePassword(r, s, p)
              \/ \E other \in Sessions : revokeAuthSession(r, s, other)
  BY <1>5, ArriveSignedIn
<1>6. CASE \/ \E status \in UserStatus : updateUserStatus(r, status)
           \/ revokeAdminSessions(r) \/ permanentlyDeleteUser(r)
  BY <1>6, ArriveStaff
<1> QED BY <1>1, <1>2, <1>3, <1>4, <1>5, <1>6 DEF Arrive

-----------------------------------------------------------------------------
(* Steps that write.                                                        *)

(* The types that no step of a request but its own fields can disturb.      *)
LEMMA Types ==
    ASSUME IndInv
    PROVE  /\ account \in Account /\ session \in [Sessions -> Row]
           /\ token \in [Tokens -> Link] /\ lost \in BOOLEAN
           /\ faults \in 0 .. MaxFaults /\ req \in [Requests -> Request]
BY DEF IndInv, TypeOK, Row, Link

(* The user is created while the account does not exist: no session, no     *)
(* link and no request depends on it yet.                                   *)
LEMMA CreateUserSound ==
    ASSUME IndInv, NEW r \in Requests,
           (\E p \in Passwords : CreateRegisteredUser(r, p)) \/ CreateInvitedUser(r)
    PROVE  IndInv'
<1>0. ~(At(r, "signOut") /\ req[r].suspended)
  BY DEF CreateRegisteredUser, CreateInvitedUser, At
<1>1. CASE account.status # "NONE"
  BY <1>0, <1>1, IdleSound, QuietSound DEF CreateRegisteredUser, CreateInvitedUser
<1>2. CASE account.status = "NONE"
  <2> PICK purpose \in Purposes :
          Goto(r, [at |-> "revokeTokens", purpose |-> purpose])
    BY <1>2 DEF CreateRegisteredUser, CreateInvitedUser, Purposes
  <2>1. [at |-> "revokeTokens", purpose |-> purpose] \in Request
    BY DEF Request
  <2>2. account' \in Account /\ account'.status = "PENDING_EMAIL_VERIFICATION"
    <3>1. ASSUME NEW p \in Passwords, CreateRegisteredUser(r, p)
          PROVE  account' \in Account /\ account'.status = "PENDING_EMAIL_VERIFICATION"
      <4>1. account' = [status |-> Pending, verified |-> FALSE, role |-> "CONSUMER",
                        linked |-> TRUE, password |-> p]
        BY <1>2, <3>1 DEF CreateRegisteredUser
      <4> QED BY <4>1 DEF Account, Pending, UserStatus, Roles
    <3>2. CASE CreateInvitedUser(r)
      <4>1. account' = [status |-> Pending, verified |-> FALSE, role |-> "PLATFORM_ADMIN",
                        linked |-> FALSE, password |-> NoPassword]
        BY <1>2, <3>2 DEF CreateInvitedUser, NoAccount
      <4> QED BY <4>1 DEF Account, Pending, UserStatus, Roles
    <3> QED BY <3>1, <3>2
  <2>3. UNCHANGED <<session, token, faults, lost>>
    BY DEF CreateRegisteredUser, CreateInvitedUser
  <2>4. ~account.linked /\ \A s \in Sessions : session[s].status = "NONE"
    BY <1>2 DEF IndInv
  <2>5. \A s \in Sessions : ~IsLive(s) /\ ~IsLive(s)'
    BY <2>3, <2>4 DEF IsLive
  <2>6. OnlyCloses
    BY <2>2, <2>3, <2>4, <2>5 DEF OnlyCloses
  <2>7. SessionsKnowThePassword' /\ InactiveAccountsAreSignedOut'
    BY <2>5 DEF SessionsKnowThePassword, InactiveAccountsAreSignedOut
  <2>8. LinksActOnce'
    BY <2>3 DEF IndInv, LinksActOnce
  <2>9. LocalsAreSound([at |-> "revokeTokens", purpose |-> purpose])'
    BY <2>2 DEF LocalsAreSound
  <2> QED BY <2>1, <2>2, <2>3, <2>4, <2>6, <2>7, <2>8, <2>9, Types, MoveSound
<1> QED BY <1>1, <1>2

(* A link is revoked or created: only `token` changes.                      *)
LEMMA LinkSound ==
    ASSUME IndInv, NEW r \in Requests,
           revokeActiveTokens(r) \/ \E t \in Tokens : createToken(r, t)
    PROVE  IndInv'
<1>0. UNCHANGED <<account, session, faults, lost>>
  BY DEF revokeActiveTokens, createToken
<1>1. req[r] \in Request /\ req[r].at \in {"revokeTokens", "insertToken"}
  BY Types DEF revokeActiveTokens, createToken, At
<1>2. req[r].purpose \in Purposes /\ account.status # "NONE"
  BY <1>1 DEF Request, IndInv, LocalsAreSound
<1>3. PICK next \in {Idle, [req[r] EXCEPT !.at = "insertToken"]} : Goto(r, next)
  BY DEF revokeActiveTokens, createToken
<1>4. next \in Request
  BY <1>1, <1>3, IdleSound DEF Request
<1>5. next.at \in {"idle", "insertToken"}
  BY <1>1, <1>3 DEF Idle, Request
<1>6. LocalsAreSound(next)'
  BY <1>0, <1>2, <1>5 DEF LocalsAreSound
<1>7. token' \in [Tokens -> Link] /\ LinksActOnce'
  <2>1. CASE revokeActiveTokens(r)
    <3>1. token' = [t \in Tokens |->
            IF t \in Outstanding(req[r].purpose)
            THEN [token[t] EXCEPT !.state = "REVOKED"] ELSE token[t]]
      BY <2>1 DEF revokeActiveTokens
    <3>2. token' \in [Tokens -> Link]
      BY <3>1, Types DEF Link, TokenStates
    <3>3. \A t \in Tokens : t \in Outstanding(req[r].purpose) => token[t].state # "USED"
      BY DEF Outstanding
    <3>4. \A t \in Tokens : token'[t].acted = token[t].acted
      BY <3>1, Types DEF Link
    <3>5. \A t \in Tokens : token[t].state = "USED" => token'[t].state = "USED"
      BY <3>1, <3>3
    <3> QED BY <3>2, <3>4, <3>5 DEF LinksActOnce, IndInv
  <2>2. ASSUME NEW t \in Tokens, createToken(r, t)
        PROVE  token' \in [Tokens -> Link] /\ LinksActOnce'
    BY <2>2, <1>2, Types DEF createToken, Link, TokenStates, LinksActOnce, IndInv
  <2> QED BY <2>1, <2>2
<1>8. SigningOut => SigningOut'
  BY <1>0, <1>1, <1>3, Types, StillSigningOut DEF At, IndInv
<1>9. OnlyCloses
  BY <1>0, <1>8 DEF OnlyCloses, IsLive
<1>10. SessionsKnowThePassword' /\ InactiveAccountsAreSignedOut'
  BY <1>0, <1>8 DEF IndInv, SessionsKnowThePassword, InactiveAccountsAreSignedOut, IsLive
<1>11. /\ account'.status # "NONE"
       /\ \A s \in Sessions : session'[s].status # "NONE" => account'.linked
  BY <1>0, <1>2 DEF IndInv
<1> QED BY <1>0, <1>3, <1>4, <1>6, <1>7, <1>9, <1>10, <1>11, Types, MoveSound

-----------------------------------------------------------------------------
(* Steps that close sessions.                                               *)

(* Rows are closed, none is opened, and a row that stays live is unchanged. *)
Closes(rows) ==
    /\ session' \in [Sessions -> Row]
    /\ \A s \in Sessions :
          /\ session[s].status # "NONE" <=> session'[s].status # "NONE"
          /\ session[s].status # "ACTIVE" => session'[s].status # "ACTIVE"
          /\ IsLive(s)' => session'[s] = session[s] /\ IsLive(s) /\ s \notin rows

LEMMA RevokedCloses ==
    ASSUME IndInv, NEW rows, session' = Revoked(rows)
    PROVE  Closes(rows)
<1>1. Closed("REVOKED") \in Row /\ Closed("REVOKED").status = "REVOKED"
  BY DEF Closed, Row, SessionStates
<1>2. ASSUME NEW s \in Sessions
      PROVE  session'[s] = IF s \in rows /\ IsLive(s) THEN Closed("REVOKED") ELSE session[s]
  BY DEF Revoked
<1>3. session' \in [Sessions -> Row]
  BY <1>1, Types DEF Revoked
<1> QED BY <1>1, <1>2, <1>3 DEF Closes, IsLive

LEMMA OneCloses ==
    ASSUME IndInv, NEW s \in Sessions, NEW status \in {"REVOKED", "EXPIRED"},
           session[s].status # "NONE", session' = [session EXCEPT ![s] = Closed(status)]
    PROVE  Closes({s})
<1>1. Closed(status) \in Row /\ Closed(status).status \in {"REVOKED", "EXPIRED"}
  BY DEF Closed, Row, SessionStates
<1>2. session' \in [Sessions -> Row]
  BY <1>1, Types
<1>3. ASSUME NEW other \in Sessions
      PROVE  session'[other] = IF other = s THEN Closed(status) ELSE session[other]
  BY Types
<1> QED BY <1>1, <1>2, <1>3 DEF Closes, IsLive

LEMMA SuspendedRows ==
    ASSUME IndInv, NEW r \in Requests, At(r, "signOut"), req[r].suspended
    PROVE  req[r].rows = Sessions
BY DEF IndInv, LocalsAreSound, At

(* ExpireSession, RevokeOne and SignOut: only the rows change.  A sign-out  *)
(* that a suspension waits for leaves no session live.                      *)
LEMMA CloseSound ==
    ASSUME IndInv, NEW r \in Requests, ExpireSession(r) \/ RevokeOne(r) \/ SignOut(r)
    PROVE  IndInv'
<1>0. Goto(r, Idle) /\ UNCHANGED <<account, token, faults>> /\ lost' \in BOOLEAN
  BY Types DEF ExpireSession, RevokeOne, SignOut
<1>1. req[r] \in Request /\ LocalsAreSound(req[r])
  BY Types DEF IndInv
<1>2. PICK rows : /\ Closes(rows)
                  /\ SigningOut => SigningOut' \/ rows = Sessions
  <2>1. CASE ExpireSession(r) \/ RevokeOne(r)
    <3>1. req[r].at \in {"expire", "revokeOne"} /\ lost' = lost
      BY <2>1 DEF ExpireSession, RevokeOne, At
    <3>2. req[r].session \in Sessions /\ session[req[r].session].status # "NONE"
      BY <1>1, <3>1 DEF Request, LocalsAreSound
    <3>3. Closes({req[r].session})
      BY <2>1, <3>2, OneCloses DEF ExpireSession, RevokeOne
    <3>4. SigningOut => SigningOut'
      BY <1>0, <3>1, StillSigningOut DEF At, IndInv
    <3> QED BY <3>3, <3>4
  <2>2. CASE SignOut(r)
    <3>1. Closes(req[r].rows)
      BY <2>2, RevokedCloses DEF SignOut
    <3>2. CASE req[r].rows = Sessions
      BY <3>1, <3>2
    <3>3. CASE req[r].rows # Sessions
      <4>1. lost' = lost
        BY <2>2, <3>3, Types DEF SignOut
      <4>2. ~(At(r, "signOut") /\ req[r].suspended)
        BY <3>3, SuspendedRows
      <4>3. SigningOut => SigningOut'
        BY <1>0, <4>1, <4>2, StillSigningOut DEF IndInv
      <4> QED BY <3>1, <4>3
    <3> QED BY <3>2, <3>3
  <2> QED BY <2>1, <2>2
<1>3. rows = Sessions => \A s \in Sessions : ~IsLive(s)'
  BY <1>2 DEF Closes
<1>4. OnlyCloses
  BY <1>0, <1>2, <1>3 DEF OnlyCloses, Closes
<1>5. SessionsKnowThePassword' /\ InactiveAccountsAreSignedOut'
  BY <1>0, <1>2, <1>3 DEF Closes, IndInv, SessionsKnowThePassword,
                          InactiveAccountsAreSignedOut
<1>6. LinksActOnce'
  BY <1>0 DEF IndInv, LinksActOnce
<1>7. /\ account'.status = "NONE" => ~account'.linked
      /\ \A s \in Sessions : session'[s].status # "NONE" => account'.linked
      /\ \A t \in Tokens : token'[t].state # "NONE" => account'.status # "NONE"
  BY <1>0, <1>2 DEF IndInv, Closes
<1>8. session' \in [Sessions -> Row]
  BY <1>2 DEF Closes
<1> QED BY <1>0, <1>4, <1>5, <1>6, <1>7, <1>8, IdleSound, Types, MoveSound

(* A session is opened: where the account has changed since the password    *)
(* was checked, the row says nothing of what its holder knows.              *)
LEMMA SignInSound ==
    ASSUME IndInv, NEW r \in Requests,
           LinkLocalAccount(r) \/ \E s \in Sessions : createAuthenticatedSession(r, s)
    PROVE  IndInv'
<1>0. /\ req[r] \in Request /\ LocalsAreSound(req[r])
      /\ req[r].at \in {"link", "openSession"} /\ ~(At(r, "signOut") /\ req[r].suspended)
  BY Types DEF LinkLocalAccount, createAuthenticatedSession, At, IndInv
<1>1. account.status # "NONE" /\ req[r].password \in Passwords
  BY <1>0 DEF LocalsAreSound, Request
<1>2. CASE LinkLocalAccount(r)
  <2>1. account' = [account EXCEPT !.linked = TRUE] /\ UNCHANGED <<session, token, faults, lost>>
    BY <1>2 DEF LinkLocalAccount
  <2>2. /\ account' \in Account /\ account'.linked
        /\ account'.status = account.status /\ account'.password = account.password
    BY <2>1, Types DEF Account
  <2>3. PICK next \in {Idle, [req[r] EXCEPT !.at = "openSession"]} : Goto(r, next)
    BY <1>2 DEF LinkLocalAccount
  <2>4. next \in Request /\ next.at \in {"idle", "openSession"}
    BY <1>0, <2>3, IdleSound DEF Idle, Request
  <2>5. LocalsAreSound(next)'
    BY <1>1, <2>2, <2>4 DEF LocalsAreSound
  <2>6. SigningOut => SigningOut'
    BY <1>0, <2>1, <2>3, StillSigningOut DEF IndInv
  <2>7. OnlyCloses
    BY <2>1, <2>2, <2>6 DEF OnlyCloses, IsLive
  <2>8. SessionsKnowThePassword' /\ InactiveAccountsAreSignedOut' /\ LinksActOnce'
    BY <2>1, <2>2, <2>6 DEF IndInv, SessionsKnowThePassword,
                            InactiveAccountsAreSignedOut, LinksActOnce, IsLive
  <2> QED BY <1>1, <2>1, <2>2, <2>3, <2>4, <2>5, <2>7, <2>8, Types, MoveSound
<1>3. ASSUME NEW s \in Sessions, createAuthenticatedSession(r, s) PROVE IndInv'
  <2> DEFINE knows == IF account.status = "ACTIVE" /\ account.password = req[r].password
                      THEN req[r].password ELSE NoPassword
  <2>1. /\ session[s].status = "NONE" /\ Goto(r, Idle)
        /\ session' = [session EXCEPT ![s] = [status |-> "ACTIVE", known |-> knows]]
        /\ UNCHANGED <<account, token, faults, lost>>
    BY <1>3 DEF createAuthenticatedSession
  <2>2. session' \in [Sessions -> Row]
    BY <1>1, <2>1, Types DEF Row, SessionStates
  <2>3. /\ session'[s] = [status |-> "ACTIVE", known |-> knows]
        /\ \A other \in Sessions \ {s} : session'[other] = session[other]
    BY <2>1, Types
  <2>4. account.linked
    BY <1>0, <1>3 DEF LocalsAreSound, createAuthenticatedSession, At
  <2>5. SigningOut => SigningOut'
    BY <1>0, <2>1, StillSigningOut DEF IndInv
  <2>6. OnlyCloses
    BY <2>1, <2>3, <2>5 DEF OnlyCloses, IsLive
  <2>7. SessionsKnowThePassword'
    BY <2>1, <2>3 DEF IndInv, SessionsKnowThePassword, IsLive
  <2>8. InactiveAccountsAreSignedOut'
    BY <2>1, <2>3, <2>5 DEF IndInv, InactiveAccountsAreSignedOut, IsLive
  <2>9. LinksActOnce'
    BY <2>1 DEF IndInv, LinksActOnce
  <2> QED BY <1>1, <2>1, <2>2, <2>4, <2>6, <2>7, <2>8, <2>9, IdleSound, Types, MoveSound
        DEF IndInv
<1> QED BY <1>2, <1>3

-----------------------------------------------------------------------------
(* Steps that change the account of requests under way.                     *)

(* The new password of a change: the other rows are closed, and the row of  *)
(* the change knows it if it is still live.                                 *)
LEMMA SetPasswordSound ==
    ASSUME IndInv, NEW r \in Requests, SetPassword(r)
    PROVE  IndInv'
<1>0. /\ req[r] \in Request /\ LocalsAreSound(req[r]) /\ req[r].at = "change"
      /\ ~(At(r, "signOut") /\ req[r].suspended)
  BY Types DEF SetPassword, At, IndInv
<1> DEFINE s == req[r].session
           p == req[r].password
<1>1. s \in Sessions /\ p \in Passwords /\ session[s].status # "NONE"
  BY <1>0 DEF LocalsAreSound, Request
<1>2. /\ account' = [account EXCEPT !.password = p]
      /\ session' = Proves(Revoked(Sessions \ {s}), s, p)
      /\ Goto(r, Idle) /\ UNCHANGED <<token, faults, lost>>
  BY DEF SetPassword
<1>3. /\ account' \in Account /\ account'.linked = account.linked
      /\ account'.status = account.status /\ account'.password = p
  BY <1>1, <1>2, Types DEF Account
<1>4. /\ session'[s] = [session[s] EXCEPT !.known = IF IsLive(s) THEN p ELSE @]
      /\ \A other \in Sessions \ {s} :
            session'[other] = IF IsLive(other) THEN Closed("REVOKED") ELSE session[other]
      /\ session' \in [Sessions -> Row]
  <2>1. Closed("REVOKED") \in Row
    BY DEF Closed, Row, SessionStates
  <2>2. Revoked(Sessions \ {s}) \in [Sessions -> Row]
    BY <2>1, Types DEF Revoked
  <2>3. Revoked(Sessions \ {s})[s] = session[s]
    BY <1>1 DEF Revoked
  <2>4. session' = [Revoked(Sessions \ {s}) EXCEPT ![s].known = IF IsLive(s) THEN p ELSE @]
    BY <1>2, <2>3 DEF Proves, IsLive
  <2>5. session' \in [Sessions -> Row]
    BY <1>1, <2>2, <2>4 DEF Row
  <2>6. session'[s] = [session[s] EXCEPT !.known = IF IsLive(s) THEN p ELSE @]
    BY <1>1, <2>2, <2>3, <2>4
  <2>7. \A other \in Sessions \ {s} : session'[other] = Revoked(Sessions \ {s})[other]
    BY <2>2, <2>4
  <2> QED BY <2>5, <2>6, <2>7 DEF Revoked
<1>5. /\ session'[s].status = session[s].status
      /\ IsLive(s) => session'[s].known = p
      /\ \A other \in Sessions \ {s} :
            /\ ~IsLive(other)'
            /\ session[other].status # "NONE" <=> session'[other].status # "NONE"
            /\ session'[other].status # "ACTIVE"
  BY <1>1, <1>4, Types DEF Closed, IsLive, Row
<1>6. SigningOut => SigningOut'
  BY <1>0, <1>2, StillSigningOut DEF IndInv
<1>7. OnlyCloses
  BY <1>1, <1>3, <1>5, <1>6 DEF OnlyCloses, IsLive
<1>8. SessionsKnowThePassword'
  BY <1>3, <1>5 DEF SessionsKnowThePassword, IsLive
<1>9. InactiveAccountsAreSignedOut'
  BY <1>0, <1>3, <1>5, <1>6 DEF LocalsAreSound, InactiveAccountsAreSignedOut, IsLive
<1>10. LinksActOnce'
  BY <1>2 DEF IndInv, LinksActOnce
<1>11. \A other \in Sessions : session'[other].status # "NONE" => account'.linked
  BY <1>1, <1>3, <1>5 DEF IndInv
<1> QED BY <1>2, <1>3, <1>4, <1>7, <1>8, <1>9, <1>10, <1>11, IdleSound, Types, MoveSound
      DEF IndInv

(* The user disables the account: every session closes with it.             *)
LEMMA DisableSound ==
    ASSUME IndInv, NEW r \in Requests, DisableAccount(r)
    PROVE  IndInv'
<1>1. /\ account' = [account EXCEPT !.status = "INACTIVE", !.password = NoPassword]
      /\ session' = Revoked(Sessions) /\ Goto(r, Idle)
      /\ UNCHANGED <<token, faults, lost>> /\ At(r, "delete")
  BY DEF DisableAccount
<1>2. /\ account' \in Account /\ account'.linked = account.linked
      /\ account'.status = "INACTIVE"
  BY <1>1, Types DEF Account, UserStatus
<1>3. Closes(Sessions)
  BY <1>1, RevokedCloses
<1>4. \A s \in Sessions : ~IsLive(s)'
  BY <1>3 DEF Closes
<1>5. OnlyCloses
  BY <1>2, <1>3, <1>4 DEF OnlyCloses, Closes
<1>6. SessionsKnowThePassword' /\ InactiveAccountsAreSignedOut' /\ LinksActOnce'
  BY <1>1, <1>4 DEF SessionsKnowThePassword, InactiveAccountsAreSignedOut, LinksActOnce, IndInv
<1>7. /\ session' \in [Sessions -> Row]
      /\ \A s \in Sessions : session'[s].status # "NONE" => account'.linked
  BY <1>2, <1>3 DEF Closes, IndInv
<1> QED BY <1>1, <1>2, <1>5, <1>6, <1>7, IdleSound, Types, MoveSound

(* Staff set the status; unless it is ACTIVE the request goes on to revoke. *)
LEMMA SetStatusSound ==
    ASSUME IndInv, NEW r \in Requests, SetStatus(r)
    PROVE  IndInv'
<1>0. req[r] \in Request /\ req[r].at = "setStatus" /\ req[r].status \in UserStatus
  BY Types DEF SetStatus, At, Request
<1>1. PICK next : /\ next = IF req[r].status = "ACTIVE" THEN Idle
                            ELSE [at |-> "signOut", rows |-> Sessions, suspended |-> TRUE]
                  /\ Goto(r, next)
  BY DEF SetStatus
<1>2. account' = [account EXCEPT !.status = req[r].status] /\ UNCHANGED <<session, token, faults, lost>>
  BY DEF SetStatus
<1>3. /\ account' \in Account /\ account'.linked = account.linked
      /\ account'.status = req[r].status /\ account'.password = account.password
      /\ account'.status # "NONE"
  BY <1>0, <1>2, Types DEF Account, UserStatus
<1>4. next \in Request /\ (next = Idle \/ next.at = "signOut")
  BY <1>1, IdleSound DEF Request
<1>5. account'.status = "ACTIVE" \/ SigningOut'
  <2>1. CASE req[r].status # "ACTIVE"
    <3>1. req'[r] = next /\ next.at = "signOut" /\ next.suspended
      BY <1>1, <2>1, Types DEF Goto
    <3> QED BY <3>1 DEF SigningOut, At
  <2> QED BY <1>3, <2>1
<1>6. LocalsAreSound(next)'
  BY <1>1, <1>3 DEF LocalsAreSound, Idle
<1>7. OnlyCloses
  BY <1>2, <1>3, <1>5 DEF OnlyCloses, IsLive
<1>8. SessionsKnowThePassword' /\ InactiveAccountsAreSignedOut' /\ LinksActOnce'
  BY <1>2, <1>3, <1>5 DEF IndInv, SessionsKnowThePassword, InactiveAccountsAreSignedOut,
                          LinksActOnce, IsLive
<1>9. \A s \in Sessions : session'[s].status # "NONE" => account'.linked
  BY <1>2, <1>3 DEF IndInv
<1> QED BY <1>1, <1>2, <1>3, <1>4, <1>6, <1>7, <1>8, <1>9, Types, MoveSound

-----------------------------------------------------------------------------
(* Steps that spend a link.                                                 *)

(* A link that was in force has not acted yet; from now on it is spent.     *)
LEMMA SpentLinks ==
    ASSUME IndInv, NEW t \in Tokens, NEW purpose \in Purposes,
           token[t].state \in {"USABLE", "LAPSED"}, token' = Spent(t, purpose)
    PROVE  token' \in [Tokens -> Link] /\ LinksActOnce'
<1>1. token[t].acted = 0
  BY Types DEF IndInv, LinksActOnce, Link
<1>2. /\ token'[t] = [token[t] EXCEPT !.state = "USED", !.acted = Many(@)]
      /\ \A u \in Tokens \ {t} :
            token'[u] = IF u \in Outstanding(purpose)
                        THEN [token[u] EXCEPT !.state = "REVOKED"] ELSE token[u]
  BY DEF Spent
<1>3. token'[t] \in Link /\ token'[t].state = "USED" /\ token'[t].acted = 1
  <2>1. token[t] \in Link /\ Many(token[t].acted) = 1
    BY <1>1, Types DEF Many
  <2>2. token'[t] = [token[t] EXCEPT !.state = "USED", !.acted = 1]
    BY <1>2, <2>1
  <2>3. 1 \in 0 .. 2 /\ "USED" \in TokenStates
    BY DEF TokenStates
  <2> QED BY <2>1, <2>2, <2>3 DEF Link
<1>4. ASSUME NEW u \in Tokens \ {t}
      PROVE  /\ token'[u] \in Link /\ token'[u].acted = token[u].acted
             /\ token[u].state = "USED" => token'[u].state = "USED"
  BY <1>2, Types DEF Link, TokenStates, Outstanding
<1>5. token' \in [Tokens -> Link]
  BY <1>3, <1>4 DEF Spent
<1> QED BY <1>3, <1>4, <1>5 DEF IndInv, LinksActOnce

LEMMA ClaimSound ==
    ASSUME IndInv, NEW r \in Requests,
           ClaimVerification(r) \/ ClaimInvitedAccount(r) \/ ClaimReset(r)
    PROVE  IndInv'
<1>0. /\ req[r] \in Request /\ req[r].at \in {"verify", "accept", "reset"}
      /\ Goto(r, Idle) /\ UNCHANGED <<faults, lost>>
      /\ ~(At(r, "signOut") /\ req[r].suspended)
  BY Types DEF ClaimVerification, ClaimInvitedAccount, ClaimReset, At
<1>1. /\ req[r].token \in Tokens /\ account.status # "NONE"
      /\ req[r].at \in {"accept", "reset"} => req[r].password \in Passwords
  BY <1>0 DEF Request, IndInv, LocalsAreSound
<1>2. SigningOut => SigningOut'
  BY <1>0, StillSigningOut DEF IndInv
<1>3. CASE UNCHANGED <<account, session, token>>
  BY <1>0, <1>3, IdleSound, QuietSound
<1>4. CASE ~UNCHANGED <<account, session, token>>
  <2>1. PICK purpose \in Purposes :
            /\ token[req[r].token].state \in {"USABLE", "LAPSED"}
            /\ token' = Spent(req[r].token, purpose)
    BY <1>4 DEF ClaimVerification, ClaimInvitedAccount, ClaimReset, findUsableToken,
                Outstanding, Purposes
  <2>2. token' \in [Tokens -> Link] /\ LinksActOnce'
    BY <1>1, <2>1, SpentLinks
  <2>3. /\ account' \in Account /\ account'.status # "NONE"
        /\ account.linked => account'.linked
        /\ account'.status = "ACTIVE" \/ account'.status = account.status
        /\ session' \in [Sessions -> Row]
        /\ \A s \in Sessions : session[s].status # "NONE" <=> session'[s].status # "NONE"
        /\ \A s \in Sessions : session[s].status # "ACTIVE" => session'[s].status # "ACTIVE"
        /\ \A s \in Sessions : IsLive(s)' =>
              IsLive(s) /\ session'[s] = session[s] /\ account'.password = account.password
    <3>1. CASE ClaimVerification(r)
      <4>1. account' = [account EXCEPT !.status = "ACTIVE", !.verified = TRUE]
            /\ UNCHANGED session
        BY <1>4, <3>1 DEF ClaimVerification
      <4> QED BY <4>1, Types DEF Account, UserStatus, IsLive
    <3>2. CASE ClaimInvitedAccount(r)
      <4>1. /\ account' = [account EXCEPT !.status = "ACTIVE", !.verified = TRUE,
                                          !.linked = TRUE, !.password = req[r].password]
            /\ UNCHANGED session /\ ~account.linked
        BY <1>4, <3>2 DEF ClaimInvitedAccount
      <4>2. \A s \in Sessions : session[s].status = "NONE"
        BY <4>1 DEF IndInv
      <4>3. req[r].password \in Passwords
        BY <1>1, <3>2 DEF ClaimInvitedAccount, At
      <4> QED BY <4>1, <4>2, <4>3, Types DEF Account, UserStatus, IsLive
    <3>3. CASE ClaimReset(r)
      <4>1. /\ account' = [account EXCEPT !.password = req[r].password]
            /\ session' = Revoked(Sessions)
        BY <1>4, <3>3 DEF ClaimReset
      <4>2. Closes(Sessions)
        BY <4>1, RevokedCloses
      <4>3. req[r].password \in Passwords
        BY <1>1, <3>3 DEF ClaimReset, At
      <4>4. /\ account' \in Account /\ account'.status = account.status
            /\ account'.linked = account.linked
        BY <4>1, <4>3, Types DEF Account
      <4> QED BY <1>1, <4>2, <4>4 DEF Closes
    <3> QED BY <3>1, <3>2, <3>3
  <2>4. OnlyCloses
    BY <1>2, <2>3 DEF OnlyCloses
  <2>5. SessionsKnowThePassword'
    BY <2>3 DEF IndInv, SessionsKnowThePassword
  <2>6. InactiveAccountsAreSignedOut'
    BY <1>2, <2>3 DEF IndInv, InactiveAccountsAreSignedOut
  <2>7. \A s \in Sessions : session'[s].status # "NONE" => account'.linked
    BY <2>3 DEF IndInv
  <2> QED BY <1>0, <2>2, <2>3, <2>4, <2>5, <2>6, <2>7, IdleSound, Types, MoveSound
<1> QED BY <1>3, <1>4

-----------------------------------------------------------------------------
(* Deletion, crashes and time.                                              *)

LEMMA DeleteSound ==
    ASSUME IndInv, NEW r \in Requests, DeleteRow(r), faults' \in 0 .. MaxFaults
    PROVE  IndInv'
<1>1. NoAccount \in Account /\ NoSession \in Row /\ NoToken \in Link
  BY DEF NoAccount, Account, Roles, NoSession, Row, SessionStates, NoToken, Link,
         Purposes, TokenStates
<1>2. req' \in [Requests -> Request]
  BY IdleSound, Types DEF DeleteRow
<1>3. account' \in Account /\ session' \in [Sessions -> Row] /\ token' \in [Tokens -> Link]
  BY <1>1 DEF DeleteRow
<1>4. lost' \in BOOLEAN
  BY DEF DeleteRow
<1>5. TypeOK'
  BY <1>2, <1>3, <1>4 DEF TypeOK, Row, Link
<1>6. SessionsKnowThePassword' /\ InactiveAccountsAreSignedOut' /\ LinksActOnce'
  BY DEF DeleteRow, NoSession, NoToken, SessionsKnowThePassword,
         InactiveAccountsAreSignedOut, LinksActOnce, IsLive
<1>7. /\ ~account'.linked
      /\ \A s \in Sessions : session'[s].status = "NONE"
      /\ \A t \in Tokens : token'[t].state = "NONE"
  BY DEF DeleteRow, NoAccount, NoSession, NoToken
<1>8. ASSUME NEW q \in Requests PROVE LocalsAreSound(req[q])'
  <2>1. req'[q].at \in {"idle", "register", "invite"}
    BY DEF DeleteRow, Idle
  <2> QED BY <2>1 DEF LocalsAreSound
<1> QED BY <1>5, <1>6, <1>7, <1>8 DEF IndInv

LEMMA CrashSound ==
    ASSUME IndInv, NEW r \in Requests, Crash(r)
    PROVE  IndInv'
<1>1. /\ Goto(r, Idle) /\ UNCHANGED <<account, session, token>>
      /\ lost' = (lost \/ (At(r, "signOut") /\ req[r].suspended))
  BY DEF Crash
<1>2. lost' \in BOOLEAN
  BY <1>1, Types
<1>3. faults' \in 0 .. MaxFaults
  BY Types, FaultsAssumption DEF Crash
<1>4. SigningOut => SigningOut'
  <2>1. CASE lost \/ (At(r, "signOut") /\ req[r].suspended)
    BY <1>1, <2>1 DEF SigningOut
  <2>2. CASE ~lost /\ ~(At(r, "signOut") /\ req[r].suspended)
    <3>1. lost' = lost
      BY <1>1, <2>2, Types
    <3> QED BY <1>1, <2>2, <3>1, StillSigningOut DEF IndInv
  <2> QED BY <2>1, <2>2
<1>5. OnlyCloses
  BY <1>1, <1>4 DEF OnlyCloses, IsLive
<1>6. SessionsKnowThePassword' /\ InactiveAccountsAreSignedOut' /\ LinksActOnce'
  BY <1>1, <1>4 DEF IndInv, SessionsKnowThePassword, InactiveAccountsAreSignedOut,
                    LinksActOnce, IsLive
<1>7. /\ account'.status = "NONE" => ~account'.linked
      /\ \A s \in Sessions : session'[s].status # "NONE" => account'.linked
      /\ \A t \in Tokens : token'[t].state # "NONE" => account'.status # "NONE"
  BY <1>1 DEF IndInv
<1> QED BY <1>1, <1>2, <1>3, <1>5, <1>6, <1>7, IdleSound, Types, MoveSound

(* A session or a link lapses: it stays in force for what only asks whether *)
(* it was closed.                                                           *)
LEMMA LapseSound ==
    ASSUME IndInv, \/ \E s \in Sessions : LapseSession(s)
                   \/ \E t \in Tokens : LapseToken(t)
    PROVE  IndInv'
<1>0. UNCHANGED <<account, faults, lost, req>>
  BY DEF LapseSession, LapseToken
<1> DEFINE SameRows ==
              \A s \in Sessions : /\ session[s].status # "NONE" <=> session'[s].status # "NONE"
                                  /\ session'[s].known = session[s].known
                                  /\ IsLive(s) <=> IsLive(s)'
                                  /\ session[s].status # "ACTIVE" => session'[s].status # "ACTIVE"
           NoNewLinks == \A t \in Tokens : token[t].state = "NONE" => token'[t].state = "NONE"
<1>1. session' \in [Sessions -> Row] /\ SameRows
  <2>1. CASE UNCHANGED session
    BY <2>1, Types DEF IsLive
  <2>2. ASSUME NEW s \in Sessions, LapseSession(s)
        PROVE  session' \in [Sessions -> Row] /\ SameRows
    <3>1. session' = [session EXCEPT ![s].status = "LAPSED"] /\ session[s].status = "ACTIVE"
      BY <2>2 DEF LapseSession
    <3>2. session' \in [Sessions -> Row]
      BY <3>1, Types DEF Row, SessionStates
    <3>3. session'[s].status = "LAPSED" /\ session'[s].known = session[s].known
      BY <3>1, Types DEF Row
    <3>4. \A other \in Sessions \ {s} : session'[other] = session[other]
      BY <3>1, Types
    <3> QED BY <3>1, <3>2, <3>3, <3>4 DEF IsLive
  <2> QED BY <2>1, <2>2 DEF LapseToken
<1>2. token' \in [Tokens -> Link] /\ LinksActOnce' /\ NoNewLinks
  <2>1. CASE UNCHANGED token
    BY <2>1, Types DEF IndInv, LinksActOnce
  <2>2. ASSUME NEW t \in Tokens, LapseToken(t)
        PROVE  token' \in [Tokens -> Link] /\ LinksActOnce' /\ NoNewLinks
    <3>1. token' = [token EXCEPT ![t].state = "LAPSED"] /\ token[t].state = "USABLE"
      BY <2>2 DEF LapseToken
    <3>2. token' \in [Tokens -> Link]
      BY <3>1, Types DEF Link, TokenStates
    <3>3. token'[t].state = "LAPSED" /\ token'[t].acted = token[t].acted
      BY <3>1, Types DEF Link
    <3>4. \A u \in Tokens \ {t} : token'[u] = token[u]
      BY <3>1, Types
    <3> QED BY <3>1, <3>2, <3>3, <3>4 DEF IndInv, LinksActOnce
  <2> QED BY <2>1, <2>2 DEF LapseSession
<1>3. SigningOut <=> SigningOut'
  BY <1>0 DEF SigningOut, At
<1>4. OnlyCloses
  BY <1>0, <1>1, <1>3 DEF OnlyCloses
<1>5. \A q \in Requests : LocalsAreSound(req[q])'
  BY <1>0, <1>4, OthersStaySound
<1>6. TypeOK'
  BY <1>0, <1>1, <1>2, Types DEF TypeOK, Row, Link
<1>7. SessionsKnowThePassword' /\ InactiveAccountsAreSignedOut'
  BY <1>0, <1>1, <1>3 DEF IndInv, SessionsKnowThePassword, InactiveAccountsAreSignedOut
<1> QED BY <1>0, <1>1, <1>2, <1>5, <1>6, <1>7 DEF IndInv

-----------------------------------------------------------------------------
(* Every step.                                                              *)

LEMMA ContinueSound ==
    ASSUME IndInv, NEW r \in Requests, Continue(r)
    PROVE  IndInv'
<1>1. CASE (\E p \in Passwords : CreateRegisteredUser(r, p)) \/ CreateInvitedUser(r)
  BY <1>1, CreateUserSound
<1>3. CASE revokeActiveTokens(r) \/ \E t \in Tokens : createToken(r, t)
  BY <1>3, LinkSound
<1>4. CASE ClaimVerification(r) \/ ClaimInvitedAccount(r) \/ ClaimReset(r)
  BY <1>4, ClaimSound
<1>5. CASE LinkLocalAccount(r) \/ \E s \in Sessions : createAuthenticatedSession(r, s)
  BY <1>5, SignInSound
<1>6. CASE TouchSession(r)
  BY <1>6, IdleSound, QuietSound DEF TouchSession, At
<1>7. CASE ExpireSession(r) \/ RevokeOne(r) \/ SignOut(r)
  BY <1>7, CloseSound
<1>8. CASE SetPassword(r)
  BY <1>8, SetPasswordSound
<1>9. CASE DisableAccount(r) \/ SetStatus(r)
  BY <1>9, DisableSound, SetStatusSound
<1>10. CASE PurgeUser(r)
  BY <1>10, Types, DeleteSound DEF PurgeUser
<1> QED BY <1>1, <1>3, <1>4, <1>5, <1>6, <1>7, <1>8, <1>9, <1>10 DEF Continue

LEMMA NextSound == IndInv /\ [Next]_vars => IndInv'
<1> SUFFICES ASSUME IndInv, [Next]_vars PROVE IndInv'
  OBVIOUS
<1>1. ASSUME NEW r \in Requests, Arrive(r) PROVE IndInv'
  BY <1>1, ArriveSound
<1>2. ASSUME NEW r \in Requests, Continue(r) PROVE IndInv'
  BY <1>2, ContinueSound
<1>3. ASSUME NEW r \in Requests, UndoInvitation(r) PROVE IndInv'
  <2>1. faults' \in 0 .. MaxFaults
    BY <1>3, Types, FaultsAssumption DEF UndoInvitation
  <2> QED BY <1>3, <2>1, DeleteSound DEF UndoInvitation
<1>4. ASSUME NEW r \in Requests, Crash(r) PROVE IndInv'
  BY <1>4, CrashSound
<1>5. CASE \/ \E s \in Sessions : LapseSession(s)
           \/ \E t \in Tokens : LapseToken(t)
  BY <1>5, LapseSound
<1>6. CASE UNCHANGED vars
  BY <1>6 DEF vars, IndInv, TypeOK, SessionsKnowThePassword, InactiveAccountsAreSignedOut,
              LinksActOnce, LocalsAreSound, SigningOut, IsLive, At
<1> QED BY <1>1, <1>2, <1>3, <1>4, <1>5, <1>6 DEF Next

-----------------------------------------------------------------------------

(* What requests rely on is an inductive invariant of the account.          *)
THEOREM Inductive == Spec => []IndInv
<1>1. Init => IndInv
  BY InitInv
<1>2. IndInv /\ [Next]_vars => IndInv'
  BY NextSound
<1> QED BY <1>1, <1>2, PTL DEF Spec

(* Whoever is signed in, past any overtaken login, knows the password.      *)
THEOREM KnownPasswords == Spec => []SessionsKnowThePassword
<1>1. IndInv => SessionsKnowThePassword
  BY DEF IndInv
<1> QED BY <1>1, Inductive, PTL

(* Suspension leaves no session for the reactivation, but by an overlapping *)
(* login or a revocation that has yet to run or died.                       *)
THEOREM SignedOut == Spec => []InactiveAccountsAreSignedOut
<1>1. IndInv => InactiveAccountsAreSignedOut
  BY DEF IndInv
<1> QED BY <1>1, Inductive, PTL

(* No link of a mail has its effect twice.                                  *)
THEOREM LinksOnce == Spec => []LinksActOnce
<1>1. IndInv => LinksActOnce
  BY DEF IndInv
<1> QED BY <1>1, Inductive, PTL

-----------------------------------------------------------------------------
(* The steps that write login sessions.                                     *)
LEMMA SessionWriters ==
    ASSUME NEW r \in Requests, Arrive(r) \/ Continue(r) \/ UndoInvitation(r) \/ Crash(r)
    PROVE  \/ UNCHANGED session
           \/ \E s \in Sessions : createAuthenticatedSession(r, s)
           \/ ClaimReset(r) \/ ExpireSession(r) \/ RevokeOne(r) \/ SignOut(r)
           \/ SetPassword(r) \/ DisableAccount(r) \/ DeleteRow(r)
<1>1. CASE Arrive(r)
  BY <1>1 DEF Arrive, register, invitePlatformAdmin, resendEmailVerification, forgotPassword,
         verifyEmail, acceptPlatformAdminInvitation, resetPassword, login, refresh, logout,
         revokeOtherAuthSessions, deleteAccount, changePassword, revokeAuthSession,
         updateUserStatus, revokeAdminSessions, permanentlyDeleteUser
<1>2. CASE Continue(r)
  BY <1>2 DEF Continue, CreateRegisteredUser, CreateInvitedUser, revokeActiveTokens,
         createToken, ClaimVerification, ClaimInvitedAccount, LinkLocalAccount,
         TouchSession, SetStatus, PurgeUser
<1>3. CASE UndoInvitation(r) \/ Crash(r)
  BY <1>3 DEF UndoInvitation, Crash
<1> QED BY <1>1, <1>2, <1>3

LEMMA ClosedStep ==
    ASSUME IndInv, [Next]_vars, NEW s \in Sessions, session[s].status \in {"REVOKED", "EXPIRED"}
    PROVE  session'[s].status \in {"REVOKED", "EXPIRED", "NONE"}
<1> DEFINE Goal == session'[s].status \in {"REVOKED", "EXPIRED", "NONE"}
<1>0. session \in [Sessions -> Row] /\ ~IsLive(s)
  BY Types DEF IsLive
<1>1. ASSUME UNCHANGED session PROVE Goal
  BY <1>1
<1>2. ASSUME NEW r \in Requests, NEW t \in Sessions, createAuthenticatedSession(r, t)
      PROVE  Goal
  BY <1>0, <1>2 DEF createAuthenticatedSession
<1>3. ASSUME NEW rows, session' = Revoked(rows) PROVE Goal
  BY <1>0, <1>3 DEF Revoked
<1>4. ASSUME NEW r \in Requests, ExpireSession(r) \/ RevokeOne(r) PROVE Goal
  BY <1>0, <1>4 DEF ExpireSession, RevokeOne, Closed
<1>5. ASSUME NEW r \in Requests, SetPassword(r) PROVE Goal
  <2>1. PICK other, p : session' = Proves(Revoked(Sessions \ {other}), other, p)
    BY <1>5 DEF SetPassword
  <2>2. Revoked(Sessions \ {other})[s] = session[s]
    BY <1>0 DEF Revoked
  <2>3. session[s] \in Row
    BY <1>0
  <2> QED BY <2>1, <2>2, <2>3 DEF Proves, Revoked, Row
<1>6. ASSUME NEW r \in Requests, DeleteRow(r) PROVE Goal
  BY <1>6 DEF DeleteRow, NoSession
<1>7. ASSUME NEW r \in Requests, Arrive(r) \/ Continue(r) \/ UndoInvitation(r) \/ Crash(r)
      PROVE  Goal
  <2>1. CASE ClaimReset(r) \/ SignOut(r) \/ DisableAccount(r)
    BY <1>1, <1>3, <2>1 DEF ClaimReset, SignOut, DisableAccount
  <2> QED BY <1>1, <1>2, <1>4, <1>5, <1>6, <1>7, <2>1, SessionWriters
<1>8. ASSUME NEW t \in Sessions, LapseSession(t) PROVE Goal
  BY <1>0, <1>8 DEF LapseSession
<1>9. ASSUME NEW t \in Tokens, LapseToken(t) PROVE Goal
  BY <1>1, <1>9 DEF LapseToken
<1>10. ASSUME UNCHANGED vars PROVE Goal
  BY <1>1, <1>10 DEF vars
<1> QED BY <1>7, <1>8, <1>9, <1>10 DEF Next

(* A login session that was closed is never signed in again.                *)
THEOREM ClosedForGood == Spec => ClosedSessionsStayClosed
<1>1. IndInv /\ [Next]_vars => \A s \in Sessions :
          session[s].status \in {"REVOKED", "EXPIRED"} =>
              session'[s].status \in {"REVOKED", "EXPIRED", "NONE"}
  BY ClosedStep
<1> QED BY <1>1, Inductive, PTL DEF Spec, ClosedSessionsStayClosed

-----------------------------------------------------------------------------
(* The refinement of AccountContract: its variables, spelled out.           *)
inView == {s \in Sessions : IsLive(s)}
outView == {s \in Sessions : session[s].status \in {"REVOKED", "EXPIRED"}}
goodView == {t \in Tokens : token[t].state \in {"USABLE", "LAPSED"}}
spentView == {t \in Tokens : token[t].state \in {"USED", "REVOKED"}}

LEMMA Views ==
    Contract!owned =
        <<StandingOf(account), account.password, inView, outView, goodView, spentView>>
BY DEF Contract!owned, StandingOf, inView, outView, goodView, spentView

LEMMA Standings ==
    ASSUME NEW user \in Account
    PROVE  /\ StandingOf(user) \in {"NONE", "PENDING", "OPEN", "BARRED"}
           /\ StandingOf(user) = "NONE" <=> user.status = "NONE"
           /\ StandingOf(user) = "PENDING" <=> user.status = Pending
           /\ StandingOf(user) = "OPEN" <=> user.status = "ACTIVE"
           /\ StandingOf(user) = "BARRED" <=> user.status = "INACTIVE"
BY DEF StandingOf, Account, UserStatus, Pending

LEMMA SameSessions ==
    ASSUME UNCHANGED session PROVE inView' = inView /\ outView' = outView
BY DEF inView, outView, IsLive

LEMMA SameLinks ==
    ASSUME UNCHANGED token PROVE goodView' = goodView /\ spentView' = spentView
BY DEF goodView, spentView

LEMMA Stutters ==
    ASSUME UNCHANGED <<account, session, token>>
    PROVE  UNCHANGED Contract!owned
<1>1. StandingOf(account') = StandingOf(account)
  OBVIOUS
<1> QED BY <1>1, SameSessions, SameLinks
       DEF Contract!owned, StandingOf, inView, outView, goodView, spentView

(* What is known of a request that goes on.                                 *)
LEMMA Doer ==
    ASSUME IndInv, NEW r \in Requests
    PROVE  /\ req[r] \in Request /\ LocalsAreSound(req[r])
           /\ req[r].at \notin {"idle", "register", "invite"} =>
                  account.status # "NONE" /\ StandingOf(account) # "NONE"
BY Types, Standings DEF IndInv, LocalsAreSound

(* Rows are revoked: those that were live end.                              *)
LEMMA RevokedEnds ==
    ASSUME IndInv, NEW rows, session' = Revoked(rows)
    PROVE  /\ inView' = inView \cap (Sessions \ rows)
           /\ outView' = outView \cup (inView \ (Sessions \ rows))
<1>1. ASSUME NEW s \in Sessions
      PROVE  session'[s].status = IF s \in rows /\ IsLive(s) THEN "REVOKED" ELSE session[s].status
  BY DEF Revoked, Closed
<1> QED BY <1>1 DEF inView, outView, IsLive

(* Links are replaced, and used.                                            *)
LEMMA RevokedLinks ==
    ASSUME IndInv, NEW links \in SUBSET Tokens,
           token' = [t \in Tokens |-> IF t \in links
                                      THEN [token[t] EXCEPT !.state = "REVOKED"] ELSE token[t]],
           links \subseteq goodView
    PROVE  goodView' = goodView \ links /\ spentView' = spentView \cup (goodView \cap links)
<1>1. ASSUME NEW t \in Tokens
      PROVE  token'[t].state = IF t \in links THEN "REVOKED" ELSE token[t].state
  BY Types DEF Link
<1> QED BY <1>1 DEF goodView, spentView

LEMMA SpentLinksAre ==
    ASSUME IndInv, NEW purpose \in Purposes, NEW t \in Outstanding(purpose),
           token' = Spent(t, purpose)
    PROVE  /\ t \in goodView
           /\ goodView' = goodView \ Outstanding(purpose)
           /\ spentView' = spentView \cup (goodView \cap Outstanding(purpose))
<1>1. t \in goodView
  BY DEF Outstanding, goodView
<1>2. ASSUME NEW u \in Tokens
      PROVE  token'[u].state = IF u = t THEN "USED"
                               ELSE IF u \in Outstanding(purpose) THEN "REVOKED"
                               ELSE token[u].state
  BY Types DEF Spent, Link
<1>3. Outstanding(purpose) \subseteq goodView
  BY DEF Outstanding, goodView
<1> QED BY <1>1, <1>2, <1>3 DEF goodView, spentView

-----------------------------------------------------------------------------
(* Step by step.                                                            *)

(* register, invitePlatformAdmin: the account is created, or was there.     *)
LEMMA CreationRefines ==
    ASSUME IndInv, NEW r \in Requests,
           (\E p \in Passwords : CreateRegisteredUser(r, p)) \/ CreateInvitedUser(r)
    PROVE  [Contract!Act]_(Contract!owned)
<1>0. UNCHANGED <<session, token>>
  BY DEF CreateRegisteredUser, CreateInvitedUser
<1>1. CASE account.status # "NONE"
  BY <1>0, <1>1, Stutters DEF CreateRegisteredUser, CreateInvitedUser
<1>2. CASE account.status = "NONE"
  <2>1. PICK p \in Passwords \cup {NoPassword} :
            account'.status = Pending /\ account'.password = p
    <3>1. ASSUME NEW p \in Passwords, CreateRegisteredUser(r, p)
          PROVE  account'.status = Pending /\ account'.password = p
      BY <1>2, <3>1 DEF CreateRegisteredUser
    <3>2. ASSUME CreateInvitedUser(r)
          PROVE  account'.status = Pending /\ account'.password = NoPassword
      BY <1>2, <3>2 DEF CreateInvitedUser, NoAccount
    <3> QED BY <3>1, <3>2
  <2>2. StandingOf(account) = "NONE" /\ StandingOf(account') = "PENDING"
    BY <1>2, <2>1 DEF StandingOf, Pending
  <2>3. Contract!Create(p)
    BY <1>0, <2>1, <2>2, SameSessions, SameLinks
       DEF Contract!Create, StandingOf, inView, outView, goodView, spentView
  <2> QED BY <2>3 DEF Contract!Act
<1> QED BY <1>1, <1>2

(* createToken: the older links are replaced, then the new one is sent.     *)
LEMMA LinkRefines ==
    ASSUME IndInv, NEW r \in Requests,
           revokeActiveTokens(r) \/ \E t \in Tokens : createToken(r, t)
    PROVE  Contract!Act
<1>0. /\ UNCHANGED <<account, session>> /\ StandingOf(account') = StandingOf(account)
      /\ StandingOf(account) # "NONE"
  BY Doer DEF revokeActiveTokens, createToken, At
<1>1. CASE revokeActiveTokens(r)
  <2> PICK links \in SUBSET Tokens : links = Outstanding(req[r].purpose)
    BY DEF Outstanding
  <2>1. links \subseteq goodView
    BY DEF Outstanding, goodView
  <2>2. goodView' = goodView \ links /\ spentView' = spentView \cup (goodView \cap links)
    BY <1>1, <2>1, RevokedLinks DEF revokeActiveTokens
  <2>3. Contract!ReplaceLinks(links)
    BY <1>0, <2>2, SameSessions DEF Contract!ReplaceLinks, Contract!Spend, StandingOf,
       inView, outView, goodView, spentView
  <2> QED BY <2>3 DEF Contract!Act
<1>2. ASSUME NEW t \in Tokens, createToken(r, t) PROVE Contract!Act
  <2>1. /\ token[t].state = "NONE" /\ token'[t].state = "USABLE"
        /\ \A u \in Tokens \ {t} : token'[u] = token[u]
    BY <1>2, Types DEF createToken
  <2>2. /\ t \notin goodView \cup spentView
        /\ goodView' = goodView \cup {t} /\ spentView' = spentView
    BY <2>1 DEF goodView, spentView
  <2>3. Contract!SendLink(t)
    BY <1>0, <2>2, SameSessions DEF Contract!SendLink, StandingOf, inView, outView,
       goodView, spentView
  <2> QED BY <2>3 DEF Contract!Act
<1> QED BY <1>1, <1>2

(* A link that was still good is used, once, for what it was sent for.      *)
LEMMA ClaimRefines ==
    ASSUME IndInv, NEW r \in Requests,
           ClaimVerification(r) \/ ClaimInvitedAccount(r) \/ ClaimReset(r)
    PROVE  [Contract!Act]_(Contract!owned)
<1> PICK t : t = req[r].token
  OBVIOUS
<1>0. /\ t \in Tokens /\ StandingOf(account) # "NONE"
      /\ req[r].at \in {"accept", "reset"} => req[r].password \in Passwords
  BY Doer DEF ClaimVerification, ClaimInvitedAccount, ClaimReset, At, Request
<1>1. ASSUME NEW purpose \in Purposes, t \in Outstanding(purpose), token' = Spent(t, purpose),
             Contract!Verify \/ \E p \in Passwords : Contract!Reset(p) \/ Contract!Accept(p)
      PROVE  Contract!Act
  <2> PICK links \in SUBSET Tokens : links = Outstanding(purpose)
    BY DEF Outstanding
  <2>1. /\ t \in goodView \cap links
        /\ goodView' = goodView \ links /\ spentView' = spentView \cup (goodView \cap links)
    BY <1>1, SpentLinksAre
  <2>2. Contract!UseLink(t, links)
    BY <1>0, <1>1, <2>1 DEF Contract!UseLink, Contract!Spend, StandingOf, goodView, spentView
  <2> QED BY <1>0, <2>2 DEF Contract!Act
<1>2. CASE UNCHANGED <<account, session, token>>
  BY <1>2, Stutters
<1>3. CASE ClaimVerification(r) /\ ~UNCHANGED <<account, session, token>>
  <2>1. /\ t \in Outstanding("EMAIL_VERIFICATION")
        /\ token' = Spent(t, "EMAIL_VERIFICATION")
        /\ account' = [account EXCEPT !.status = "ACTIVE", !.verified = TRUE]
        /\ UNCHANGED session
    BY <1>0, <1>3 DEF ClaimVerification, findUsableToken, Outstanding
  <2>2. account'.status = "ACTIVE" /\ account'.password = account.password
    BY <2>1, Types DEF Account
  <2>3. StandingOf(account') = "OPEN"
    BY <2>2 DEF StandingOf, Pending
  <2>4. Contract!Verify
    BY <2>1, <2>2, <2>3, SameSessions DEF Contract!Verify, StandingOf, inView, outView
  <2> QED BY <1>1, <2>1, <2>4 DEF Purposes
<1>4. CASE ClaimInvitedAccount(r) /\ ~UNCHANGED <<account, session, token>>
  <2>1. /\ t \in Outstanding("PLATFORM_ADMIN_INVITATION")
        /\ token' = Spent(t, "PLATFORM_ADMIN_INVITATION")
        /\ account' = [account EXCEPT !.status = "ACTIVE", !.verified = TRUE,
                                      !.linked = TRUE, !.password = req[r].password]
        /\ UNCHANGED session /\ ~account.linked
    BY <1>0, <1>4 DEF ClaimInvitedAccount, findUsableToken, Outstanding
  <2>2. account'.status = "ACTIVE" /\ account'.password = req[r].password
    BY <2>1, Types DEF Account
  <2>3. StandingOf(account') = "OPEN"
    BY <2>2 DEF StandingOf, Pending
  <2>4. inView = {} /\ outView = {}
    BY <2>1 DEF IndInv, inView, outView, IsLive
  <2>5. req[r].password \in Passwords /\ Contract!Accept(req[r].password)
    BY <1>0, <1>4, <2>1, <2>2, <2>3, <2>4, SameSessions
       DEF Contract!Accept, StandingOf, inView, outView, ClaimInvitedAccount, At
  <2> QED BY <1>1, <2>1, <2>5 DEF Purposes
<1>5. CASE ClaimReset(r) /\ ~UNCHANGED <<account, session, token>>
  <2>1. /\ t \in Outstanding("PASSWORD_RESET") /\ token' = Spent(t, "PASSWORD_RESET")
        /\ account' = [account EXCEPT !.password = req[r].password]
        /\ session' = Revoked(Sessions)
    BY <1>5 DEF ClaimReset
  <2>2. account'.status = account.status /\ account'.password = req[r].password
    BY <2>1, Types DEF Account
  <2>3. StandingOf(account') = StandingOf(account)
    BY <2>2 DEF StandingOf
  <2>4. inView' = inView \cap {} /\ outView' = outView \cup (inView \ {})
    BY <2>1, RevokedEnds
  <2>5. req[r].password \in Passwords /\ Contract!Reset(req[r].password)
    BY <1>0, <1>5, <2>2, <2>3, <2>4
       DEF Contract!Reset, Contract!EndAllBut, StandingOf, inView, outView, ClaimReset, At
  <2> QED BY <1>1, <2>1, <2>5 DEF Purposes
<1> QED BY <1>2, <1>3, <1>4, <1>5

(* login: the login method is linked, which is no step, and a new session   *)
(* is opened.                                                               *)
LEMMA SignInRefines ==
    ASSUME IndInv, NEW r \in Requests,
           LinkLocalAccount(r) \/ \E s \in Sessions : createAuthenticatedSession(r, s)
    PROVE  [Contract!Act]_(Contract!owned)
<1>0. StandingOf(account) # "NONE" /\ UNCHANGED token
  BY Doer DEF LinkLocalAccount, createAuthenticatedSession, At
<1>1. CASE LinkLocalAccount(r)
  <2>1. /\ account'.status = account.status /\ account'.password = account.password
        /\ UNCHANGED session
    BY <1>1, Types DEF LinkLocalAccount, Account
  <2>2. StandingOf(account') = StandingOf(account)
    BY <2>1 DEF StandingOf
  <2> QED BY <1>0, <2>1, <2>2, Views, SameSessions, SameLinks
         DEF Contract!owned, StandingOf, inView, outView, goodView, spentView
<1>2. ASSUME NEW s \in Sessions, createAuthenticatedSession(r, s) PROVE Contract!Act
  <2>1. /\ session[s].status = "NONE" /\ session'[s].status = "ACTIVE"
        /\ \A other \in Sessions \ {s} : session'[other] = session[other]
        /\ UNCHANGED account
    BY <1>2, Types DEF createAuthenticatedSession
  <2>2. /\ s \notin inView \cup outView
        /\ inView' = inView \cup {s} /\ outView' = outView
    BY <2>1 DEF inView, outView, IsLive
  <2>3. Contract!SignIn(s)
    BY <1>0, <2>1, <2>2, SameLinks DEF Contract!SignIn, StandingOf, inView, outView,
       goodView, spentView
  <2> QED BY <2>3 DEF Contract!Act
<1> QED BY <1>1, <1>2

(* Sessions end: refresh of a lapsed one, revokeAuthSession, and everything *)
(* that signs out.                                                          *)
LEMMA EndRefines ==
    ASSUME IndInv, NEW r \in Requests, ExpireSession(r) \/ RevokeOne(r) \/ SignOut(r)
    PROVE  Contract!Act
<1>0. UNCHANGED <<account, token>>
  BY DEF ExpireSession, RevokeOne, SignOut
<1>1. PICK kept \in SUBSET Sessions :
          inView' = inView \cap kept /\ outView' = outView \cup (inView \ kept)
  <2>1. CASE ExpireSession(r) \/ RevokeOne(r)
    <3> PICK s : s = req[r].session
      OBVIOUS
    <3>1. s \in Sessions /\ session[s].status # "NONE"
      BY <2>1, Doer DEF ExpireSession, RevokeOne, At, Request, LocalsAreSound
    <3>2. /\ session'[s].status \in {"REVOKED", "EXPIRED"}
          /\ \A other \in Sessions \ {s} : session'[other] = session[other]
      BY <2>1, <3>1, Types DEF ExpireSession, RevokeOne, Closed
    <3>3. session[s].status \in {"ACTIVE", "LAPSED", "REVOKED", "EXPIRED"}
      BY <3>1, Types DEF Row, SessionStates
    <3>4. /\ inView' = inView \cap (Sessions \ {s})
          /\ outView' = outView \cup (inView \ (Sessions \ {s}))
      BY <3>1, <3>2, <3>3 DEF inView, outView, IsLive
    <3> QED BY <3>4
  <2>2. CASE SignOut(r)
    <3>1. session' = Revoked(req[r].rows)
      BY <2>2 DEF SignOut
    <3>2. /\ inView' = inView \cap (Sessions \ req[r].rows)
          /\ outView' = outView \cup (inView \ (Sessions \ req[r].rows))
      BY <3>1, RevokedEnds
    <3> QED BY <3>2
  <2> QED BY <2>1, <2>2
<1>2. Contract!SignOut(kept)
  BY <1>0, <1>1, SameLinks DEF Contract!SignOut, Contract!EndAllBut, StandingOf, inView,
     outView, goodView, spentView
<1> QED BY <1>2 DEF Contract!Act

(* changePassword: the new password is given and the others end at once.    *)
LEMMA ChangeRefines ==
    ASSUME IndInv, NEW r \in Requests, SetPassword(r)
    PROVE  Contract!Act
<1> PICK s, p : s = req[r].session /\ p = req[r].password
  OBVIOUS
<1>1. s \in Sessions /\ p \in Passwords /\ StandingOf(account) # "NONE" /\ UNCHANGED token
  BY Doer DEF SetPassword, At, Request
<1>2. account'.status = account.status /\ account'.password = p
  BY Types DEF SetPassword, Account
<1>3. StandingOf(account') = StandingOf(account)
  BY <1>2 DEF StandingOf
<1>4. ASSUME NEW other \in Sessions
      PROVE  session'[other].status = IF other # s /\ IsLive(other) THEN "REVOKED"
                                      ELSE session[other].status
  <2> PICK rows : rows = Revoked(Sessions \ {s})
    OBVIOUS
  <2>1. /\ rows[other].status = IF other # s /\ IsLive(other) THEN "REVOKED"
                                ELSE session[other].status
        /\ rows \in [Sessions -> Row]
    <3>1. Closed("REVOKED") \in Row /\ Closed("REVOKED").status = "REVOKED"
      BY DEF Closed, Row, SessionStates
    <3> QED BY <3>1, Types DEF Revoked
  <2>2. session' = Proves(rows, s, p)
    BY DEF SetPassword
  <2>3. session'[other].status = rows[other].status
    <3>1. CASE other = s
      <4>1. session'[s] = [rows[s] EXCEPT !.known =
                IF rows[s].status \in {"ACTIVE", "LAPSED"} THEN p ELSE @]
        BY <1>1, <2>1, <2>2 DEF Proves
      <4>2. rows[s] \in Row
        BY <1>1, <2>1
      <4> QED BY <3>1, <4>1, <4>2 DEF Row
    <3>2. CASE other # s
      BY <1>1, <2>1, <2>2, <3>2 DEF Proves
    <3> QED BY <3>1, <3>2
  <2> QED BY <2>1, <2>3
<1>5. inView' = inView \cap {s} /\ outView' = outView \cup (inView \ {s})
  BY <1>1, <1>4 DEF inView, outView, IsLive
<1>6. Contract!ChangePassword(s, p)
  BY <1>1, <1>2, <1>3, <1>5, SameLinks DEF Contract!ChangePassword, Contract!EndAllBut,
     StandingOf, inView, outView, goodView, spentView
<1> QED BY <1>1, <1>6 DEF Contract!Act

(* deleteAccount and updateUserStatus.                                      *)
LEMMA StandingRefines ==
    ASSUME IndInv, NEW r \in Requests, DisableAccount(r) \/ SetStatus(r)
    PROVE  Contract!Act
<1>0. StandingOf(account) # "NONE" /\ UNCHANGED token
  BY Doer DEF DisableAccount, SetStatus, At
<1>1. CASE DisableAccount(r)
  <2>1. account'.status = "INACTIVE" /\ account'.password = NoPassword
    BY <1>1, Types DEF DisableAccount, Account
  <2>2. StandingOf(account') = "BARRED"
    BY <2>1 DEF StandingOf, Pending
  <2>3. inView' = inView \cap {} /\ outView' = outView \cup (inView \ {})
    BY <1>1, RevokedEnds DEF DisableAccount
  <2>4. Contract!Close
    BY <1>0, <2>1, <2>2, <2>3, SameLinks DEF Contract!Close, Contract!EndAllBut, StandingOf,
       inView, outView, goodView, spentView
  <2> QED BY <2>4 DEF Contract!Act
<1>2. CASE SetStatus(r)
  <2>1. req[r].status \in UserStatus
    BY <1>2, Doer DEF SetStatus, At, Request
  <2>2. /\ account' \in Account /\ account'.status = req[r].status
        /\ account'.password = account.password /\ UNCHANGED session
    BY <1>2, <2>1, Types DEF SetStatus, Account
  <2>3. StandingOf(account') \in {"PENDING", "OPEN", "BARRED"}
    BY <2>1, <2>2, Standings DEF UserStatus
  <2>4. StandingOf(account') \in {StandingOf(req[q]) : q \in {p \in Requests : At(p, "setStatus")}}
    <3>1. StandingOf(account') = StandingOf(req[r])
      BY <2>2 DEF StandingOf
    <3> QED BY <1>2, <3>1 DEF SetStatus
  <2>5. Contract!SetStanding(StandingOf(account'))
    BY <1>0, <2>2, <2>4, SameSessions, SameLinks DEF Contract!SetStanding, inView,
       outView, goodView, spentView
  <2> QED BY <2>3, <2>5 DEF Contract!Act, Contract!Ordered
<1> QED BY <1>1, <1>2

(* The row is deleted with its sessions and links.                          *)
LEMMA DeleteRefines ==
    ASSUME IndInv, NEW r \in Requests, PurgeUser(r) \/ UndoInvitation(r)
    PROVE  Contract!Act
<1>1. StandingOf(account) # "NONE"
  BY Doer DEF PurgeUser, UndoInvitation, At
<1>2. account' = NoAccount /\ StandingOf(account') = "NONE"
  BY DEF PurgeUser, UndoInvitation, DeleteRow, NoAccount, StandingOf, Pending
<1>3. /\ \A s \in Sessions : session'[s].status = "NONE"
      /\ \A t \in Tokens : token'[t].state = "NONE"
  BY DEF PurgeUser, UndoInvitation, DeleteRow, NoSession, NoToken
<1>4. inView' = {} /\ outView' = {} /\ goodView' = {} /\ spentView' = {}
  BY <1>3 DEF inView, outView, goodView, spentView, IsLive
<1>5. Contract!Delete
  BY <1>1, <1>2, <1>4 DEF Contract!Delete, NoAccount, StandingOf, inView, outView,
     goodView, spentView
<1> QED BY <1>5 DEF Contract!Act

(* The passing of a date ends neither a session nor a link: that is left to *)
(* the request that finds it out.                                           *)
LEMMA LapseStutters ==
    ASSUME IndInv, \/ \E s \in Sessions : LapseSession(s)
                   \/ \E t \in Tokens : LapseToken(t)
    PROVE  UNCHANGED Contract!owned
<1>0. UNCHANGED account
  BY DEF LapseSession, LapseToken
<1>1. inView' = inView /\ outView' = outView
  <2>1. ASSUME NEW s \in Sessions, LapseSession(s) PROVE inView' = inView /\ outView' = outView
    <3>1. /\ session[s].status = "ACTIVE" /\ session'[s].status = "LAPSED"
          /\ \A other \in Sessions \ {s} : session'[other] = session[other]
      BY <2>1, Types DEF LapseSession, Row
    <3> QED BY <3>1 DEF inView, outView, IsLive
  <2> QED BY <2>1, SameSessions DEF LapseToken
<1>2. goodView' = goodView /\ spentView' = spentView
  <2>1. ASSUME NEW t \in Tokens, LapseToken(t)
        PROVE  goodView' = goodView /\ spentView' = spentView
    <3>1. /\ token[t].state = "USABLE" /\ token'[t].state = "LAPSED"
          /\ \A u \in Tokens \ {t} : token'[u] = token[u]
      BY <2>1, Types DEF LapseToken, Link
    <3> QED BY <3>1 DEF goodView, spentView
  <2> QED BY <2>1, SameLinks DEF LapseSession
<1> QED BY <1>0, <1>1, <1>2 DEF Contract!owned, inView, outView, goodView, spentView, StandingOf

LEMMA ArriveStutters ==
    ASSUME NEW r \in Requests, Arrive(r) \/ Crash(r) \/ TouchSession(r)
    PROVE  UNCHANGED Contract!owned
BY Stutters DEF Arrive, register, invitePlatformAdmin, resendEmailVerification, forgotPassword,
   verifyEmail, acceptPlatformAdminInvitation, resetPassword, login, refresh, logout,
   revokeOtherAuthSessions, deleteAccount, changePassword, revokeAuthSession,
   updateUserStatus, revokeAdminSessions, permanentlyDeleteUser, Crash, TouchSession

(* Staff order one of the standings an account can have.                    *)
LEMMA OrdersAre ==
    ASSUME IndInv, [Next]_vars
    PROVE  {StandingOf(req'[r]) : r \in {q \in Requests : req'[q].at = "setStatus"}}
               \in SUBSET Contract!Ordered
<1>1. ASSUME NEW r \in Requests, req'[r].at = "setStatus"
      PROVE  StandingOf(req'[r]) \in Contract!Ordered
  <2>1. req'[r] \in Request
    BY NextSound DEF IndInv, TypeOK
  <2>2. req'[r].status \in UserStatus
    BY <1>1, <2>1 DEF Request
  <2> QED BY <2>2 DEF StandingOf, UserStatus, Pending, Contract!Ordered
<1> QED BY <1>1

LEMMA ContractStep ==
    ASSUME IndInv, [Next]_vars
    PROVE  [Contract!Next]_(Contract!vars)
<1>1. ASSUME NEW r \in Requests, Continue(r) PROVE [Contract!Act]_(Contract!owned)
  BY <1>1, CreationRefines, LinkRefines, ClaimRefines, SignInRefines, EndRefines,
     ChangeRefines, StandingRefines, DeleteRefines, ArriveStutters DEF Continue
<1>2. ASSUME NEW r \in Requests, Arrive(r) \/ UndoInvitation(r) \/ Crash(r)
      PROVE  [Contract!Act]_(Contract!owned)
  BY <1>2, DeleteRefines, ArriveStutters
<1>3. ASSUME \/ \E s \in Sessions : LapseSession(s)
             \/ \E t \in Tokens : LapseToken(t)
      PROVE  [Contract!Act]_(Contract!owned)
  BY <1>3, LapseStutters
<1>4. ASSUME UNCHANGED vars PROVE [Contract!Act]_(Contract!owned)
  BY <1>4, Stutters DEF vars
<1>5. [Contract!Act]_(Contract!owned)
  BY <1>1, <1>2, <1>3, <1>4 DEF Next
<1>6. Contract!Act \/ UNCHANGED Contract!owned
  BY <1>5
<1>7. {StandingOf(req[r]) : r \in {q \in Requests : At(q, "setStatus")}}'
          \in SUBSET Contract!Ordered
  BY OrdersAre DEF At
<1>8. Contract!Next
  BY <1>6, <1>7 DEF Contract!Next
<1> QED BY <1>8

LEMMA ContractInit == Init => Contract!Init
<1> SUFFICES ASSUME Init PROVE Contract!Init
  OBVIOUS
<1>1. inView = {} /\ outView = {} /\ goodView = {} /\ spentView = {}
  BY DEF Init, NoSession, NoToken, inView, outView, goodView, spentView, IsLive
<1>2. StandingOf(account) = "NONE" /\ account.password = NoPassword
  BY DEF Init, NoAccount, StandingOf, Pending
<1>3. {StandingOf(req[r]) : r \in {q \in Requests : At(q, "setStatus")}} = {}
  BY DEF Init, Idle, At
<1> QED BY <1>1, <1>2, <1>3 DEF Contract!Init, StandingOf, inView, outView, goodView, spentView

(* However requests overlap and die, the handlers of auth, account settings *)
(* and the staff's tools keep what AccountContract promises the owner of an *)
(* account: in particular a barred account is opened again only while staff *)
(* order it, or by a link that was still good.                                        *)
THEOREM Refinement == Spec => ImplementsContract
<1>1. IndInv /\ [Next]_vars => [Contract!Next]_(Contract!vars)
  BY ContractStep
<1> QED BY <1>1, ContractInit, Inductive, PTL DEF Spec, ImplementsContract, Contract!Spec

-----------------------------------------------------------------------------
(* Requests that do not overlap: with one slot, what the request read of    *)
(* the account and of its links is still so.  Sessions and links may lapse  *)
(* meanwhile, and the request may die.                                      *)
OneSlot == \A q, r \in Requests : q = r

StillSo(q) ==
    /\ q.at \in {"link", "openSession"} =>
          account.status = "ACTIVE" /\ account.password = q.password
    /\ q.at = "accept" => account.status = Pending
    /\ q.at = "insertToken" => Outstanding(q.purpose) = {}

(* Every live session was opened with a password that was right, and of the *)
(* links of one kind one is outstanding.                                    *)
LoginsWereCurrent == \A s \in Sessions : IsLive(s) => session[s].known # NoPassword
OneOutstandingLink ==
    \A purpose \in Purposes : \A t, u \in Outstanding(purpose) : t = u

SerialInv ==
    /\ IndInv
    /\ LoginsWereCurrent
    /\ OneOutstandingLink
    /\ \A r \in Requests : StillSo(req[r])

(* The one request goes on, or is done.                                     *)
LEMMA SlotSerial ==
    ASSUME OneSlot, IndInv, IndInv', LoginsWereCurrent', OneOutstandingLink',
           NEW r \in Requests, NEW next, Goto(r, next), StillSo(next)'
    PROVE  SerialInv'
<1>1. ASSUME NEW q \in Requests PROVE StillSo(req[q])'
  <2>1. req'[q] = next
    BY Types DEF OneSlot, Goto
  <2> QED BY <2>1 DEF StillSo
<1> QED BY <1>1 DEF SerialInv

LEMMA DoneSerial ==
    ASSUME OneSlot, IndInv, IndInv', LoginsWereCurrent', OneOutstandingLink',
           NEW r \in Requests, Goto(r, Idle)
    PROVE  SerialInv'
<1>1. StillSo(Idle)'
  BY DEF StillSo, Idle
<1> QED BY <1>1, SlotSerial

(* Steps that open no session and add no link.                              *)
LEMMA NoneOpened ==
    ASSUME LoginsWereCurrent,
           \A s \in Sessions : IsLive(s)' =>
               IsLive(s) /\ (session'[s].known = session[s].known \/ session'[s].known # NoPassword)
    PROVE  LoginsWereCurrent'
BY DEF LoginsWereCurrent

LEMMA NoneAdded ==
    ASSUME OneOutstandingLink,
           \A purpose \in Purposes : Outstanding(purpose)' \subseteq Outstanding(purpose)
    PROVE  OneOutstandingLink'
BY DEF OneOutstandingLink

LEMMA SameRows ==
    ASSUME SerialInv, UNCHANGED <<session, token>>
    PROVE  LoginsWereCurrent' /\ OneOutstandingLink'
BY DEF SerialInv, LoginsWereCurrent, OneOutstandingLink, IsLive, Outstanding

LEMMA ArriveSerial ==
    ASSUME OneSlot, SerialInv, IndInv', NEW r \in Requests, Arrive(r)
    PROVE  SerialInv'
<1>0. UNCHANGED <<account, session, token>>
  BY DEF Arrive, register, invitePlatformAdmin, resendEmailVerification, forgotPassword,
     verifyEmail, acceptPlatformAdminInvitation, resetPassword, login, refresh, logout,
     revokeOtherAuthSessions, deleteAccount, changePassword, revokeAuthSession,
     updateUserStatus, revokeAdminSessions, permanentlyDeleteUser
<1>1. ASSUME NEW next, Start(r, next), StillSo(next) PROVE SerialInv'
  <2>1. StillSo(next)'
    BY <1>0, <1>1 DEF StillSo, Outstanding
  <2> QED BY <1>0, <1>1, <2>1, SameRows, SlotSerial DEF Start, SerialInv
<1>2. ASSUME NEW next, Start(r, next),
             next.at \notin {"link", "openSession", "accept", "insertToken"}
      PROVE  SerialInv'
  BY <1>1, <1>2 DEF StillSo
<1>3. CASE \/ register(r) \/ invitePlatformAdmin(r)
           \/ resendEmailVerification(r) \/ forgotPassword(r)
           \/ \E status \in UserStatus : updateUserStatus(r, status)
           \/ revokeAdminSessions(r) \/ permanentlyDeleteUser(r)
  BY <1>2, <1>3 DEF register, invitePlatformAdmin, resendEmailVerification, forgotPassword,
     updateUserStatus, revokeAdminSessions, permanentlyDeleteUser
<1>4. ASSUME NEW t \in Tokens, verifyEmail(r, t) PROVE SerialInv'
  BY <1>2, <1>4 DEF verifyEmail
<1>5. ASSUME NEW t \in Tokens, NEW p \in Passwords, resetPassword(r, t, p) PROVE SerialInv'
  BY <1>2, <1>5 DEF resetPassword
<1>6. ASSUME NEW t \in Tokens, NEW p \in Passwords, acceptPlatformAdminInvitation(r, t, p)
      PROVE  SerialInv'
  BY <1>1, <1>6 DEF acceptPlatformAdminInvitation, StillSo
<1>7. ASSUME NEW p \in Passwords, login(r, p) PROVE SerialInv'
  <2> PICK next : next = [at |-> IF account.linked THEN "openSession" ELSE "link", password |-> p]
    OBVIOUS
  <2>1. next.at \in {"link", "openSession"} /\ next.password = p /\ Start(r, next)
    BY <1>7 DEF login
  <2>2. StillSo(next)
    BY <1>7, <2>1 DEF login, StillSo
  <2> QED BY <1>1, <2>1, <2>2
<1>8. ASSUME NEW s \in Sessions,
             \/ refresh(r, s) \/ logout(r, s)
             \/ revokeOtherAuthSessions(r, s) \/ deleteAccount(r, s)
             \/ \E p \in Passwords : changePassword(r, s, p)
             \/ \E other \in Sessions : revokeAuthSession(r, s, other)
      PROVE  SerialInv'
  BY <1>2, <1>8 DEF refresh, logout, revokeOtherAuthSessions, deleteAccount, changePassword,
     revokeAuthSession
<1> QED BY <1>3, <1>4, <1>5, <1>6, <1>7, <1>8 DEF Arrive

(* The user is created, or the links are made.                              *)
LEMMA LinkSerial ==
    ASSUME OneSlot, SerialInv, IndInv', NEW r \in Requests,
           \/ \E p \in Passwords : CreateRegisteredUser(r, p)
           \/ CreateInvitedUser(r) \/ revokeActiveTokens(r)
           \/ \E t \in Tokens : createToken(r, t)
    PROVE  SerialInv'
<1>0. /\ IndInv /\ LoginsWereCurrent' /\ req[r] \in Request /\ StillSo(req[r])
      /\ token \in [Tokens -> Link]
  BY Types, NoneOpened DEF SerialInv, IsLive, CreateRegisteredUser, CreateInvitedUser,
     revokeActiveTokens, createToken
<1>1. CASE (\E p \in Passwords : CreateRegisteredUser(r, p)) \/ CreateInvitedUser(r)
  <2>1. OneOutstandingLink'
    BY <1>1, SameRows DEF CreateRegisteredUser, CreateInvitedUser
  <2>2. ASSUME NEW purpose PROVE StillSo([at |-> "revokeTokens", purpose |-> purpose])'
    BY DEF StillSo
  <2>3. PICK purpose : Goto(r, Idle) \/ Goto(r, [at |-> "revokeTokens", purpose |-> purpose])
    BY <1>1 DEF CreateRegisteredUser, CreateInvitedUser
  <2> QED BY <1>0, <2>1, <2>2, <2>3, SlotSerial, DoneSerial
<1>2. CASE revokeActiveTokens(r)
  <2>1. PICK purpose \in Purposes : req[r] = [at |-> "revokeTokens", purpose |-> purpose]
    BY <1>0, <1>2 DEF revokeActiveTokens, At, Request
  <2>2. ASSUME NEW t \in Tokens
        PROVE  /\ token'[t].purpose = token[t].purpose
               /\ token'[t].state = IF t \in Outstanding(purpose) THEN "REVOKED"
                                    ELSE token[t].state
    BY <1>0, <1>2, <2>1 DEF revokeActiveTokens, Link
  <2>3. Outstanding(purpose)' = {}
    BY <2>2 DEF Outstanding
  <2>4. OneOutstandingLink'
    BY <2>2, NoneAdded DEF SerialInv, Outstanding
  <2> DEFINE next == [req[r] EXCEPT !.at = "insertToken"]
  <2>5. next.at = "insertToken" /\ next.purpose = purpose
    BY <2>1
  <2>6. Goto(r, next)
    BY <1>2 DEF revokeActiveTokens
  <2> HIDE DEF next
  <2>7. PICK later : later = next
    OBVIOUS
  <2>8. StillSo(later)'
    BY <2>3, <2>5, <2>7 DEF StillSo, Outstanding
  <2> QED BY <1>0, <2>4, <2>6, <2>7, <2>8, SlotSerial
<1>3. ASSUME NEW t \in Tokens, createToken(r, t) PROVE SerialInv'
  <2>1. PICK purpose \in Purposes : req[r].purpose = purpose /\ req[r].at = "insertToken"
    BY <1>0, <1>3 DEF createToken, At, Request
  <2>2. Outstanding(purpose) = {}
    BY <1>0, <2>1 DEF StillSo
  <2>3. /\ token'[t].purpose = purpose
        /\ \A u \in Tokens : u # t => token'[u] = token[u]
    BY <1>0, <1>3, <2>1 DEF createToken
  <2>4. ASSUME NEW other \in Purposes, NEW u \in Outstanding(other)', NEW v \in Outstanding(other)'
        PROVE  u = v
    <3>1. CASE other = purpose
      BY <2>2, <2>3, <3>1 DEF Outstanding
    <3>2. CASE other # purpose
      <4>1. u \in Outstanding(other) /\ v \in Outstanding(other)
        BY <2>3, <3>2 DEF Outstanding
      <4> QED BY <4>1 DEF SerialInv, OneOutstandingLink
    <3> QED BY <3>1, <3>2
  <2>5. OneOutstandingLink'
    BY <2>4 DEF OneOutstandingLink
  <2> QED BY <1>0, <1>3, <2>5, DoneSerial DEF createToken
<1> QED BY <1>1, <1>2, <1>3

(* A link is used: none of its kind is left.                                *)
LEMMA ClaimSerial ==
    ASSUME OneSlot, SerialInv, IndInv', NEW r \in Requests,
           ClaimVerification(r) \/ ClaimInvitedAccount(r) \/ ClaimReset(r)
    PROVE  SerialInv'
<1>0. IndInv /\ Goto(r, Idle) /\ token \in [Tokens -> Link]
  BY Types DEF SerialInv, ClaimVerification, ClaimInvitedAccount, ClaimReset
<1>1. LoginsWereCurrent'
  <2>1. UNCHANGED session \/ session' = Revoked(Sessions)
    BY DEF ClaimVerification, ClaimInvitedAccount, ClaimReset
  <2> QED BY <1>0, <2>1, RevokedCloses, NoneOpened DEF Closes, SerialInv, IsLive
<1>2. OneOutstandingLink'
  <2>1. CASE UNCHANGED token
    BY <2>1, NoneAdded DEF SerialInv, Outstanding
  <2>2. ASSUME NEW t, NEW purpose, token' = Spent(t, purpose) PROVE OneOutstandingLink'
    <3>1. ASSUME NEW u \in Tokens
          PROVE  /\ token'[u].purpose = token[u].purpose
                 /\ token'[u].state \in {token[u].state, "USED", "REVOKED"}
      BY <1>0, <2>2 DEF Spent, Link
    <3> QED BY <3>1, NoneAdded DEF SerialInv, Outstanding
  <2> QED BY <2>1, <2>2 DEF ClaimVerification, ClaimInvitedAccount, ClaimReset
<1> QED BY <1>0, <1>1, <1>2, DoneSerial

(* A login ends with a session that knows the present password.             *)
LEMMA SignInSerial ==
    ASSUME OneSlot, SerialInv, IndInv', NEW r \in Requests,
           LinkLocalAccount(r) \/ \E s \in Sessions : createAuthenticatedSession(r, s)
    PROVE  SerialInv'
<1>0. /\ IndInv /\ UNCHANGED token /\ req[r] \in Request /\ StillSo(req[r])
      /\ req[r].at \in {"link", "openSession"} /\ account \in Account
  BY Types DEF SerialInv, LinkLocalAccount, createAuthenticatedSession, At
<1>1. PICK p \in Passwords :
          /\ req[r].password = p /\ account.status = "ACTIVE" /\ account.password = p
          /\ req[r] = [at |-> req[r].at, password |-> p]
  BY <1>0 DEF Request, StillSo
<1>2. OneOutstandingLink'
  BY <1>0, NoneAdded DEF SerialInv, Outstanding
<1>3. CASE LinkLocalAccount(r)
  <2> DEFINE next == [req[r] EXCEPT !.at = "openSession"]
  <2>1. LoginsWereCurrent'
    BY <1>3, SameRows DEF LinkLocalAccount
  <2>2. account'.status = "ACTIVE" /\ account'.password = p
    BY <1>0, <1>1, <1>3 DEF LinkLocalAccount, Account
  <2>3. next.at = "openSession" /\ next.password = p
    BY <1>1
  <2>4. Goto(r, Idle) \/ Goto(r, next)
    BY <1>3 DEF LinkLocalAccount
  <2> HIDE DEF next
  <2>5. PICK later : later = next
    OBVIOUS
  <2>6. StillSo(later)'
    BY <2>2, <2>3, <2>5 DEF StillSo
  <2> QED BY <1>0, <1>2, <2>1, <2>4, <2>5, <2>6, SlotSerial, DoneSerial
<1>4. ASSUME NEW s \in Sessions, createAuthenticatedSession(r, s) PROVE SerialInv'
  <2>1. session'[s].known = p /\ \A o \in Sessions : o # s => session'[o] = session[o]
    BY <1>0, <1>1, <1>4, Types DEF createAuthenticatedSession
  <2>2. LoginsWereCurrent'
    BY <2>1, PasswordAssumption DEF SerialInv, LoginsWereCurrent, IsLive
  <2> QED BY <1>0, <1>2, <1>4, <2>2, DoneSerial DEF createAuthenticatedSession
<1> QED BY <1>3, <1>4

(* The rest of what goes on: sessions end, and the account changes.         *)
LEMMA EndSerial ==
    ASSUME OneSlot, SerialInv, IndInv', NEW r \in Requests,
           \/ TouchSession(r) \/ ExpireSession(r) \/ RevokeOne(r) \/ SignOut(r)
           \/ SetPassword(r) \/ DisableAccount(r) \/ SetStatus(r)
    PROVE  SerialInv'
<1>0. IndInv /\ UNCHANGED token /\ req[r] \in Request /\ LocalsAreSound(req[r])
  BY Types DEF SerialInv, IndInv, TouchSession, ExpireSession, RevokeOne, SignOut, SetPassword,
     DisableAccount, SetStatus
<1>1. OneOutstandingLink'
  BY <1>0, NoneAdded DEF SerialInv, Outstanding
<1>2. LoginsWereCurrent'
  <2>1. ASSUME NEW rows, Closes(rows) PROVE LoginsWereCurrent'
    BY <2>1, NoneOpened DEF Closes, SerialInv
  <2>2. CASE TouchSession(r) \/ SetStatus(r)
    BY <2>2, SameRows DEF TouchSession, SetStatus
  <2>3. CASE SignOut(r) \/ DisableAccount(r)
    BY <1>0, <2>1, <2>3, RevokedCloses DEF SignOut, DisableAccount
  <2>4. CASE ExpireSession(r) \/ RevokeOne(r)
    <3>1. req[r].session \in Sessions /\ session[req[r].session].status # "NONE"
      BY <1>0, <2>4 DEF ExpireSession, RevokeOne, At, Request, LocalsAreSound
    <3> QED BY <1>0, <2>1, <2>4, <3>1, OneCloses DEF ExpireSession, RevokeOne
  <2>5. CASE SetPassword(r)
    <3>1. PICK s \in Sessions, p \in Passwords :
              session' = Proves(Revoked(Sessions \ {s}), s, p)
      BY <1>0, <2>5 DEF SetPassword, At, Request
    <3>2. ASSUME NEW o \in Sessions, IsLive(o)' PROVE session'[o].known # NoPassword
      <4>1. CASE o = s
        <5>1. Revoked(Sessions \ {s})[s] = session[s] /\ session[s] \in Row
          BY Types, <1>0 DEF Revoked
        <5>2. session'[s] = [session[s] EXCEPT !.known =
                  IF session[s].status \in {"ACTIVE", "LAPSED"} THEN p ELSE @]
          BY <3>1, <5>1 DEF Proves, Revoked
        <5>3. session'[s].known = p
          BY <3>2, <4>1, <5>1, <5>2 DEF IsLive, Row
        <5> QED BY <4>1, <5>3, PasswordAssumption
      <4>2. CASE o # s
        <5>1. session'[o] = Revoked(Sessions \ {s})[o]
          BY <3>1, <4>2 DEF Proves, Revoked
        <5>2. session'[o] = session[o]
          BY <3>2, <4>2, <5>1 DEF Revoked, Closed, IsLive
        <5> QED BY <3>2, <5>2 DEF SerialInv, LoginsWereCurrent, IsLive
      <4> QED BY <4>1, <4>2
    <3> QED BY <3>2 DEF LoginsWereCurrent
  <2> QED BY <2>2, <2>3, <2>4, <2>5
<1>3. CASE SetStatus(r)
  <2>1. StillSo([at |-> "signOut", rows |-> Sessions, suspended |-> TRUE])'
    BY DEF StillSo
  <2> QED BY <1>0, <1>1, <1>2, <1>3, <2>1, SlotSerial, DoneSerial DEF SetStatus
<1>4. CASE ~SetStatus(r)
  BY <1>0, <1>1, <1>2, <1>4, DoneSerial DEF TouchSession, ExpireSession, RevokeOne, SignOut,
     SetPassword, DisableAccount
<1> QED BY <1>3, <1>4

(* The user is deleted.                                                     *)
LEMMA DeleteSerial ==
    ASSUME OneSlot, SerialInv, IndInv', NEW r \in Requests, DeleteRow(r)
    PROVE  SerialInv'
<1>1. LoginsWereCurrent' /\ OneOutstandingLink'
  BY DEF DeleteRow, LoginsWereCurrent, OneOutstandingLink, IsLive, Outstanding, NoSession,
     NoToken
<1>2. \A q \in Requests : req'[q] = Idle
  BY DEF DeleteRow, OneSlot
<1>3. ASSUME NEW q \in Requests PROVE StillSo(req[q])'
  BY <1>2 DEF StillSo, Idle
<1> QED BY <1>1, <1>3 DEF SerialInv

(* Time passes.                                                             *)
LEMMA LapseSerial ==
    ASSUME SerialInv, IndInv', \/ \E s \in Sessions : LapseSession(s)
                               \/ \E t \in Tokens : LapseToken(t)
    PROVE  SerialInv'
<1>0. UNCHANGED <<account, req>> /\ IndInv
  BY DEF LapseSession, LapseToken, SerialInv
<1>1. \A s \in Sessions : session'[s].known = session[s].known /\ (IsLive(s)' => IsLive(s))
  <2>1. ASSUME NEW s \in Sessions, LapseSession(s), NEW o \in Sessions
        PROVE  session'[o].known = session[o].known /\ (IsLive(o)' => IsLive(o))
    BY <1>0, <2>1, Types DEF LapseSession, Row, IsLive
  <2> QED BY <2>1 DEF LapseToken, IsLive
<1>2. \A purpose \in Purposes : Outstanding(purpose)' = Outstanding(purpose)
  <2>1. ASSUME NEW t \in Tokens, LapseToken(t), NEW u \in Tokens
        PROVE  /\ token'[u].purpose = token[u].purpose
               /\ token'[u].state \in {"USABLE", "LAPSED"} <=>
                      token[u].state \in {"USABLE", "LAPSED"}
    BY <1>0, <2>1, Types DEF LapseToken, Link
  <2>2. CASE UNCHANGED token
    BY <2>2 DEF Outstanding
  <2> QED BY <2>1, <2>2 DEF LapseSession, Outstanding
<1>3. LoginsWereCurrent' /\ OneOutstandingLink'
  BY <1>1, <1>2, NoneOpened, NoneAdded DEF SerialInv
<1>4. ASSUME NEW q \in Requests PROVE StillSo(req[q])'
  <2>1. PICK local \in Request : req[q] = local /\ StillSo(local)
    BY <1>0, Types DEF SerialInv
  <2>2. local.at = "insertToken" => local.purpose \in Purposes
    BY DEF Request
  <2>3. StillSo(local)'
    BY <1>0, <1>2, <2>1, <2>2 DEF StillSo
  <2> QED BY <1>0, <2>1, <2>3
<1> QED BY <1>3, <1>4 DEF SerialInv

LEMMA SerialStep ==
    ASSUME OneSlot, SerialInv, [Next]_vars
    PROVE  SerialInv'
<1>1. IndInv /\ IndInv'
  BY NextSound DEF SerialInv
<1>2. ASSUME NEW r \in Requests, Continue(r) PROVE SerialInv'
  BY <1>1, <1>2, LinkSerial, ClaimSerial, SignInSerial, EndSerial, DeleteSerial
     DEF Continue, PurgeUser
<1>3. ASSUME NEW r \in Requests, UndoInvitation(r) PROVE SerialInv'
  BY <1>1, <1>3, DeleteSerial DEF UndoInvitation
<1>4. ASSUME NEW r \in Requests, Crash(r) PROVE SerialInv'
  BY <1>1, <1>4, SameRows, DoneSerial DEF Crash
<1>5. CASE UNCHANGED vars
  BY <1>1, <1>5, SameRows DEF vars, SerialInv, StillSo, Outstanding
<1> QED BY <1>1, <1>2, <1>3, <1>4, <1>5, ArriveSerial, LapseSerial DEF Next

LEMMA SerialInit == Init => SerialInv
<1> SUFFICES ASSUME Init PROVE SerialInv
  OBVIOUS
<1>1. LoginsWereCurrent /\ OneOutstandingLink
  BY DEF Init, NoSession, NoToken, LoginsWereCurrent, OneOutstandingLink, IsLive, Outstanding
<1>2. ASSUME NEW r \in Requests PROVE StillSo(req[r])
  BY DEF Init, Idle, StillSo
<1> QED BY <1>1, <1>2, InitInv DEF SerialInv

(* Requests that do not overlap: whoever is signed in knows the password    *)
(* the account has now, and the account is active unless its suspension has *)
(* still to sign him out.  No exception for overtaken logins is left.       *)
SignedInRightly ==
    \A s \in Sessions : IsLive(s) =>
        /\ session[s].known = account.password /\ account.password # NoPassword
        /\ account.status = "ACTIVE" \/ SigningOut
THEOREM SerialSessions == ASSUME OneSlot PROVE Spec => []SignedInRightly
<1>1. SerialInv /\ [Next]_vars => SerialInv'
  BY SerialStep
<1>2. SerialInv => SignedInRightly
  BY DEF SerialInv, LoginsWereCurrent, IndInv, SessionsKnowThePassword,
     InactiveAccountsAreSignedOut, SignedInRightly
<1> QED BY <1>1, <1>2, SerialInit, PTL DEF Spec

(* And of the links of one kind one is outstanding: createToken's two       *)
(* statements are enough when nothing comes between them.                   *)
THEOREM SerialLinks == ASSUME OneSlot PROVE Spec => []OneOutstandingLink
<1>1. SerialInv /\ [Next]_vars => SerialInv'
  BY SerialStep
<1>2. SerialInv => OneOutstandingLink
  BY DEF SerialInv
<1> QED BY <1>1, <1>2, SerialInit, PTL DEF Spec
=============================================================================
