--------------------------- MODULE AccountAccess ---------------------------
(***************************************************************************)
(* One account of the platform - the user row of one e-mail address - and  *)
(* everything that opens or closes it: registration, the administrator's   *)
(* invitation, e-mail verification, password reset and change, login,      *)
(* refresh and logout, the account settings, and the staff that suspends,  *)
(* reactivates or purges it.                                               *)
(*                                                                         *)
(* A request waits in its slot of Requests between the read that checks it *)
(* and the write that follows (hashing a password alone takes that long).  *)
(* A request that needs a signed-in user starts with the guard's read of   *)
(* session and user.  Staff act on the account from accounts of their own. *)
(***************************************************************************)
EXTENDS Integers

CONSTANTS
    Requests,   \* slots for requests the API serves at the same time
    Sessions,   \* bound: the AuthSession rows there can ever be
    Tokens,     \* bound: the VerificationToken rows there can ever be
    Passwords,  \* passwords people choose
    NoPassword, \* User.passwordHash is null
    MaxFaults   \* bound: requests that die or fail half-way

ASSUME PasswordAssumption == NoPassword \notin Passwords
ASSUME FaultsAssumption == MaxFaults \in Nat

VARIABLES
    account,   \* the user row: status, verified, role, linked, password
    session,   \* status of each AuthSession row ("LAPSED" is ACTIVE past
               \* expiresAt) and, as history, what its holder proved to know
    token,     \* purpose and state of each VerificationToken row and, as
               \* history, how often its link had its effect (at most 2)
    faults,    \* faults so far
    lost,      \* history: a suspension died before it signed the user out
    req        \* per slot: where its request is, and its local variables

vars == <<account, session, token, faults, lost, req>>

(* SUSPENDED and DISABLED are one status here: no check tells them apart.  *)
UserStatus == {"PENDING_EMAIL_VERIFICATION", "ACTIVE", "INACTIVE"}
Pending == "PENDING_EMAIL_VERIFICATION"
Purposes == {"EMAIL_VERIFICATION", "PASSWORD_RESET", "PLATFORM_ADMIN_INVITATION"}
Roles == {"CONSUMER", "PLATFORM_ADMIN"}
NoAccount == [status |-> "NONE", verified |-> FALSE, role |-> "CONSUMER",
              linked |-> FALSE, password |-> NoPassword]
Account ==
    [status : UserStatus \cup {"NONE"}, verified : BOOLEAN, role : Roles,
     linked : BOOLEAN, password : Passwords \cup {NoPassword}]
SessionStates == {"NONE", "ACTIVE", "LAPSED", "REVOKED", "EXPIRED"}
TokenStates == {"NONE", "USABLE", "LAPSED", "USED", "REVOKED"}

NoSession == [status |-> "NONE", known |-> NoPassword]
NoToken == [purpose |-> "EMAIL_VERIFICATION", state |-> "NONE", acted |-> 0]

Idle == [at |-> "idle"]
Request ==
    [at : {"idle", "register", "invite", "delete", "purge"}]
    \cup [at : {"revokeTokens", "insertToken"}, purpose : Purposes]
    \cup [at : {"verify"}, token : Tokens]
    \cup [at : {"accept", "reset"}, token : Tokens, password : Passwords]
    \cup [at : {"link", "openSession"}, password : Passwords]
    \cup [at : {"touch", "expire", "revokeOne"}, session : Sessions]
    \cup [at : {"signOut"}, rows : SUBSET Sessions, suspended : BOOLEAN]
    \cup [at : {"change"}, session : Sessions, password : Passwords]
    \cup [at : {"setStatus"}, status : UserStatus]

TypeOK ==
    /\ account \in Account
    /\ session \in [Sessions -> [status : SessionStates, known : Passwords \cup {NoPassword}]]
    /\ token \in [Tokens -> [purpose : Purposes, state : TokenStates, acted : 0 .. 2]]
    /\ faults \in 0 .. MaxFaults
    /\ lost \in BOOLEAN
    /\ req \in [Requests -> Request]

Init ==
    /\ account = NoAccount
    /\ session = [s \in Sessions |-> NoSession]
    /\ token = [t \in Tokens |-> NoToken]
    /\ faults = 0
    /\ lost = FALSE
    /\ req = [r \in Requests |-> Idle]

-----------------------------------------------------------------------------
(* Helpers.                                                                *)

At(r, place) == req[r].at = place
Goto(r, next) == req' = [req EXCEPT ![r] = next]
Start(r, next) == At(r, "idle") /\ Goto(r, next)
Many(n) == IF n < 2 THEN n + 1 ELSE 2

(* updateMany({ status: ACTIVE }) also finds the rows past their expiry.   *)
IsLive(s) == session[s].status \in {"ACTIVE", "LAPSED"}
Closed(status) == [status |-> status, known |-> NoPassword]
Revoked(rows) ==
    [s \in Sessions |-> IF s \in rows /\ IsLive(s) THEN Closed("REVOKED") ELSE session[s]]

(* The rows with usedAt and revokedAt null, of one purpose.                *)
Outstanding(purpose) ==
    {t \in Tokens : token[t].purpose = purpose /\ token[t].state \in {"USABLE", "LAPSED"}}
Spent(t, purpose) ==
    [u \in Tokens |->
        IF u = t THEN [token[u] EXCEPT !.state = "USED", !.acted = Many(@)]
        ELSE IF u \in Outstanding(purpose) THEN [token[u] EXCEPT !.state = "REVOKED"]
        ELSE token[u]]

findUsableToken(t, purpose) ==
    token[t].purpose = purpose /\ token[t].state = "USABLE"

(* JwtAuthGuard: the session and its user are read together.               *)
canActivate(s) == session[s].status = "ACTIVE" /\ account.status = "ACTIVE"

-----------------------------------------------------------------------------
(* Where an account comes from, and its links.                             *)

(* register and invitePlatformAdmin find no user with the address ...      *)
register(r) ==
    /\ account.status = "NONE"
    /\ Start(r, [at |-> "register"])
    /\ UNCHANGED <<account, session, token, faults, lost>>

invitePlatformAdmin(r) ==
    /\ account.status = "NONE"
    /\ Start(r, [at |-> "invite"])
    /\ UNCHANGED <<account, session, token, faults, lost>>

(* ... and create one, unless the address was taken meanwhile (it is       *)
(* unique).  A registration links the local login method at once, an       *)
(* invited administrator gets a password when accepting.                   *)
CreateRegisteredUser(r, p) ==
    /\ At(r, "register")
    /\ IF account.status = "NONE"
       THEN /\ account' = [status |-> Pending, verified |-> FALSE, role |-> "CONSUMER",
                           linked |-> TRUE, password |-> p]
            /\ Goto(r, [at |-> "revokeTokens", purpose |-> "EMAIL_VERIFICATION"])
       ELSE UNCHANGED account /\ Goto(r, Idle)
    /\ UNCHANGED <<session, token, faults, lost>>

CreateInvitedUser(r) ==
    /\ At(r, "invite")
    /\ IF account.status = "NONE"
       THEN /\ account' = [NoAccount EXCEPT !.status = Pending, !.role = "PLATFORM_ADMIN"]
            /\ Goto(r, [at |-> "revokeTokens", purpose |-> "PLATFORM_ADMIN_INVITATION"])
       ELSE UNCHANGED account /\ Goto(r, Idle)
    /\ UNCHANGED <<session, token, faults, lost>>

resendEmailVerification(r) ==
    /\ account.status = Pending /\ ~account.verified
    /\ Start(r, [at |-> "revokeTokens", purpose |-> "EMAIL_VERIFICATION"])
    /\ UNCHANGED <<account, session, token, faults, lost>>

forgotPassword(r) ==
    /\ account.status \in {Pending, "ACTIVE"}
    /\ Start(r, [at |-> "revokeTokens", purpose |-> "PASSWORD_RESET"])
    /\ UNCHANGED <<account, session, token, faults, lost>>

(* createToken: the older tokens are revoked ...                           *)
revokeActiveTokens(r) ==
    /\ At(r, "revokeTokens")
    /\ token' = [t \in Tokens |->
            IF t \in Outstanding(req[r].purpose)
            THEN [token[t] EXCEPT !.state = "REVOKED"] ELSE token[t]]
    /\ Goto(r, [req[r] EXCEPT !.at = "insertToken"])
    /\ UNCHANGED <<account, session, faults, lost>>

(* ... and the new one is inserted, in a statement of its own.             *)
createToken(r, t) ==
    /\ At(r, "insertToken")
    /\ token[t].state = "NONE"
    /\ token' = [token EXCEPT ![t] = [purpose |-> req[r].purpose, state |-> "USABLE", acted |-> 0]]
    /\ Goto(r, Idle)
    /\ UNCHANGED <<account, session, faults, lost>>

(* The row of the account is deleted: its sessions and links go with it,   *)
(* and what is under way for that row comes to nothing (its writes find no *)
(* row), except for requests that are about to create the user.            *)
DeleteRow(r) ==
    /\ account' = NoAccount
    /\ session' = [s \in Sessions |-> NoSession]
    /\ token' = [t \in Tokens |-> NoToken]
    /\ lost' = FALSE
    /\ req' = [q \in Requests |->
            IF q # r /\ req[q].at \in {"register", "invite"} THEN req[q] ELSE Idle]

(* invitePlatformAdmin deletes the user it created when the token fails.   *)
UndoInvitation(r) ==
    /\ req[r].at \in {"revokeTokens", "insertToken"}
    /\ req[r].purpose = "PLATFORM_ADMIN_INVITATION"
    /\ faults < MaxFaults
    /\ faults' = faults + 1
    /\ DeleteRow(r)

-----------------------------------------------------------------------------
(* Using a link: it is found usable, then claimed in a transaction.        *)

verifyEmail(r, t) ==
    /\ findUsableToken(t, "EMAIL_VERIFICATION")
    /\ Start(r, [at |-> "verify", token |-> t])
    /\ UNCHANGED <<account, session, token, faults, lost>>

(* Mutant: the account is activated although the link was used or replaced *)
(* since it was found.                                                     *)
VerifyWithoutClaim(r) ==
    /\ At(r, "verify")
    /\ LET t == req[r].token IN
       token' = IF findUsableToken(t, "EMAIL_VERIFICATION")
                THEN Spent(t, "EMAIL_VERIFICATION") ELSE token
    /\ account' = [account EXCEPT !.status = "ACTIVE", !.verified = TRUE]
    /\ Goto(r, Idle)
    /\ UNCHANGED <<session, faults, lost>>

ClaimVerification(r) ==
    /\ At(r, "verify")
    /\ LET t == req[r].token IN
       IF findUsableToken(t, "EMAIL_VERIFICATION")
       THEN /\ token' = Spent(t, "EMAIL_VERIFICATION")
            /\ account' = [account EXCEPT !.status = "ACTIVE", !.verified = TRUE]
       ELSE UNCHANGED <<token, account>>
    /\ Goto(r, Idle)
    /\ UNCHANGED <<session, faults, lost>>

acceptPlatformAdminInvitation(r, t, p) ==
    /\ findUsableToken(t, "PLATFORM_ADMIN_INVITATION")
    /\ account.role = "PLATFORM_ADMIN" /\ account.status = Pending
    /\ Start(r, [at |-> "accept", token |-> t, password |-> p])
    /\ UNCHANGED <<account, session, token, faults, lost>>

(* Mutant: a login method that is linked already is taken over.            *)
ClaimLinkedAccount(r) ==
    /\ At(r, "accept")
    /\ LET t == req[r].token IN
       IF findUsableToken(t, "PLATFORM_ADMIN_INVITATION")
       THEN /\ token' = Spent(t, "PLATFORM_ADMIN_INVITATION")
            /\ account' = [account EXCEPT !.status = "ACTIVE", !.verified = TRUE,
                                          !.linked = TRUE, !.password = req[r].password]
       ELSE UNCHANGED <<token, account>>
    /\ Goto(r, Idle)
    /\ UNCHANGED <<session, faults, lost>>

(* The transaction also links the local login method, which fails if a     *)
(* login has linked it already.                                            *)
ClaimInvitedAccount(r) ==
    /\ At(r, "accept")
    /\ LET t == req[r].token IN
       IF findUsableToken(t, "PLATFORM_ADMIN_INVITATION") /\ ~account.linked
       THEN /\ token' = Spent(t, "PLATFORM_ADMIN_INVITATION")
            /\ account' = [account EXCEPT !.status = "ACTIVE", !.verified = TRUE,
                                          !.linked = TRUE, !.password = req[r].password]
       ELSE UNCHANGED <<token, account>>
    /\ Goto(r, Idle)
    /\ UNCHANGED <<session, faults, lost>>

resetPassword(r, t, p) ==
    /\ findUsableToken(t, "PASSWORD_RESET")
    /\ account.status \in {Pending, "ACTIVE"}
    /\ Start(r, [at |-> "reset", token |-> t, password |-> p])
    /\ UNCHANGED <<account, session, token, faults, lost>>

(* Mutant: the transaction sets the password without claiming the token.   *)
ResetWithoutClaim(r) ==
    /\ At(r, "reset")
    /\ token' = Spent(req[r].token, "PASSWORD_RESET")
    /\ account' = [account EXCEPT !.password = req[r].password]
    /\ session' = Revoked(Sessions)
    /\ Goto(r, Idle)
    /\ UNCHANGED <<faults, lost>>

(* (The expiry is compared with a time taken before the new password was   *)
(* hashed, so a link that lapsed since then may still be accepted.)        *)
ClaimReset(r) ==
    /\ At(r, "reset")
    /\ LET t == req[r].token IN
       \/ /\ t \in Outstanding("PASSWORD_RESET")
          /\ token' = Spent(t, "PASSWORD_RESET")
          /\ account' = [account EXCEPT !.password = req[r].password]
          /\ session' = Revoked(Sessions)
       \/ /\ ~findUsableToken(t, "PASSWORD_RESET")
          /\ UNCHANGED <<token, account, session>>
    /\ Goto(r, Idle)
    /\ UNCHANGED <<faults, lost>>

-----------------------------------------------------------------------------
(* Login sessions.                                                         *)

login(r, p) ==
    /\ account.status = "ACTIVE" /\ account.password = p
    /\ Start(r, [at |-> IF account.linked THEN "openSession" ELSE "link", password |-> p])
    /\ UNCHANGED <<account, session, token, faults, lost>>

(* The local login method is linked first if it was not; its row is unique *)
LinkLocalAccount(r) ==
    /\ At(r, "link")
    /\ account' = [account EXCEPT !.linked = TRUE]
    /\ Goto(r, IF account.linked THEN Idle ELSE [req[r] EXCEPT !.at = "openSession"])
    /\ UNCHANGED <<session, token, faults, lost>>

(* Nothing read before is looked at again.  (The row's `known` stays empty *)
(* when the account has changed since the password was checked.)           *)
createAuthenticatedSession(r, s) ==
    /\ At(r, "openSession")
    /\ session[s].status = "NONE"
    /\ session' = [session EXCEPT ![s] = [status |-> "ACTIVE", known |->
            IF account.status = "ACTIVE" /\ account.password = req[r].password
            THEN req[r].password ELSE NoPassword]]
    /\ Goto(r, Idle)
    /\ UNCHANGED <<account, token, faults, lost>>

(* refresh: a lapsed session is marked, a good one is touched and answered *)
refresh(r, s) ==
    /\ \/ session[s].status = "LAPSED" /\ Start(r, [at |-> "expire", session |-> s])
       \/ canActivate(s) /\ Start(r, [at |-> "touch", session |-> s])
    /\ UNCHANGED <<account, session, token, faults, lost>>

(* Mutant: the refresh writes back the status it read.                     *)
TouchRestoresSession(r) ==
    /\ At(r, "touch")
    /\ session' = [session EXCEPT ![req[r].session].status = "ACTIVE"]
    /\ Goto(r, Idle)
    /\ UNCHANGED <<account, token, faults, lost>>

(* The update writes lastUsedAt only.                                      *)
TouchSession(r) ==
    /\ At(r, "touch")
    /\ Goto(r, Idle)
    /\ UNCHANGED <<account, session, token, faults, lost>>

(* Updated by id: a row revoked since it was read becomes EXPIRED.         *)
ExpireSession(r) ==
    /\ At(r, "expire")
    /\ session' = [session EXCEPT ![req[r].session] = Closed("EXPIRED")]
    /\ Goto(r, Idle)
    /\ UNCHANGED <<account, token, faults, lost>>

(* logout, of this session or of all of them.                              *)
logout(r, s) ==
    /\ canActivate(s)
    /\ \E rows \in {{s}, Sessions} :
          Start(r, [at |-> "signOut", rows |-> rows, suspended |-> FALSE])
    /\ UNCHANGED <<account, session, token, faults, lost>>

(* changePassword, which asks for the current password.                    *)
changePassword(r, s, p) ==
    /\ canActivate(s) /\ account.password \notin {NoPassword, p}
    /\ Start(r, [at |-> "change", session |-> s, password |-> p])
    /\ UNCHANGED <<account, session, token, faults, lost>>

(* The holder of a session that is still live has proved the new password. *)
Proves(rows, s, p) ==
    [rows EXCEPT ![s].known = IF rows[s].status \in {"ACTIVE", "LAPSED"} THEN p ELSE @]

(* Mutant: the other sessions stay signed in.                              *)
ChangeWithoutRevocation(r) ==
    /\ At(r, "change")
    /\ account' = [account EXCEPT !.password = req[r].password]
    /\ session' = Proves(session, req[r].session, req[r].password)
    /\ Goto(r, Idle)
    /\ UNCHANGED <<token, faults, lost>>

(* One transaction: the new password, and the other sessions revoked.      *)
SetPassword(r) ==
    /\ At(r, "change")
    /\ account' = [account EXCEPT !.password = req[r].password]
    /\ session' = Proves(Revoked(Sessions \ {req[r].session}),
                         req[r].session, req[r].password)
    /\ Goto(r, Idle)
    /\ UNCHANGED <<token, faults, lost>>

-----------------------------------------------------------------------------
(* Account settings.                                                       *)

revokeAuthSession(r, s, other) ==
    /\ canActivate(s) /\ other # s /\ IsLive(other)
    /\ Start(r, [at |-> "revokeOne", session |-> other])
    /\ UNCHANGED <<account, session, token, faults, lost>>

(* Updated by id: a row that has expired since becomes REVOKED.            *)
RevokeOne(r) ==
    /\ At(r, "revokeOne")
    /\ session' = [session EXCEPT ![req[r].session] = Closed("REVOKED")]
    /\ Goto(r, Idle)
    /\ UNCHANGED <<account, token, faults, lost>>

revokeOtherAuthSessions(r, s) ==
    /\ canActivate(s)
    /\ Start(r, [at |-> "signOut", rows |-> Sessions \ {s}, suspended |-> FALSE])
    /\ UNCHANGED <<account, session, token, faults, lost>>

(* deleteAccount asks for the password and refuses platform administrators *)
deleteAccount(r, s) ==
    /\ canActivate(s)
    /\ account.role # "PLATFORM_ADMIN" /\ account.password # NoPassword
    /\ Start(r, [at |-> "delete"])
    /\ UNCHANGED <<account, session, token, faults, lost>>

DisableAccount(r) ==
    /\ At(r, "delete")
    /\ account' = [account EXCEPT !.status = "INACTIVE", !.password = NoPassword]
    /\ session' = Revoked(Sessions)
    /\ Goto(r, Idle)
    /\ UNCHANGED <<token, faults, lost>>

-----------------------------------------------------------------------------
(* Staff.                                                                  *)

updateUserStatus(r, status) ==
    /\ account.status # "NONE"
    /\ Start(r, [at |-> "setStatus", status |-> status])
    /\ UNCHANGED <<account, session, token, faults, lost>>

(* Mutant: the sessions of a suspended user are left alone.                *)
SetStatusOnly(r) ==
    /\ At(r, "setStatus")
    /\ account' = [account EXCEPT !.status = req[r].status]
    /\ Goto(r, Idle)
    /\ UNCHANGED <<session, token, faults, lost>>

SetStatus(r) ==
    /\ At(r, "setStatus")
    /\ account' = [account EXCEPT !.status = req[r].status]
    /\ Goto(r, IF req[r].status = "ACTIVE" THEN Idle
               ELSE [at |-> "signOut", rows |-> Sessions, suspended |-> TRUE])
    /\ UNCHANGED <<session, token, faults, lost>>

revokeAdminSessions(r) ==
    /\ account.status # "NONE" /\ account.role = "PLATFORM_ADMIN"
    /\ Start(r, [at |-> "signOut", rows |-> Sessions, suspended |-> FALSE])
    /\ UNCHANGED <<account, session, token, faults, lost>>

(* The revocation of logout, revokeOtherAuthSessions, revokeAdminSessions  *)
(* and updateUserStatus: one updateMany over the rows still live.          *)
SignOut(r) ==
    /\ At(r, "signOut")
    /\ session' = Revoked(req[r].rows)
    /\ lost' = (lost /\ req[r].rows # Sessions)
    /\ Goto(r, Idle)
    /\ UNCHANGED <<account, token, faults>>

permanentlyDeleteUser(r) ==
    /\ account.status # "NONE"
    /\ Start(r, [at |-> "purge"])
    /\ UNCHANGED <<account, session, token, faults, lost>>

PurgeUser(r) ==
    /\ At(r, "purge")
    /\ DeleteRow(r)
    /\ UNCHANGED faults

-----------------------------------------------------------------------------
(* Environment.                                                            *)

LapseSession(s) ==
    /\ session[s].status = "ACTIVE"
    /\ session' = [session EXCEPT ![s].status = "LAPSED"]
    /\ UNCHANGED <<account, token, faults, lost, req>>

LapseToken(t) ==
    /\ token[t].state = "USABLE"
    /\ token' = [token EXCEPT ![t].state = "LAPSED"]
    /\ UNCHANGED <<account, session, faults, lost, req>>

Crash(r) ==
    /\ ~At(r, "idle")
    /\ faults < MaxFaults
    /\ faults' = faults + 1
    /\ lost' = (lost \/ (At(r, "signOut") /\ req[r].suspended))
    /\ Goto(r, Idle)
    /\ UNCHANGED <<account, session, token>>

Arrive(r) ==
    \/ register(r) \/ invitePlatformAdmin(r)
    \/ resendEmailVerification(r) \/ forgotPassword(r)
    \/ \E t \in Tokens :
          \/ verifyEmail(r, t)
          \/ \E p \in Passwords :
                acceptPlatformAdminInvitation(r, t, p) \/ resetPassword(r, t, p)
    \/ \E p \in Passwords : login(r, p)
    \/ \E s \in Sessions :
          \/ refresh(r, s) \/ logout(r, s)
          \/ revokeOtherAuthSessions(r, s) \/ deleteAccount(r, s)
          \/ \E p \in Passwords : changePassword(r, s, p)
          \/ \E other \in Sessions : revokeAuthSession(r, s, other)
    \/ \E status \in UserStatus : updateUserStatus(r, status)
    \/ revokeAdminSessions(r) \/ permanentlyDeleteUser(r)

Continue(r) ==
    \/ \E p \in Passwords : CreateRegisteredUser(r, p)
    \/ CreateInvitedUser(r)
    \/ revokeActiveTokens(r)
    \/ \E t \in Tokens : createToken(r, t)
    \/ ClaimVerification(r) \/ ClaimInvitedAccount(r) \/ ClaimReset(r)
    \/ LinkLocalAccount(r)
    \/ \E s \in Sessions : createAuthenticatedSession(r, s)
    \/ TouchSession(r) \/ ExpireSession(r) \/ SetPassword(r)
    \/ RevokeOne(r) \/ SignOut(r) \/ DisableAccount(r)
    \/ SetStatus(r) \/ PurgeUser(r)

Next ==
    \/ \E r \in Requests : Arrive(r) \/ Continue(r) \/ UndoInvitation(r) \/ Crash(r)
    \/ \E s \in Sessions : LapseSession(s)
    \/ \E t \in Tokens : LapseToken(t)

Spec == Init /\ [][Next]_vars

-----------------------------------------------------------------------------
(* What holds however requests overlap and crash.                          *)

(* Whoever is signed in knows the present password: a change or a reset    *)
(* signs out everybody else, whatever runs beside it.  The one exception   *)
(* is a login that was already past its password check.                    *)
SessionsKnowThePassword ==
    \A s \in Sessions : IsLive(s) => session[s].known \in {account.password, NoPassword}

(* An account that is not active keeps no session for its reactivation to  *)
(* bring back, unless a login overlapped, or the suspension is just about  *)
(* to revoke them or died before it could.                                 *)
SigningOut == lost \/ \E r \in Requests : At(r, "signOut") /\ req[r].suspended
InactiveAccountsAreSignedOut ==
    account.status # "ACTIVE" =>
        SigningOut \/ \A s \in Sessions : IsLive(s) => session[s].known = NoPassword

(* A mailed link works once: two requests that both found it usable do not *)
(* both act on it, and a link that acted is spent.                         *)
LinksActOnce ==
    \A t \in Tokens :
        token[t].acted <= 1 /\ (token[t].acted = 1 => token[t].state = "USED")

(* What a request that is under way may rely on, and the rest of what the  *)
(* invariants above need to be inductive.                                  *)
LocalsAreSound(local) ==
    /\ local.at \notin {"idle", "register", "invite"} => account.status # "NONE"
    /\ local.at \in {"touch", "expire", "revokeOne", "change"} =>
            session[local.session].status # "NONE"
    /\ local.at = "openSession" => account.linked
    /\ local.at = "expire" => session[local.session].status # "ACTIVE"
    /\ local.at = "change" =>
            account.status = "ACTIVE" \/ SigningOut \/ ~IsLive(local.session)
    /\ local.at = "signOut" => (local.suspended => local.rows = Sessions)

(* Sound locals, the invariants, and: an account has a session only once   *)
(* its login method is linked, which also closes its invitation.           *)
IndInv ==
    /\ TypeOK
    /\ SessionsKnowThePassword
    /\ InactiveAccountsAreSignedOut
    /\ LinksActOnce
    /\ account.status = "NONE" => ~account.linked
    /\ \A s \in Sessions : session[s].status # "NONE" => account.linked
    /\ \A t \in Tokens : token[t].state # "NONE" => account.status # "NONE"
    /\ \A r \in Requests : LocalsAreSound(req[r])

(* No step signs a closed session in again: only the deletion of the user  *)
(* takes its row away.                                                     *)
ClosedSessionsStayClosed ==
    [][\A s \in Sessions : session[s].status \in {"REVOKED", "EXPIRED"} =>
            session'[s].status \in {"REVOKED", "EXPIRED", "NONE"}]_vars

-----------------------------------------------------------------------------
(* The account as an implementation of AccountContract: every step of a    *)
(* request is one step of the contract, or none.                           *)
StandingOf(row) ==
    CASE row.status = Pending    -> "PENDING"
      [] row.status = "ACTIVE"   -> "OPEN"
      [] row.status = "INACTIVE" -> "BARRED"
      [] row.status = "NONE"     -> "NONE"

Contract == INSTANCE AccountContract WITH
    standing <- StandingOf(account),
    password <- account.password,
    in <- {s \in Sessions : IsLive(s)},
    out <- {s \in Sessions : session[s].status \in {"REVOKED", "EXPIRED"}},
    good <- {t \in Tokens : token[t].state \in {"USABLE", "LAPSED"}},
    spent <- {t \in Tokens : token[t].state \in {"USED", "REVOKED"}},
    orders <- {StandingOf(req[r]) : r \in {q \in Requests : At(q, "setStatus")}}

(* What AccountContract promises is kept however requests overlap and die. *)
ImplementsContract == Contract!Spec
=============================================================================
