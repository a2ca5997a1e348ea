------------------------ MODULE InvitationAdmission ------------------------
(***************************************************************************)
(* The invitations of one campaign to one e-mail address, and who gets in  *)
(* through them: employers create, extend and cancel, the candidate opens  *)
(* the link, registers an account or sits the assessment as a token-only   *)
(* applicant.                                                              *)
(*                                                                         *)
(* POST sessions/invitation passes no user id to                           *)
(* createSessionFromInvitation, so the branches of a signed-in candidate   *)
(* have no caller and are left out.  The campaign is active with an active *)
(* form throughout.  As in SessionLifecycle a request waits in its slot at *)
(* every await, and what it read before is its local state.                *)
(***************************************************************************)
EXTENDS Integers, FiniteSets

CONSTANTS
    Requests,    \* slots for requests the API serves at the same time
    Invitations, \* bound: the invitation rows there can ever be
    MaxTime,     \* bound: the clock stops here
    MaxFaults    \* bound: crashed requests

ASSUME BoundsAssumption == MaxTime \in Nat /\ MaxFaults \in Nat

VARIABLES
    status,    \* Invitation.status, "NONE" when there is no row
    expiresAt, \* Invitation.expiresAt
    assigned,  \* Invitation.candidateUserId is set
    used,      \* Invitation.usedAt is set
    sessions,  \* sessions of the invitation (2 stands for two or more)
    account,   \* the candidate account of the e-mail address
    now,       \* the clock
    faults,    \* crashes so far
    req        \* per slot: where its request is, and its local variables

rowVars == <<status, expiresAt, assigned, used>>
vars == <<rowVars, sessions, account, now, faults, req>>

Never == -1  \* a null timestamp
Times == {Never} \cup 0 .. MaxTime
InvitationStatus == {"PENDING", "ACCEPTED", "EXPIRED", "CANCELLED"}
Open == {"PENDING", "ACCEPTED"}
Accounts == {"NONE", "EXISTING", "REGISTERED"}

Idle == [at |-> "idle"]
Request ==
    [at : {"idle"}]
    \cup [at : {"insert"}, assigned : BOOLEAN, expiresAt : Times]
    \cup [at : {"findSession"}, inv : Invitations, seen : Open]
    \cup [at : {"accept", "createSession", "expire", "claim", "cancel"},
          inv : Invitations]
    \cup [at : {"extend"}, inv : Invitations, expiresAt : Times, status : Open]

TypeOK ==
    /\ status \in [Invitations -> InvitationStatus \cup {"NONE"}]
    /\ expiresAt \in [Invitations -> Times]
    /\ assigned \in [Invitations -> BOOLEAN]
    /\ used \in [Invitations -> BOOLEAN]
    /\ sessions \in [Invitations -> 0 .. 2]
    /\ account \in Accounts
    /\ now \in 0 .. MaxTime /\ faults \in 0 .. MaxFaults
    /\ req \in [Requests -> Request]

Init ==
    /\ status = [v \in Invitations |-> "NONE"]
    /\ expiresAt = [v \in Invitations |-> Never]
    /\ assigned = [v \in Invitations |-> FALSE]
    /\ used = [v \in Invitations |-> FALSE]
    /\ sessions = [v \in Invitations |-> 0]
    /\ account \in {"NONE", "EXISTING"}
    /\ now = 0 /\ faults = 0
    /\ req = [r \in Requests |-> Idle]

At(r, place) == req[r].at = place
Goto(r, next) == req' = [req EXCEPT ![r] = next]
Many(n) == IF n < 2 THEN n + 1 ELSE 2

HasExpired(v) == expiresAt[v] # Never /\ expiresAt[v] < now
Free == {v \in Invitations : status[v] = "NONE"}

-----------------------------------------------------------------------------
(* The employer's operations.                                              *)

(* Mutant: only a pending invitation stands in the way of another one.     *)
CreateBesideAccepted(r, toAccount, expiry) ==
    /\ At(r, "idle")
    /\ \A v \in Invitations : status[v] # "PENDING"
    /\ toAccount => account # "NONE"
    /\ expiry = Never \/ expiry > now
    /\ Cardinality(Free) > Cardinality({q \in Requests : At(q, "insert")})
    /\ Goto(r, [at |-> "insert", assigned |-> toAccount, expiresAt |-> expiry])
    /\ UNCHANGED <<rowVars, sessions, account, now, faults>>

(* createInvitation: refused while an open invitation exists.  An account  *)
(* of the candidate can be assigned right away.  (Bound: a row is left for *)
(* every insertion under way.)                                             *)
createInvitation(r, toAccount, expiry) ==
    /\ At(r, "idle")
    /\ \A v \in Invitations : status[v] \notin Open
    /\ toAccount => account # "NONE"
    /\ expiry = Never \/ expiry > now
    /\ Cardinality(Free) > Cardinality({q \in Requests : At(q, "insert")})
    /\ Goto(r, [at |-> "insert", assigned |-> toAccount, expiresAt |-> expiry])
    /\ UNCHANGED <<rowVars, sessions, account, now, faults>>

InsertInvitation(r, v) ==
    /\ At(r, "insert")
    /\ v \in Free
    /\ status' = [status EXCEPT ![v] = "PENDING"]
    /\ expiresAt' = [expiresAt EXCEPT ![v] = req[r].expiresAt]
    /\ assigned' = [assigned EXCEPT ![v] = req[r].assigned]
    /\ Goto(r, Idle)
    /\ UNCHANGED <<used, sessions, account, now, faults>>

(* Mutant: an invitation with a session can be extended too.               *)
ExtendAnyInvitation(r, v, expiry) ==
    /\ At(r, "idle")
    /\ status[v] \in {"PENDING", "ACCEPTED", "EXPIRED"}
    /\ expiry > now
    /\ Goto(r, [at |-> "extend", inv |-> v, expiresAt |-> expiry,
                status |-> IF status[v] = "EXPIRED" THEN "PENDING" ELSE status[v]])
    /\ UNCHANGED <<rowVars, sessions, account, now, faults>>

(* Mutant: a cancelled invitation is reopened like an expired one.         *)
ReopenInvitation(r, v, expiry) ==
    /\ At(r, "idle")
    /\ status[v] \in InvitationStatus
    /\ sessions[v] = 0
    /\ expiry > now
    /\ Goto(r, [at |-> "extend", inv |-> v, expiresAt |-> expiry,
                status |-> IF status[v] \in Open THEN status[v] ELSE "PENDING"])
    /\ UNCHANGED <<rowVars, sessions, account, now, faults>>

(* extendInvitation: an expired invitation becomes pending again, any      *)
(* other keeps the status that was read.                                   *)
extendInvitation(r, v, expiry) ==
    /\ At(r, "idle")
    /\ status[v] \in {"PENDING", "ACCEPTED", "EXPIRED"}
    /\ sessions[v] = 0
    /\ expiry > now
    /\ Goto(r, [at |-> "extend", inv |-> v, expiresAt |-> expiry,
                status |-> IF status[v] = "EXPIRED" THEN "PENDING" ELSE status[v]])
    /\ UNCHANGED <<rowVars, sessions, account, now, faults>>

(* Mutant: the new expiry is added to the old one.                         *)
ProlongExpiry(r) ==
    /\ At(r, "extend")
    /\ expiresAt' = [expiresAt EXCEPT ![req[r].inv] = @ + req[r].expiresAt]
    /\ status' = [status EXCEPT ![req[r].inv] = req[r].status]
    /\ Goto(r, Idle)
    /\ UNCHANGED <<assigned, used, sessions, account, now, faults>>

UpdateExpiry(r) ==
    /\ At(r, "extend")
    /\ expiresAt' = [expiresAt EXCEPT ![req[r].inv] = req[r].expiresAt]
    /\ status' = [status EXCEPT ![req[r].inv] = req[r].status]
    /\ Goto(r, Idle)
    /\ UNCHANGED <<assigned, used, sessions, account, now, faults>>

cancelInvitation(r, v) ==
    /\ At(r, "idle")
    /\ status[v] \in Open
    /\ sessions[v] = 0
    /\ Goto(r, [at |-> "cancel", inv |-> v])
    /\ UNCHANGED <<rowVars, sessions, account, now, faults>>

MarkCancelled(r) ==
    /\ At(r, "cancel")
    /\ status' = [status EXCEPT ![req[r].inv] = "CANCELLED"]
    /\ Goto(r, Idle)
    /\ UNCHANGED <<expiresAt, assigned, used, sessions, account, now, faults>>

-----------------------------------------------------------------------------
(* The candidate's operations.                                             *)

(* validateInvitation, which the landing page calls: it expires an open    *)
(* invitation past its date, an accepted one too, and else changes nothing *)
validateInvitation(r, v) ==
    /\ At(r, "idle")
    /\ status[v] \in Open
    /\ HasExpired(v)
    /\ Goto(r, [at |-> "expire", inv |-> v])
    /\ UNCHANGED <<rowVars, sessions, account, now, faults>>

(* The update to EXPIRED that three handlers make on what they read.       *)
MarkExpired(r) ==
    /\ At(r, "expire")
    /\ status' = [status EXCEPT ![req[r].inv] = "EXPIRED"]
    /\ Goto(r, Idle)
    /\ UNCHANGED <<expiresAt, assigned, used, sessions, account, now, faults>>

(* registerCandidate: for a pending, unassigned invitation to an address   *)
(* without an account; one transaction creates the account and claims the  *)
(* invitation, or does neither.                                            *)
registerCandidate(r, v) ==
    /\ At(r, "idle")
    /\ status[v] = "PENDING" /\ ~assigned[v]
    /\ \/ HasExpired(v) /\ Goto(r, [at |-> "expire", inv |-> v])
       \/ ~HasExpired(v) /\ account = "NONE" /\ Goto(r, [at |-> "claim", inv |-> v])
    /\ UNCHANGED <<rowVars, sessions, account, now, faults>>

(* Mutant: the claim that fails does not roll the account back.            *)
KeepUnclaimedAccount(r) ==
    /\ At(r, "claim")
    /\ account' = "REGISTERED"
    /\ IF status[req[r].inv] = "PENDING" /\ ~assigned[req[r].inv] /\ account = "NONE"
       THEN /\ assigned' = [assigned EXCEPT ![req[r].inv] = TRUE]
            /\ status' = [status EXCEPT ![req[r].inv] = "ACCEPTED"]
            /\ used' = [used EXCEPT ![req[r].inv] = TRUE]
       ELSE UNCHANGED <<assigned, status, used>>
    /\ Goto(r, Idle)
    /\ UNCHANGED <<expiresAt, sessions, now, faults>>

ClaimInvitation(r) ==
    /\ At(r, "claim")
    /\ IF status[req[r].inv] = "PENDING" /\ ~assigned[req[r].inv] /\ account = "NONE"
       THEN /\ account' = "REGISTERED"
            /\ assigned' = [assigned EXCEPT ![req[r].inv] = TRUE]
            /\ status' = [status EXCEPT ![req[r].inv] = "ACCEPTED"]
            /\ used' = [used EXCEPT ![req[r].inv] = TRUE]
       ELSE UNCHANGED <<account, assigned, status, used>>
    /\ Goto(r, Idle)
    /\ UNCHANGED <<expiresAt, sessions, now, faults>>

(* createSessionFromInvitation: only a pending invitation expires here; an *)
(* assigned one is refused, since the request never carries a user id.     *)
createSessionFromInvitation(r, v) ==
    /\ At(r, "idle")
    /\ status[v] \in Open
    /\ \/ /\ status[v] = "PENDING" /\ HasExpired(v)
          /\ Goto(r, [at |-> "expire", inv |-> v])
       \/ /\ ~(status[v] = "PENDING" /\ HasExpired(v))
          /\ ~assigned[v]
          /\ Goto(r, [at |-> "findSession", inv |-> v, seen |-> status[v]])
    /\ UNCHANGED <<rowVars, sessions, account, now, faults>>

(* Mutant: the existing session is not looked up.                          *)
AlwaysNewSession(r) ==
    /\ At(r, "findSession")
    /\ Goto(r, [at |-> IF req[r].seen = "PENDING" THEN "accept" ELSE "createSession",
                inv |-> req[r].inv])
    /\ UNCHANGED <<rowVars, sessions, account, now, faults>>

(* ... an existing session is handed out again (with a new access token;   *)
(* when its timer has run out it is closed, as finalising would) ...       *)
FindInvitationSession(r) ==
    /\ At(r, "findSession")
    /\ Goto(r, IF sessions[req[r].inv] > 0 THEN Idle
               ELSE [at |-> IF req[r].seen = "PENDING" THEN "accept" ELSE "createSession",
                     inv |-> req[r].inv])
    /\ UNCHANGED <<rowVars, sessions, account, now, faults>>

(* Mutant: the invitation is accepted by its id alone.                     *)
AcceptUnguarded(r) ==
    /\ At(r, "accept")
    /\ status' = [status EXCEPT ![req[r].inv] = "ACCEPTED"]
    /\ used' = [used EXCEPT ![req[r].inv] = TRUE]
    /\ Goto(r, [req[r] EXCEPT !.at = "createSession"])
    /\ UNCHANGED <<expiresAt, assigned, sessions, account, now, faults>>

(* Mutant: the session is created before the invitation is accepted, and   *)
(* nothing accepts it.                                                     *)
SkipAcceptance(r) ==
    /\ At(r, "accept")
    /\ Goto(r, [req[r] EXCEPT !.at = "createSession"])
    /\ UNCHANGED <<rowVars, sessions, account, now, faults>>

(* ... a pending invitation is accepted by a guarded update, which refuses *)
(* the request when the row has changed ...                                *)
AcceptInvitation(r) ==
    /\ At(r, "accept")
    /\ IF status[req[r].inv] = "PENDING" /\ ~assigned[req[r].inv]
       THEN /\ status' = [status EXCEPT ![req[r].inv] = "ACCEPTED"]
            /\ used' = [used EXCEPT ![req[r].inv] = TRUE]
            /\ Goto(r, [req[r] EXCEPT !.at = "createSession"])
       ELSE UNCHANGED <<status, used>> /\ Goto(r, Idle)
    /\ UNCHANGED <<expiresAt, assigned, sessions, account, now, faults>>

(* ... and the session is created, whatever the invitation has become.     *)
CreateSession(r) ==
    /\ At(r, "createSession")
    /\ sessions' = [sessions EXCEPT ![req[r].inv] = Many(@)]
    /\ Goto(r, Idle)
    /\ UNCHANGED <<rowVars, account, now, faults>>

-----------------------------------------------------------------------------
Crash(r) ==
    /\ ~At(r, "idle")
    /\ faults < MaxFaults
    /\ faults' = faults + 1
    /\ Goto(r, Idle)
    /\ UNCHANGED <<rowVars, sessions, account, now>>

Tick ==
    /\ now < MaxTime
    /\ now' = now + 1
    /\ UNCHANGED <<rowVars, sessions, account, faults, req>>

Manage(r) ==
    \/ \E toAccount \in BOOLEAN, expiry \in Times : createInvitation(r, toAccount, expiry)
    \/ \E v \in Invitations :
          \/ \E expiry \in Times : extendInvitation(r, v, expiry)
          \/ cancelInvitation(r, v)

Visit(r) ==
    \E v \in Invitations :
        \/ validateInvitation(r, v)
        \/ registerCandidate(r, v)
        \/ createSessionFromInvitation(r, v)

Continue(r) ==
    \/ \E v \in Invitations : InsertInvitation(r, v)
    \/ UpdateExpiry(r)
    \/ MarkCancelled(r)
    \/ MarkExpired(r)
    \/ ClaimInvitation(r)
    \/ FindInvitationSession(r)
    \/ AcceptInvitation(r)
    \/ CreateSession(r)

Next ==
    \/ \E r \in Requests : Manage(r) \/ Visit(r) \/ Continue(r) \/ Crash(r)
    \/ Tick

Spec == Init /\ [][Next]_vars

(* Requests go on, and a candidate with an invitation keeps trying to sit  *)
(* the assessment.                                                         *)
Fairness ==
    /\ \A r \in Requests : WF_vars(Continue(r))
    /\ \A v \in Invitations :
          SF_vars(\E r \in Requests : createSessionFromInvitation(r, v))
FairSpec == Spec /\ Fairness

-----------------------------------------------------------------------------
(* What holds however requests overlap and crash.                          *)

(* Nobody sits an assessment without having accepted the invitation, and   *)
(* no extension made on a stale read forges an acceptance.                 *)
AdmissionFollowsAcceptance ==
    \A v \in Invitations : status[v] = "ACCEPTED" \/ sessions[v] > 0 => used[v]

(* A registration that loses the race for the invitation leaves no account *)
(* behind.                                                                 *)
RegistrationsHoldAnInvitation ==
    account = "REGISTERED" => \E v \in Invitations : assigned[v] /\ used[v]

(* An invitation that was cancelled, has expired or was given to somebody  *)
(* else is not accepted for the first time by a request that read it when  *)
(* it was still pending.                                                   *)
StaleInvitationsAreNotAccepted ==
    [][\A v \in Invitations : used'[v] /\ ~used[v] =>
            status[v] = "PENDING" /\ ~assigned[v]]_vars

(* Why they hold: an acceptance is recorded in the row for good, so what a *)
(* request read of it stays true.                                          *)
LocalsAreSound(q) ==
    /\ q.at = "createSession" => used[q.inv]
    /\ q.at = "findSession" => (q.seen = "ACCEPTED" => used[q.inv])
    /\ q.at = "extend" => (q.status = "ACCEPTED" => used[q.inv])

IndInv ==
    /\ TypeOK
    /\ AdmissionFollowsAcceptance
    /\ RegistrationsHoldAnInvitation
    /\ \A v \in Invitations : used[v] => status[v] # "NONE"
    /\ \A r \in Requests : LocalsAreSound(req[r])

-----------------------------------------------------------------------------
(* What holds as long as requests do not overlap.                          *)

(* However often the link is opened, after a crash, an expiry or an        *)
(* extension, there is one session.                                        *)
OneSessionPerInvitation == \A v \in Invitations : sessions[v] <= 1

(* An invitation sat by a token-only applicant is not taken over by an     *)
(* account, nor the other way round.                                       *)
TokenOrAccount == \A v \in Invitations : ~(assigned[v] /\ sessions[v] > 0)

(* A cancelled invitation stays cancelled and admits nobody any more.      *)
CancellationIsFinal ==
    [][\A v \in Invitations : status[v] = "CANCELLED" =>
            status'[v] = "CANCELLED" /\ sessions'[v] = sessions[v]]_vars

(* An address comes to have two open invitations in one way only: by the   *)
(* extension of an expired one, which is not compared with the others.     *)
DuplicatesAreExtensions ==
    [][\A v, w \in Invitations :
          v # w /\ status[v] \notin Open /\ status'[v] \in Open /\ status[w] \in Open
            => status[v] = "EXPIRED"]_vars

(* The invitations as an implementation of InvitationContract: a session   *)
(* counts for its invitation, whose holder is the account it is assigned   *)
(* to or else the applicant who sat the assessment.                        *)
Contract == INSTANCE InvitationContract WITH
    state <- [v \in Invitations |-> IF status[v] \in Open THEN "OPEN" ELSE status[v]],
    holder <- [v \in Invitations |->
                 IF assigned[v] THEN "ACCOUNT"
                 ELSE IF sessions[v] > 0 THEN "APPLICANT" ELSE "NOBODY"],
    sat <- {v \in Invitations : sessions[v] > 0}
ImplementsContract == Contract!Spec

-----------------------------------------------------------------------------
(* docs/phase-6-completion-checklist.md: "candidate can create session     *)
(* from invitation".  A candidate who accepted keeps trying and gets the   *)
(* session, unless the invitation is cancelled or expires.                 *)
AcceptedCandidatesGetASession ==
    \A v \in Invitations :
        status[v] = "ACCEPTED" ~> sessions[v] > 0 \/ status[v] \in {"CANCELLED", "EXPIRED"}
=============================================================================
