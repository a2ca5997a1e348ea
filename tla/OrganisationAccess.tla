------------------------ MODULE OrganisationAccess ------------------------
(***************************************************************************)
(* How an organisation comes to the platform: somebody asks for access, a  *)
(* platform admin approves or declines and converts the request into an    *)
(* organisation, the contact gets a mail with a link, and the link makes   *)
(* the contact the organisation's employer admin.                          *)
(*                                                                         *)
(* The requests for access here all name the same contact e-mail, the case *)
(* in which they can get into each other's way.  An API request waits in   *)
(* its slot of Requests between its awaits.                                *)
(***************************************************************************)
EXTENDS Naturals

CONSTANTS
    AccessRequests, \* bound: the OrganisationAccessRequest rows of a contact
    Links,          \* bound: the VerificationToken rows there can ever be
    Requests,       \* slots for requests the API serves at the same time
    MaxFaults       \* bound: requests that die half-way

ASSUME FaultsAssumption == MaxFaults \in Nat

VARIABLES
    access,     \* status of each OrganisationAccessRequest
    invitation, \* per access request its OrganisationAdminInvitation (which
                \* is created together with the organisation)
    link,       \* the links mailed for an invitation
    account,    \* the user row of the contact's e-mail address
    purged,     \* history: a user of this address was purged
    lost,       \* history: invitations whose link died before it was inserted
    faults,     \* faults so far
    req         \* per slot: where its request is, and its local variables

vars == <<access, invitation, link, account, purged, lost, faults, req>>

AccessStatus == {"NONE", "PENDING", "APPROVED", "DECLINED", "CONVERTED"}
Decisions == {"APPROVED", "DECLINED"}
InvitationStatus == {"NONE", "PENDING", "ACCEPTED", "EXPIRED"}

(* `accepted`: acceptedById is set; `lapsed`: expiresAt has passed;        *)
(* `organisations`: history, how many were created (at most 2).            *)
NoInvitation ==
    [status |-> "NONE", accepted |-> FALSE, lapsed |-> FALSE, organisations |-> 0]
Invitation ==
    [status : InvitationStatus, accepted : BOOLEAN, lapsed : BOOLEAN,
     organisations : 0 .. 2]

NoLink == [state |-> "NONE", lapsed |-> FALSE]
Link ==
    {NoLink} \cup
    [of : AccessRequests, state : {"USABLE", "USED", "REVOKED"}, lapsed : BOOLEAN]

(* The address has no user, one that registered or another role, or the    *)
(* employer admin that an invitation made.                                 *)
Accounts == {"NONE", "OTHER", "EMPLOYER_ADMIN"}

Idle == [at |-> "idle"]
Request ==
    [at : {"idle", "create"}]
    \cup [at : {"convert", "prolong", "revokeLinks", "insertLink", "expire"},
          of : AccessRequests]
    \cup [at : {"review"}, of : AccessRequests, seen : AccessStatus, decision : Decisions]
    \cup [at : {"accept"}, of : AccessRequests, link : Links]

TypeOK ==
    /\ access \in [AccessRequests -> AccessStatus]
    /\ invitation \in [AccessRequests -> Invitation]
    /\ link \in [Links -> Link]
    /\ account \in Accounts
    /\ purged \in BOOLEAN
    /\ lost \in SUBSET AccessRequests
    /\ faults \in 0 .. MaxFaults
    /\ req \in [Requests -> Request]

Init ==
    /\ access = [a \in AccessRequests |-> "NONE"]
    /\ invitation = [a \in AccessRequests |-> NoInvitation]
    /\ link = [l \in Links |-> NoLink]
    /\ account = "NONE"
    /\ purged = FALSE
    /\ lost = {}
    /\ faults = 0
    /\ req = [r \in Requests |-> Idle]

-----------------------------------------------------------------------------
(* Helpers.                                                                *)

rows == <<access, invitation, link, account, purged, lost, faults>>
At(r, place) == req[r].at = place
Goto(r, next) == req' = [req EXCEPT ![r] = next]
Start(r, next) == At(r, "idle") /\ Goto(r, next) /\ UNCHANGED rows
Then(r, place) == Goto(r, [at |-> place, of |-> req[r].of])
Many(n) == IF n < 2 THEN n + 1 ELSE 2

HasInvitation(a) == invitation[a].status # "NONE"
IsUsable(l) == link[l].state = "USABLE" /\ ~link[l].lapsed
LinksOf(a) == {l \in Links : link[l].state = "USABLE" /\ link[l].of = a}

-----------------------------------------------------------------------------
(* Asking for access, and the platform admins' answer.                     *)

create(r) ==
    /\ \A a \in AccessRequests : access[a] # "PENDING"
    /\ Start(r, [at |-> "create"])

InsertAccessRequest(r, a) ==
    /\ At(r, "create")
    /\ access[a] = "NONE"
    /\ access' = [access EXCEPT ![a] = "PENDING"]
    /\ Goto(r, Idle)
    /\ UNCHANGED <<invitation, link, account, purged, lost, faults>>

(* Mutant: a converted request can be reviewed again.                      *)
ReviewAgain(r, a, decision) ==
    /\ access[a] # "NONE"
    /\ Start(r, [at |-> "review", of |-> a, seen |-> access[a], decision |-> decision])

review(r, a, decision) ==
    /\ access[a] \notin {"NONE", "CONVERTED"}
    /\ Start(r, [at |-> "review", of |-> a, seen |-> access[a], decision |-> decision])

(* The update is by id, whatever the request has become.                   *)
WriteReview(r) ==
    /\ At(r, "review")
    /\ access' = [access EXCEPT ![req[r].of] = req[r].decision]
    /\ Goto(r, Idle)
    /\ UNCHANGED <<invitation, link, account, purged, lost, faults>>

convert(r, a) ==
    /\ access[a] = "APPROVED" /\ ~HasInvitation(a)
    /\ Start(r, [at |-> "convert", of |-> a])

NewInvitation(a) ==
    [NoInvitation EXCEPT !.status = "PENDING", !.organisations = Many(invitation[a].organisations)]

(* Mutant: an organisation is created beside an existing invitation.       *)
ConvertTwice(r) ==
    /\ At(r, "convert")
    /\ LET a == req[r].of IN
       /\ invitation' = [invitation EXCEPT ![a] = NewInvitation(a)]
       /\ access' = [access EXCEPT ![a] = "CONVERTED"]
    /\ Then(r, "revokeLinks")
    /\ UNCHANGED <<link, account, purged, lost, faults>>

(* One transaction: organisation, invitation and status.  The invitation   *)
(* of an access request is unique, so the second of two conversions fails. *)
ConvertRequest(r) ==
    /\ At(r, "convert")
    /\ LET a == req[r].of IN
       IF HasInvitation(a) THEN UNCHANGED <<invitation, access>> /\ Goto(r, Idle)
       ELSE /\ invitation' = [invitation EXCEPT ![a] = NewInvitation(a)]
            /\ access' = [access EXCEPT ![a] = "CONVERTED"]
            /\ Then(r, "revokeLinks")
    /\ UNCHANGED <<link, account, purged, lost, faults>>

resendAdminInvitationEmail(r, a) ==
    /\ access[a] = "CONVERTED" /\ invitation[a].status = "PENDING"
    /\ Start(r, [at |-> "prolong", of |-> a])

(* By id: the invitation is prolonged whatever its status is by now.       *)
ProlongInvitation(r) ==
    /\ At(r, "prolong")
    /\ invitation' = [invitation EXCEPT ![req[r].of].lapsed = FALSE]
    /\ Then(r, "revokeLinks")
    /\ UNCHANGED <<access, link, account, purged, lost, faults>>

-----------------------------------------------------------------------------
(* The link: createToken revokes the older ones, then inserts a new one.   *)
(* (Then it is mailed; whether that succeeds is recorded with the          *)
(* invitation, for display only, and not modelled.)                        *)

(* Mutant: the revocation names the address but not the invitation.        *)
RevokeAllLinks(r) ==
    /\ At(r, "revokeLinks")
    /\ link' = [l \in Links |->
            IF link[l].state = "USABLE" THEN [link[l] EXCEPT !.state = "REVOKED"] ELSE link[l]]
    /\ Then(r, "insertLink")
    /\ UNCHANGED <<access, invitation, account, purged, lost, faults>>

revokeActiveTokens(r) ==
    /\ At(r, "revokeLinks")
    /\ link' = [l \in Links |->
            IF l \in LinksOf(req[r].of) THEN [link[l] EXCEPT !.state = "REVOKED"] ELSE link[l]]
    /\ Then(r, "insertLink")
    /\ UNCHANGED <<access, invitation, account, purged, lost, faults>>

createToken(r, l) ==
    /\ At(r, "insertLink")
    /\ link[l].state = "NONE"
    /\ link' = [link EXCEPT ![l] = [of |-> req[r].of, state |-> "USABLE", lapsed |-> FALSE]]
    /\ lost' = lost \ {req[r].of}
    /\ Goto(r, Idle)
    /\ UNCHANGED <<access, invitation, account, purged, faults>>

-----------------------------------------------------------------------------
(* The contact.                                                            *)

(* A pending invitation is marked as expired by whoever opens a link of it *)
(* that has lapsed, even one that a newer link has replaced.               *)
getOrganisationAdminInvitationByToken(r, l) ==
    /\ link[l].state # "NONE" /\ link[l].lapsed
    /\ invitation[link[l].of].status = "PENDING"
    /\ Start(r, [at |-> "expire", of |-> link[l].of])

(* By id: an invitation that was accepted meanwhile becomes EXPIRED too.   *)
ExpireInvitation(r) ==
    /\ At(r, "expire")
    /\ invitation' = [invitation EXCEPT ![req[r].of].status = "EXPIRED"]
    /\ Goto(r, Idle)
    /\ UNCHANGED <<access, link, account, purged, lost, faults>>

acceptOrganisationAdminInvitation(r, l) ==
    /\ IsUsable(l)
    /\ LET a == link[l].of IN
       /\ invitation[a].status = "PENDING"
       /\ \/ invitation[a].lapsed /\ Start(r, [at |-> "expire", of |-> a])
          \/ /\ ~invitation[a].lapsed /\ account = "NONE"
             /\ Start(r, [at |-> "accept", of |-> a, link |-> l])

(* Mutant: the link is spent although the rest of the acceptance fails.    *)
AcceptWithoutRollback(r) ==
    /\ At(r, "accept")
    /\ LET a == req[r].of
           l == req[r].link
           open == invitation[a].status = "PENDING" /\ account = "NONE"
       IN  /\ link' = IF IsUsable(l) THEN [link EXCEPT ![l].state = "USED"] ELSE link
           /\ IF IsUsable(l) /\ open
              THEN /\ account' = "EMPLOYER_ADMIN"
                   /\ invitation' = [invitation EXCEPT ![a].status = "ACCEPTED",
                                                       ![a].accepted = TRUE]
              ELSE UNCHANGED <<account, invitation>>
    /\ Goto(r, Idle)
    /\ UNCHANGED <<access, purged, lost, faults>>

(* One transaction: the link is claimed, the user created (the address is  *)
(* unique), the invitation claimed; if one of them fails all do.           *)
ClaimInvitation(r) ==
    /\ At(r, "accept")
    /\ LET a == req[r].of
           l == req[r].link
       IN  IF /\ IsUsable(l) /\ account = "NONE"
              /\ invitation[a].status = "PENDING" /\ ~invitation[a].accepted
           THEN /\ link' = [link EXCEPT ![l].state = "USED"]
                /\ account' = "EMPLOYER_ADMIN"
                /\ invitation' = [invitation EXCEPT ![a].status = "ACCEPTED",
                                                    ![a].accepted = TRUE]
           ELSE UNCHANGED <<link, account, invitation>>
    /\ Goto(r, Idle)
    /\ UNCHANGED <<access, purged, lost, faults>>

-----------------------------------------------------------------------------
(* Environment.                                                            *)

(* The address gets a user in another way.                                 *)
register ==
    /\ account = "NONE"
    /\ account' = "OTHER"
    /\ UNCHANGED <<access, invitation, link, purged, lost, faults, req>>

(* A purge of the user also deletes the invitations and links of his       *)
(* address, so what is under way for one of them finds no row and fails;   *)
(* the requests for access stay as they are.                               *)
permanentlyDeleteUser ==
    /\ account # "NONE"
    /\ account' = "NONE"
    /\ invitation' = [a \in AccessRequests |->
            [NoInvitation EXCEPT !.organisations = invitation[a].organisations]]
    /\ link' = [l \in Links |-> NoLink]
    /\ purged' = TRUE
    /\ lost' = {}
    /\ req' = [r \in Requests |->
            IF req[r].at \in {"create", "review", "convert"} THEN req[r] ELSE Idle]
    /\ UNCHANGED <<access, faults>>

(* (The expiry of what is accepted or used makes no difference any more.)  *)
LapseInvitation(a) ==
    /\ invitation[a].status = "PENDING" /\ ~invitation[a].lapsed
    /\ invitation' = [invitation EXCEPT ![a].lapsed = TRUE]
    /\ UNCHANGED <<access, link, account, purged, lost, faults, req>>

LapseLink(l) ==
    /\ link[l].state \in {"USABLE", "REVOKED"} /\ ~link[l].lapsed
    /\ link' = [link EXCEPT ![l].lapsed = TRUE]
    /\ UNCHANGED <<access, invitation, account, purged, lost, faults, req>>

Crash(r) ==
    /\ ~At(r, "idle") /\ faults < MaxFaults
    /\ faults' = faults + 1
    /\ lost' = lost \cup (IF req[r].at \in {"revokeLinks", "insertLink"}
                          THEN {req[r].of} ELSE {})
    /\ Goto(r, Idle)
    /\ UNCHANGED <<access, invitation, link, account, purged>>

Arrive(r) ==
    \/ create(r)
    \/ \E a \in AccessRequests :
          \/ \E decision \in Decisions : review(r, a, decision)
          \/ convert(r, a)
          \/ resendAdminInvitationEmail(r, a)
    \/ \E l \in Links :
          \/ getOrganisationAdminInvitationByToken(r, l)
          \/ acceptOrganisationAdminInvitation(r, l)

Continue(r) ==
    \/ \E a \in AccessRequests : InsertAccessRequest(r, a)
    \/ WriteReview(r) \/ ConvertRequest(r)
    \/ ProlongInvitation(r) \/ revokeActiveTokens(r)
    \/ \E l \in Links : createToken(r, l)
    \/ ExpireInvitation(r) \/ ClaimInvitation(r)

Next ==
    \/ \E r \in Requests : Arrive(r) \/ Continue(r) \/ Crash(r)
    \/ register \/ permanentlyDeleteUser
    \/ \E a \in AccessRequests : LapseInvitation(a)
    \/ \E l \in Links : LapseLink(l)

Spec == Init /\ [][Next]_vars

-----------------------------------------------------------------------------
(* What holds however requests overlap and crash.                          *)

(* An access request gives rise to one organisation, even if two admins    *)
(* convert it at once; only the purge of the contact lets it give another. *)
OneOrganisationPerRequest ==
    \A a \in AccessRequests : invitation[a].organisations <= 1 \/ purged

(* The contact's account, his accepted invitation and the link he used     *)
(* belong together: one of each, or none.  Nothing of an acceptance that   *)
(* fails half-way is left, and of two acceptances one wins.                *)
OneAcceptance ==
    /\ account = "EMPLOYER_ADMIN" <=> \E a \in AccessRequests : invitation[a].accepted
    /\ \A a, b \in AccessRequests :
          invitation[a].accepted /\ invitation[b].accepted => a = b
    /\ \A l \in Links : link[l].state = "USED" => invitation[link[l].of].accepted
    /\ \A a \in AccessRequests : invitation[a].accepted =>
          \E l \in Links : link[l].state = "USED" /\ link[l].of = a

(* A pending invitation has a link that can still be used (or has lapsed), *)
(* or one is on its way, or the request that was to create it died: two    *)
(* resends at a time, or a resend for another request of the same contact, *)
(* do not leave the contact without any.                                   *)
LinkOnItsWay(a) ==
    \E r \in Requests : req[r].at \in {"revokeLinks", "insertLink"} /\ req[r].of = a
PendingInvitationsHaveALink ==
    \A a \in AccessRequests : invitation[a].status = "PENDING" =>
        LinksOf(a) # {} \/ LinkOnItsWay(a) \/ a \in lost

(* What the invariants above need to be inductive.                         *)
LocalsAreSound(local) ==
    /\ local.at \in {"prolong", "revokeLinks", "insertLink", "expire", "accept"} =>
          HasInvitation(local.of)
    /\ local.at = "accept" =>
          link[local.link].state # "NONE" /\ link[local.link].of = local.of
    /\ local.at = "review" => local.seen # "CONVERTED"
IndInv ==
    /\ TypeOK
    /\ OneOrganisationPerRequest
    /\ OneAcceptance
    /\ PendingInvitationsHaveALink
    /\ \A a \in AccessRequests :
          /\ ~HasInvitation(a) => invitation[a].organisations = 0 \/ purged
          /\ invitation[a].accepted => invitation[a].status \in {"ACCEPTED", "EXPIRED"}
          /\ invitation[a].status = "ACCEPTED" => invitation[a].accepted
    /\ \A l \in Links : link[l].state # "NONE" => HasInvitation(link[l].of)
    /\ \A r \in Requests : LocalsAreSound(req[r])

(* A converted request leaves that status only through a review that read  *)
(* an earlier one: nobody reviews a request that is converted already.     *)
OnlyStaleReviewsUndoConversions ==
    [][\A a \in AccessRequests :
          access[a] = "CONVERTED" /\ access'[a] # "CONVERTED" =>
              \E r \in Requests :
                  At(r, "review") /\ req[r].of = a /\ req[r].seen # "CONVERTED"]_vars
=============================================================================
