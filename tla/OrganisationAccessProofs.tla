--------------------- MODULE OrganisationAccessProofs ---------------------
(* Proofs about OrganisationAccess, for any number of requests for access,  *)
(* links and overlapping API requests.                                      *)
EXTENDS OrganisationAccess, TLAPS

(* The part of the invariant that is about the rows alone ...               *)
RowTypes ==
    /\ access \in [AccessRequests -> AccessStatus]
    /\ invitation \in [AccessRequests -> Invitation]
    /\ link \in [Links -> Link]
    /\ account \in Accounts
    /\ purged \in BOOLEAN
    /\ lost \in SUBSET AccessRequests
    /\ faults \in 0 .. MaxFaults
RowsInv ==
    /\ RowTypes
    /\ OneOrganisationPerRequest
    /\ OneAcceptance
    /\ \A a \in AccessRequests :
          /\ ~HasInvitation(a) => invitation[a].organisations = 0 \/ purged
          /\ invitation[a].accepted => invitation[a].status \in {"ACCEPTED", "EXPIRED"}
          /\ invitation[a].status = "ACCEPTED" => invitation[a].accepted
    /\ \A l \in Links : link[l].state # "NONE" => HasInvitation(link[l].of)

(* ... and the part about the slots.                                        *)
SlotsInv ==
    /\ req \in [Requests -> Request]
    /\ \A r \in Requests : LocalsAreSound(req[r])

LEMMA Parts == IndInv <=> RowsInv /\ SlotsInv /\ PendingInvitationsHaveALink
BY DEF IndInv, RowsInv, SlotsInv, TypeOK, RowTypes

LEMMA NextParts == RowsInv' /\ SlotsInv' /\ PendingInvitationsHaveALink' => IndInv'
BY DEF IndInv, RowsInv, SlotsInv, TypeOK, RowTypes

LEMMA InitInv == Init => IndInv
<1> SUFFICES ASSUME Init PROVE IndInv
  OBVIOUS
<1>1. NoInvitation \in Invitation /\ NoLink \in Link /\ Idle \in Request
  BY DEF NoInvitation, Invitation, InvitationStatus, NoLink, Link, Idle, Request
<1>2. RowTypes
  <2>1. invitation \in [AccessRequests -> Invitation] /\ link \in [Links -> Link]
    BY <1>1 DEF Init
  <2>2. access \in [AccessRequests -> AccessStatus] /\ account \in Accounts
    BY DEF Init, AccessStatus, Accounts
  <2>3. purged \in BOOLEAN /\ lost \in SUBSET AccessRequests
    BY DEF Init
  <2>4. faults \in 0 .. MaxFaults
    BY FaultsAssumption DEF Init
  <2> QED BY <2>1, <2>2, <2>3, <2>4 DEF RowTypes
<1>3. RowsInv
  BY <1>2 DEF Init, RowsInv, OneOrganisationPerRequest, OneAcceptance, NoInvitation,
         NoLink, HasInvitation
<1>4. SlotsInv /\ PendingInvitationsHaveALink
  BY <1>1 DEF Init, SlotsInv, LocalsAreSound, Idle, PendingInvitationsHaveALink, NoInvitation
<1> QED BY <1>3, <1>4, Parts

-----------------------------------------------------------------------------
(* Every step but a purge keeps the invitations and links that requests     *)
(* under way rely on.                                                       *)
Keeps ==
    /\ \A a \in AccessRequests : HasInvitation(a) => HasInvitation(a)'
    /\ \A l \in Links : link[l].state # "NONE" =>
          link'[l].state # "NONE" /\ link'[l].of = link[l].of

LEMMA SlotStep ==
    ASSUME SlotsInv, Keeps, NEW r \in Requests, NEW next \in Request, Goto(r, next),
           LocalsAreSound(next)'
    PROVE  SlotsInv'
<1>1. req' \in [Requests -> Request]
  BY DEF SlotsInv, Goto
<1>2. ASSUME NEW q \in Requests PROVE LocalsAreSound(req[q])'
  <2>1. CASE q = r
    BY <2>1 DEF SlotsInv, Goto
  <2>2. CASE q # r
    <3>1. req'[q] = req[q] /\ LocalsAreSound(req[q]) /\ req[q] \in Request
      BY <2>2 DEF SlotsInv, Goto
    <3>2. req[q].at \in {"prolong", "revokeLinks", "insertLink", "expire", "accept"} =>
              req[q].of \in AccessRequests
      BY <3>1 DEF Request
    <3>3. req[q].at = "accept" => req[q].link \in Links
      BY <3>1 DEF Request
    <3> QED BY <3>1, <3>2, <3>3 DEF LocalsAreSound, Keeps
  <2> QED BY <2>1, <2>2
<1> QED BY <1>1, <1>2 DEF SlotsInv

(* A request that is not about to insert a link may do what it likes with   *)
(* its slot.                                                                *)
LEMMA StillOnItsWay ==
    ASSUME SlotsInv, NEW r \in Requests, NEW next, Goto(r, next),
           NEW a \in AccessRequests, LinkOnItsWay(a),
           \/ req[r].at \notin {"revokeLinks", "insertLink"}
           \/ req[r].of # a
           \/ next.at \in {"revokeLinks", "insertLink"} /\ next.of = a
    PROVE  LinkOnItsWay(a)'
<1>1. PICK q \in Requests : req[q].at \in {"revokeLinks", "insertLink"} /\ req[q].of = a
  BY DEF LinkOnItsWay
<1>2. CASE q = r
  BY <1>1, <1>2 DEF SlotsInv, Goto, LinkOnItsWay
<1>3. CASE q # r
  BY <1>1, <1>3 DEF SlotsInv, Goto, LinkOnItsWay
<1> QED BY <1>2, <1>3

(* Nothing happens to the rows and the slot was idle or is left alone.      *)
LEMMA QuietStep ==
    ASSUME IndInv, UNCHANGED rows, NEW r \in Requests, NEW next \in Request,
           Goto(r, next), LocalsAreSound(next),
           req[r].at \notin {"revokeLinks", "insertLink"}
    PROVE  IndInv'
<1>1. RowsInv /\ SlotsInv /\ PendingInvitationsHaveALink
  BY Parts
<1>2. Keeps
  BY DEF rows, Keeps, HasInvitation
<1>3. RowsInv'
  BY <1>1 DEF RowsInv, RowTypes, OneOrganisationPerRequest, OneAcceptance, HasInvitation, rows
<1>4. LocalsAreSound(next)'
  BY DEF LocalsAreSound, HasInvitation, rows
<1>5. SlotsInv'
  BY <1>1, <1>2, <1>4, SlotStep
<1>6. PendingInvitationsHaveALink'
  BY <1>1, StillOnItsWay DEF PendingInvitationsHaveALink, LinksOf, rows
<1> QED BY <1>3, <1>5, <1>6, NextParts

LEMMA ArriveSound ==
    ASSUME IndInv, NEW r \in Requests, Arrive(r)
    PROVE  IndInv'
<1>0. RowsInv /\ SlotsInv
  BY Parts
<1>1. ASSUME NEW next \in Request, Start(r, next), LocalsAreSound(next) PROVE IndInv'
  BY <1>1, QuietStep DEF Start, At
<1>2. CASE create(r)
  BY <1>1, <1>2 DEF create, Request, LocalsAreSound
<1>3. ASSUME NEW a \in AccessRequests, NEW decision \in Decisions, review(r, a, decision)
      PROVE  IndInv'
  <2> DEFINE next == [at |-> "review", of |-> a, seen |-> access[a], decision |-> decision]
  <2>1. next \in Request /\ next.at = "review"
    BY <1>0 DEF Request, RowsInv, RowTypes
  <2>2. Start(r, next) /\ next.seen # "CONVERTED"
    BY <1>3 DEF review
  <2> QED BY <1>1, <2>1, <2>2 DEF LocalsAreSound
<1>4. ASSUME NEW a \in AccessRequests, NEW place \in {"convert", "prolong", "expire"},
             Start(r, [at |-> place, of |-> a]), HasInvitation(a) \/ place = "convert"
      PROVE  IndInv'
  <2> DEFINE next == [at |-> place, of |-> a]
  <2>1. next \in Request /\ next.at = place /\ next.of = a
    BY DEF Request
  <2> HIDE DEF next
  <2>2. LocalsAreSound(next)
    BY <1>4, <2>1 DEF LocalsAreSound
  <2>3. Start(r, next)
    BY <1>4 DEF next
  <2> QED BY <1>1, <2>1, <2>2, <2>3
<1>5. ASSUME NEW a \in AccessRequests, convert(r, a) \/ resendAdminInvitationEmail(r, a)
      PROVE  IndInv'
  BY <1>4, <1>5 DEF convert, resendAdminInvitationEmail, HasInvitation
<1>6. ASSUME NEW l \in Links, link[l].state # "NONE"
      PROVE  link[l].of \in AccessRequests
  BY <1>0, <1>6 DEF RowsInv, RowTypes, Link, NoLink
<1>7. ASSUME NEW l \in Links, getOrganisationAdminInvitationByToken(r, l) PROVE IndInv'
  BY <1>4, <1>6, <1>7 DEF getOrganisationAdminInvitationByToken, HasInvitation
<1>8. ASSUME NEW l \in Links, acceptOrganisationAdminInvitation(r, l) PROVE IndInv'
  <2> DEFINE a == link[l].of
             next == [at |-> "accept", of |-> a, link |-> l]
  <2>1. link[l].state # "NONE" /\ a \in AccessRequests /\ HasInvitation(a)
    BY <1>6, <1>8 DEF acceptOrganisationAdminInvitation, IsUsable, HasInvitation
  <2>2. next \in Request
    BY <2>1 DEF Request
  <2>3. LocalsAreSound(next)
    BY <2>1 DEF LocalsAreSound
  <2> QED BY <1>1, <1>4, <1>8, <2>1, <2>2, <2>3 DEF acceptOrganisationAdminInvitation
<1> QED BY <1>2, <1>3, <1>5, <1>7, <1>8 DEF Arrive

-----------------------------------------------------------------------------
LEMMA IdleSound == Idle \in Request /\ LocalsAreSound(Idle)
BY DEF Idle, Request, LocalsAreSound

(* A request that goes on with an invitation that is there.                 *)
LEMMA PlaceSound ==
    ASSUME NEW a \in AccessRequests,
           NEW place \in {"prolong", "revokeLinks", "insertLink", "expire"}
    PROVE  /\ [at |-> place, of |-> a] \in Request
           /\ HasInvitation(a)' => LocalsAreSound([at |-> place, of |-> a])'
<1> DEFINE next == [at |-> place, of |-> a]
<1>1. next \in Request /\ next.at = place /\ next.of = a
  BY DEF Request
<1> HIDE DEF next
<1>2. HasInvitation(a)' => LocalsAreSound(next)'
  BY <1>1 DEF LocalsAreSound
<1> QED BY <1>1, <1>2 DEF next

LEMMA AccessStep ==
    ASSUME IndInv, NEW r \in Requests,
           (\E a \in AccessRequests : InsertAccessRequest(r, a)) \/ WriteReview(r)
    PROVE  IndInv'
<1>1. RowsInv /\ SlotsInv /\ PendingInvitationsHaveALink
  BY Parts
<1>2. Goto(r, Idle) /\ UNCHANGED <<invitation, link, account, purged, lost, faults>>
  BY DEF InsertAccessRequest, WriteReview
<1>3. access' \in [AccessRequests -> AccessStatus]
  <2>1. CASE \E a \in AccessRequests : InsertAccessRequest(r, a)
    BY <1>1, <2>1 DEF InsertAccessRequest, RowsInv, RowTypes, AccessStatus
  <2>2. CASE WriteReview(r)
    <3>1. req[r].decision \in Decisions
      BY <1>1, <2>2 DEF WriteReview, At, SlotsInv, Request
    <3> QED BY <1>1, <2>2, <3>1 DEF WriteReview, RowsInv, RowTypes, AccessStatus, Decisions
  <2> QED BY <2>1, <2>2
<1>4. RowsInv'
  BY <1>1, <1>2, <1>3 DEF RowsInv, RowTypes, OneOrganisationPerRequest, OneAcceptance,
         HasInvitation
<1>5. Keeps /\ LocalsAreSound(Idle)'
  BY <1>2 DEF Keeps, HasInvitation, LocalsAreSound, Idle
<1>6. SlotsInv'
  BY <1>1, <1>2, <1>5, IdleSound, SlotStep
<1>7. PendingInvitationsHaveALink'
  <2>1. req[r].at \notin {"revokeLinks", "insertLink"}
    BY DEF InsertAccessRequest, WriteReview, At
  <2> QED BY <1>1, <1>2, <2>1, StillOnItsWay DEF PendingInvitationsHaveALink, LinksOf
<1> QED BY <1>4, <1>6, <1>7, NextParts

(* The types of one invitation, as the steps that write it use them.        *)
LEMMA InvitationTypes ==
    ASSUME RowsInv, NEW a \in AccessRequests
    PROVE  /\ invitation[a] \in Invitation
           /\ [invitation[a] EXCEPT !.lapsed = FALSE] \in Invitation
           /\ [invitation[a] EXCEPT !.lapsed = TRUE] \in Invitation
           /\ [invitation[a] EXCEPT !.status = "EXPIRED"] \in Invitation
           /\ [invitation[a] EXCEPT !.status = "ACCEPTED", !.accepted = TRUE] \in Invitation
BY DEF RowsInv, RowTypes, Invitation, InvitationStatus

LEMMA ConvertStep ==
    ASSUME IndInv, NEW r \in Requests, ConvertRequest(r)
    PROVE  IndInv'
<1>1. RowsInv /\ SlotsInv /\ PendingInvitationsHaveALink
  BY Parts
<1>2. PICK a \in AccessRequests : a = req[r].of /\ req[r].at = "convert"
  BY <1>1 DEF ConvertRequest, At, SlotsInv, Request
<1>3. CASE HasInvitation(a)
  BY <1>2, <1>3, QuietStep, IdleSound DEF ConvertRequest, rows
<1>4. CASE ~HasInvitation(a)
  <2> DEFINE new == NewInvitation(a)
             next == [at |-> "revokeLinks", of |-> a]
  <2>1. /\ invitation' = [invitation EXCEPT ![a] = new]
        /\ access' = [access EXCEPT ![a] = "CONVERTED"]
        /\ Goto(r, next)
        /\ UNCHANGED <<link, account, purged, lost, faults>>
    BY <1>2, <1>4 DEF ConvertRequest, Then
  <2>2. /\ invitation[a] \in Invitation /\ invitation[a].status = "NONE"
        /\ ~invitation[a].accepted
        /\ invitation[a].organisations = 0 \/ purged
    BY <1>1, <1>2, <1>4, InvitationTypes DEF RowsInv, HasInvitation
  <2>3. /\ new \in Invitation /\ new.status = "PENDING" /\ ~new.accepted
        /\ new.organisations <= 1 \/ purged
    <3> DEFINE n == invitation[a].organisations
    <3>1. n \in 0 .. 2
      BY <2>2 DEF Invitation
    <3>2. Many(n) \in 0 .. 2 /\ (n = 0 => Many(n) = 1)
      BY <3>1 DEF Many
    <3>3. /\ new.status = "PENDING" /\ new.accepted = FALSE /\ new.organisations = Many(n)
          /\ new \in Invitation
      BY <3>2 DEF NewInvitation, NoInvitation, Invitation, InvitationStatus
    <3> QED BY <2>2, <3>2, <3>3
  <2>4. \A b \in AccessRequests : invitation'[b] = IF b = a THEN new ELSE invitation[b]
    BY <1>1, <2>1 DEF RowsInv, RowTypes
  <2>5. \A b \in AccessRequests : invitation'[b].accepted = invitation[b].accepted
    <3> HIDE DEF new
    <3>1. invitation[a].accepted \in BOOLEAN /\ new.accepted \in BOOLEAN
      BY <2>2, <2>3 DEF Invitation
    <3> QED BY <2>2, <2>3, <2>4, <3>1
  <2> HIDE DEF new
  <2>6. RowTypes'
    <3>1. access' \in [AccessRequests -> AccessStatus]
      BY <1>1, <2>1 DEF RowsInv, RowTypes, AccessStatus
    <3>2. invitation' \in [AccessRequests -> Invitation]
      BY <1>1, <2>1, <2>3 DEF RowsInv, RowTypes
    <3> QED BY <1>1, <2>1, <3>1, <3>2 DEF RowsInv, RowTypes
  <2>7. OneOrganisationPerRequest'
    BY <1>1, <2>1, <2>3, <2>4 DEF RowsInv, OneOrganisationPerRequest
  <2>8. OneAcceptance'
    <3>1. \A l \in Links : link[l].state = "USED" => link[l].of \in AccessRequests
      BY <1>1 DEF RowsInv, RowTypes, Link, NoLink
    <3> QED BY <1>1, <2>1, <2>5, <3>1 DEF RowsInv, OneAcceptance
  <2>9. Keeps
    BY <2>1, <2>3, <2>4 DEF Keeps, HasInvitation
  <2>10. RowsInv'
    <3>1. \A l \in Links : link[l].state # "NONE" => link[l].of \in AccessRequests
      BY <1>1 DEF RowsInv, RowTypes, Link, NoLink
    <3>2. \A l \in Links : link'[l].state # "NONE" => HasInvitation(link[l].of)'
      BY <1>1, <2>1, <2>9, <3>1 DEF RowsInv, Keeps
    <3> QED BY <1>1, <2>1, <2>3, <2>4, <2>6, <2>7, <2>8, <3>2 DEF RowsInv, HasInvitation
  <2>11. next \in Request /\ LocalsAreSound(next)'
    <3>1. HasInvitation(a)'
      BY <1>2, <2>3, <2>4 DEF HasInvitation
    <3> QED BY <1>2, <3>1, PlaceSound
  <2> HIDE DEF next
  <2>12. SlotsInv'
    BY <1>1, <2>1, <2>9, <2>11, SlotStep
  <2>13. LinkOnItsWay(a)'
    <3>1. req'[r] = next
      BY <1>1, <2>1 DEF Goto, SlotsInv
    <3> QED BY <3>1 DEF next, LinkOnItsWay
  <2>14. ASSUME NEW b \in AccessRequests, b # a, LinkOnItsWay(b) PROVE LinkOnItsWay(b)'
    BY <1>1, <1>2, <2>1, <2>14, StillOnItsWay
  <2>15. PendingInvitationsHaveALink'
    <3>1. ASSUME NEW b \in AccessRequests, b # a, invitation'[b].status = "PENDING"
          PROVE  LinksOf(b)' # {} \/ LinkOnItsWay(b)' \/ b \in lost'
      <4>1. LinksOf(b)' = LinksOf(b)
        BY <2>1 DEF LinksOf
      <4> QED BY <1>1, <2>1, <2>4, <2>14, <3>1, <4>1 DEF PendingInvitationsHaveALink
    <3> QED BY <2>13, <3>1 DEF PendingInvitationsHaveALink
  <2> QED BY <2>10, <2>12, <2>15, NextParts
<1> QED BY <1>3, <1>4

(* Writes to one invitation that leave its acceptance alone.                *)
LEMMA InvitationStep ==
    ASSUME RowsInv, NEW a \in AccessRequests, NEW new \in Invitation,
           invitation' = [invitation EXCEPT ![a] = new],
           UNCHANGED <<access, link, account, purged, lost, faults>>,
           HasInvitation(a), new.status # "NONE",
           new.accepted = invitation[a].accepted,
           new.organisations = invitation[a].organisations,
           new.status = "EXPIRED" \/ new.status = invitation[a].status
    PROVE  /\ RowsInv' /\ Keeps
           /\ \A b \in AccessRequests :
                invitation'[b].status = "PENDING" => invitation[b].status = "PENDING"
<1>1. \A b \in AccessRequests : invitation'[b] = IF b = a THEN new ELSE invitation[b]
  BY DEF RowsInv, RowTypes
<1>2. \A b \in AccessRequests :
          /\ invitation'[b].accepted = invitation[b].accepted
          /\ invitation'[b].organisations = invitation[b].organisations
          /\ HasInvitation(b)' <=> HasInvitation(b)
  BY <1>1 DEF HasInvitation
<1>3. \A l \in Links : link[l].state # "NONE" => link[l].of \in AccessRequests
  BY DEF RowsInv, RowTypes, Link, NoLink
<1>4. RowTypes'
  BY DEF RowsInv, RowTypes
<1>5. OneOrganisationPerRequest' /\ OneAcceptance'
  BY <1>2, <1>3 DEF RowsInv, OneOrganisationPerRequest, OneAcceptance
<1>6. Keeps
  BY <1>2 DEF Keeps
<1>7. \A b \in AccessRequests :
          /\ invitation'[b].accepted => invitation'[b].status \in {"ACCEPTED", "EXPIRED"}
          /\ invitation'[b].status = "ACCEPTED" => invitation'[b].accepted
  BY <1>1 DEF RowsInv
<1>8. \A l \in Links : link'[l].state # "NONE" => HasInvitation(link[l].of)'
  BY <1>2, <1>3 DEF RowsInv
<1>9. RowsInv'
  BY <1>2, <1>4, <1>5, <1>7, <1>8 DEF RowsInv
<1> QED BY <1>1, <1>6, <1>9

LEMMA InvitationWrites ==
    ASSUME IndInv, NEW r \in Requests, ProlongInvitation(r) \/ ExpireInvitation(r)
    PROVE  IndInv'
<1>1. RowsInv /\ SlotsInv /\ PendingInvitationsHaveALink
  BY Parts
<1>2. PICK a \in AccessRequests : a = req[r].of /\ req[r].at \in {"prolong", "expire"}
  BY <1>1 DEF ProlongInvitation, ExpireInvitation, At, SlotsInv, Request
<1>3. HasInvitation(a) /\ invitation[a] \in Invitation
  BY <1>1, <1>2, InvitationTypes DEF SlotsInv, LocalsAreSound
<1> DEFINE later == [invitation[a] EXCEPT !.lapsed = FALSE]
           expired == [invitation[a] EXCEPT !.status = "EXPIRED"]
<1>4. PICK new \in {later, expired}, next \in {[at |-> "revokeLinks", of |-> a], Idle} :
          /\ invitation' = [invitation EXCEPT ![a] = new]
          /\ Goto(r, next)
          /\ UNCHANGED <<access, link, account, purged, lost, faults>>
  <2>1. CASE ProlongInvitation(r)
    <3>1. invitation' = [invitation EXCEPT ![a] = later]
      BY <1>2, <2>1 DEF ProlongInvitation
    <3> HIDE DEF later, expired
    <3> QED BY <1>2, <2>1, <3>1 DEF ProlongInvitation, Then
  <2>2. CASE ExpireInvitation(r)
    <3>1. invitation' = [invitation EXCEPT ![a] = expired]
      BY <1>2, <2>2 DEF ExpireInvitation
    <3> HIDE DEF later, expired
    <3> QED BY <1>2, <2>2, <3>1 DEF ExpireInvitation
  <2> QED BY <2>1, <2>2
<1>5. /\ new \in Invitation /\ new.status # "NONE"
      /\ new.accepted = invitation[a].accepted
      /\ new.organisations = invitation[a].organisations
      /\ new.status = "EXPIRED" \/ new.status = invitation[a].status
  BY <1>1, <1>2, <1>3, <1>4, InvitationTypes DEF HasInvitation, Invitation
<1>6. /\ RowsInv' /\ Keeps
      /\ \A b \in AccessRequests :
            invitation'[b].status = "PENDING" => invitation[b].status = "PENDING"
  BY <1>1, <1>2, <1>3, <1>4, <1>5, InvitationStep
<1>7. next \in Request /\ LocalsAreSound(next)'
  <2>1. HasInvitation(a)'
    BY <1>2, <1>3, <1>6 DEF Keeps
  <2>2. Idle \in Request /\ LocalsAreSound(Idle)'
    BY DEF Idle, Request, LocalsAreSound
  <2> QED BY <1>2, <1>4, <2>1, <2>2, PlaceSound
<1>8. SlotsInv'
  BY <1>1, <1>4, <1>6, <1>7, SlotStep
<1>9. PendingInvitationsHaveALink'
  <2>1. \A b \in AccessRequests : LinksOf(b)' = LinksOf(b)
    BY <1>4 DEF LinksOf
  <2>2. \A b \in AccessRequests : LinkOnItsWay(b) => LinkOnItsWay(b)'
    BY <1>1, <1>2, <1>4, StillOnItsWay
  <2> QED BY <1>1, <1>4, <1>6, <2>1, <2>2 DEF PendingInvitationsHaveALink
<1> QED BY <1>6, <1>8, <1>9, NextParts

-----------------------------------------------------------------------------
(* Links.                                                                   *)
LEMMA RevokeStep ==
    ASSUME IndInv, NEW r \in Requests, revokeActiveTokens(r)
    PROVE  IndInv'
<1>1. RowsInv /\ SlotsInv /\ PendingInvitationsHaveALink
  BY Parts
<1>2. PICK a \in AccessRequests : a = req[r].of /\ req[r].at = "revokeLinks"
  BY <1>1 DEF revokeActiveTokens, At, SlotsInv, Request
<1> DEFINE next == [at |-> "insertLink", of |-> a]
<1>3. /\ link' = [l \in Links |->
            IF l \in LinksOf(a) THEN [link[l] EXCEPT !.state = "REVOKED"] ELSE link[l]]
      /\ Goto(r, next)
      /\ UNCHANGED <<access, invitation, account, purged, lost, faults>>
  BY <1>2 DEF revokeActiveTokens, Then
<1>4. \A l \in Links :
          /\ link'[l] \in Link
          /\ link'[l].state = IF l \in LinksOf(a) THEN "REVOKED" ELSE link[l].state
          /\ link[l].state # "NONE" => link'[l].of = link[l].of
          /\ l \in LinksOf(a) => link[l].state = "USABLE"
  BY <1>1, <1>3 DEF RowsInv, RowTypes, Link, NoLink, LinksOf
<1>5. \A l \in Links :
          /\ link'[l].state # "NONE" <=> link[l].state # "NONE"
          /\ link'[l].state = "USED" <=> link[l].state = "USED"
  BY <1>4
<1>6. RowTypes' /\ Keeps
  BY <1>1, <1>3, <1>4, <1>5 DEF RowsInv, RowTypes, Keeps, HasInvitation
<1>7. RowsInv'
  <2>1. OneOrganisationPerRequest'
    BY <1>1, <1>3 DEF RowsInv, OneOrganisationPerRequest
  <2>2. OneAcceptance'
    BY <1>1, <1>3, <1>4, <1>5 DEF RowsInv, OneAcceptance
  <2> QED BY <1>1, <1>3, <1>4, <1>5, <1>6, <2>1, <2>2 DEF RowsInv, HasInvitation
<1>8. HasInvitation(a)'
  BY <1>1, <1>2, <1>6 DEF SlotsInv, LocalsAreSound, Keeps
<1>9. next \in Request /\ LocalsAreSound(next)'
  BY <1>8, PlaceSound
<1>10. SlotsInv'
  <2> HIDE DEF next
  <2> QED BY <1>1, <1>3, <1>6, <1>9, SlotStep
<1>11. LinkOnItsWay(a)'
  BY <1>1, <1>3 DEF SlotsInv, Goto, LinkOnItsWay
<1>12. ASSUME NEW b \in AccessRequests, b # a, invitation'[b].status = "PENDING"
       PROVE  LinksOf(b)' # {} \/ LinkOnItsWay(b)' \/ b \in lost'
  <2>1. LinksOf(b) \subseteq LinksOf(b)'
    BY <1>3, <1>4, <1>12 DEF LinksOf
  <2>2. LinkOnItsWay(b) => LinkOnItsWay(b)'
    BY <1>1, <1>2, <1>3, <1>12, StillOnItsWay
  <2> QED BY <1>1, <1>3, <1>12, <2>1, <2>2 DEF PendingInvitationsHaveALink
<1>13. PendingInvitationsHaveALink'
  BY <1>11, <1>12 DEF PendingInvitationsHaveALink
<1> QED BY <1>7, <1>10, <1>13, NextParts

LEMMA InsertStep ==
    ASSUME IndInv, NEW r \in Requests, NEW l \in Links, createToken(r, l)
    PROVE  IndInv'
<1>1. RowsInv /\ SlotsInv /\ PendingInvitationsHaveALink
  BY Parts
<1>2. PICK a \in AccessRequests : a = req[r].of /\ req[r].at = "insertLink"
  BY <1>1 DEF createToken, At, SlotsInv, Request
<1> DEFINE new == [of |-> a, state |-> "USABLE", lapsed |-> FALSE]
<1>3. /\ link[l].state = "NONE"
      /\ link' = [link EXCEPT ![l] = new]
      /\ lost' = lost \ {a}
      /\ Goto(r, Idle)
      /\ UNCHANGED <<access, invitation, account, purged, faults>>
  BY <1>2 DEF createToken
<1>4. new \in Link /\ new.state = "USABLE" /\ new.of = a
  BY DEF Link
<1> HIDE DEF new
<1>5. \A k \in Links : link'[k] = IF k = l THEN new ELSE link[k]
  BY <1>1, <1>3 DEF RowsInv, RowTypes
<1>6. RowTypes' /\ Keeps
  BY <1>1, <1>3, <1>4, <1>5 DEF RowsInv, RowTypes, Keeps, HasInvitation
<1>7. HasInvitation(a)
  BY <1>1, <1>2 DEF SlotsInv, LocalsAreSound
<1>8. RowsInv'
  <2>1. OneOrganisationPerRequest'
    BY <1>1, <1>3 DEF RowsInv, OneOrganisationPerRequest
  <2>2. OneAcceptance'
    BY <1>1, <1>3, <1>4, <1>5 DEF RowsInv, OneAcceptance
  <2> QED BY <1>1, <1>3, <1>4, <1>5, <1>6, <1>7, <2>1, <2>2 DEF RowsInv, HasInvitation
<1>9. SlotsInv'
  <2>1. LocalsAreSound(Idle)'
    BY DEF Idle, LocalsAreSound
  <2> QED BY <1>1, <1>3, <1>6, <2>1, IdleSound, SlotStep
<1>10. ASSUME NEW b \in AccessRequests, invitation'[b].status = "PENDING"
       PROVE  LinksOf(b)' # {} \/ LinkOnItsWay(b)' \/ b \in lost'
  <2>1. CASE b = a
    BY <1>4, <1>5, <2>1 DEF LinksOf
  <2>2. CASE b # a
    <3>1. LinksOf(b) \subseteq LinksOf(b)'
      BY <1>3, <1>5 DEF LinksOf
    <3>2. LinkOnItsWay(b) => LinkOnItsWay(b)'
      BY <1>1, <1>2, <1>3, <2>2, StillOnItsWay
    <3> QED BY <1>1, <1>3, <1>10, <2>2, <3>1, <3>2 DEF PendingInvitationsHaveALink
  <2> QED BY <2>1, <2>2
<1>11. PendingInvitationsHaveALink'
  BY <1>10 DEF PendingInvitationsHaveALink
<1> QED BY <1>8, <1>9, <1>11, NextParts

LEMMA ClaimStep ==
    ASSUME IndInv, NEW r \in Requests, ClaimInvitation(r)
    PROVE  IndInv'
<1>1. RowsInv /\ SlotsInv /\ PendingInvitationsHaveALink
  BY Parts
<1>2. PICK a \in AccessRequests, l \in Links :
          a = req[r].of /\ l = req[r].link /\ req[r].at = "accept"
  BY <1>1 DEF ClaimInvitation, At, SlotsInv, Request
<1>3. link[l].of = a /\ HasInvitation(a)
  BY <1>1, <1>2 DEF SlotsInv, LocalsAreSound
<1> DEFINE Opens == /\ IsUsable(l) /\ account = "NONE"
                    /\ invitation[a].status = "PENDING" /\ ~invitation[a].accepted
<1>4. CASE ~Opens
  <2>1. UNCHANGED rows /\ Goto(r, Idle)
    BY <1>2, <1>4 DEF ClaimInvitation, rows
  <2> QED BY <1>2, <2>1, QuietStep, IdleSound
<1>5. CASE Opens
  <2> DEFINE used == [link[l] EXCEPT !.state = "USED"]
             new == [invitation[a] EXCEPT !.status = "ACCEPTED", !.accepted = TRUE]
  <2>1. /\ link' = [link EXCEPT ![l] = used]
        /\ account' = "EMPLOYER_ADMIN"
        /\ Goto(r, Idle)
        /\ UNCHANGED <<access, purged, lost, faults>>
    BY <1>2, <1>5 DEF ClaimInvitation
  <2>2. invitation' = [invitation EXCEPT ![a] = new]
    BY <1>1, <1>2, <1>5 DEF ClaimInvitation, RowsInv, RowTypes
  <2>3. /\ used \in Link /\ used.state = "USED" /\ used.of = a
        /\ link[l].state = "USABLE"
    BY <1>1, <1>3, <1>5 DEF RowsInv, RowTypes, Link, NoLink, IsUsable
  <2>4. /\ new \in Invitation /\ new.status = "ACCEPTED" /\ new.accepted = TRUE
        /\ new.organisations = invitation[a].organisations
    BY <1>1, InvitationTypes DEF Invitation
  <2> HIDE DEF used, new
  <2>5. /\ \A k \in Links : link'[k] = IF k = l THEN used ELSE link[k]
        /\ \A b \in AccessRequests : invitation'[b] = IF b = a THEN new ELSE invitation[b]
    BY <1>1, <2>1, <2>2 DEF RowsInv, RowTypes
  <2>6. RowTypes'
    BY <1>1, <2>1, <2>2, <2>3, <2>4 DEF RowsInv, RowTypes, Accounts
  <2>7. Keeps
    BY <1>3, <2>3, <2>4, <2>5 DEF Keeps, HasInvitation
  <2>8. \A b \in AccessRequests : ~invitation[b].accepted
    BY <1>1, <1>5 DEF RowsInv, OneAcceptance
  <2>9. OneAcceptance'
    <3>1. \A k \in Links : link[k].state # "USED"
      <4>1. \A k \in Links : link[k].state = "USED" => link[k].of \in AccessRequests
        BY <1>1 DEF RowsInv, RowTypes, Link, NoLink
      <4> QED BY <1>1, <2>8, <4>1 DEF RowsInv, OneAcceptance
    <3>2. \A b \in AccessRequests : invitation'[b].accepted <=> b = a
      BY <2>4, <2>5, <2>8
    <3>3. \A k \in Links : link'[k].state = "USED" <=> k = l
      BY <2>3, <2>5, <3>1
    <3>4. link'[l].of = a
      BY <2>3, <2>5
    <3> QED BY <2>1, <3>2, <3>3, <3>4 DEF OneAcceptance
  <2>10. OneOrganisationPerRequest'
    BY <1>1, <2>1, <2>4, <2>5 DEF RowsInv, OneOrganisationPerRequest
  <2>11. RowsInv'
    <3>1. \A b \in AccessRequests :
            /\ ~HasInvitation(b)' => invitation'[b].organisations = 0 \/ purged'
            /\ invitation'[b].accepted => invitation'[b].status \in {"ACCEPTED", "EXPIRED"}
            /\ invitation'[b].status = "ACCEPTED" => invitation'[b].accepted
      BY <1>1, <2>1, <2>4, <2>5 DEF RowsInv, HasInvitation
    <3>2. \A k \in Links : link[k].state # "NONE" => link[k].of \in AccessRequests
      BY <1>1 DEF RowsInv, RowTypes, Link, NoLink
    <3>3. ASSUME NEW k \in Links, link'[k].state # "NONE" PROVE invitation'[link'[k].of].status # "NONE"
      BY <1>1, <2>3, <2>4, <2>5, <3>2, <3>3 DEF RowsInv, HasInvitation
    <3> QED BY <2>6, <2>9, <2>10, <3>1, <3>3 DEF RowsInv, HasInvitation
  <2>12. SlotsInv'
    <3>1. LocalsAreSound(Idle)'
      BY DEF Idle, LocalsAreSound
    <3> QED BY <1>1, <2>1, <2>7, <3>1, IdleSound, SlotStep
  <2>13. ASSUME NEW b \in AccessRequests, invitation'[b].status = "PENDING"
         PROVE  LinksOf(b)' # {} \/ LinkOnItsWay(b)' \/ b \in lost'
    <3>1. b # a
      BY <2>4, <2>5, <2>13
    <3>2. LinksOf(b) \subseteq LinksOf(b)'
      BY <1>3, <2>1, <2>5, <3>1 DEF LinksOf
    <3>3. LinkOnItsWay(b) => LinkOnItsWay(b)'
      BY <1>1, <1>2, <2>1, StillOnItsWay
    <3> QED BY <1>1, <2>1, <2>5, <2>13, <3>1, <3>2, <3>3 DEF PendingInvitationsHaveALink
  <2>14. PendingInvitationsHaveALink'
    BY <2>13 DEF PendingInvitationsHaveALink
  <2> QED BY <2>11, <2>12, <2>14, NextParts
<1> QED BY <1>4, <1>5

-----------------------------------------------------------------------------
(* The environment, and the next-state relation.                            *)
LEMMA RegisterStep == IndInv /\ register => IndInv'
<1> SUFFICES ASSUME IndInv, register PROVE IndInv'
  OBVIOUS
<1>1. RowsInv /\ SlotsInv /\ PendingInvitationsHaveALink
  BY Parts
<1>2. RowsInv'
  BY <1>1 DEF register, RowsInv, RowTypes, Accounts, OneOrganisationPerRequest, OneAcceptance,
         HasInvitation
<1>3. SlotsInv' /\ PendingInvitationsHaveALink'
  BY <1>1 DEF register, SlotsInv, LocalsAreSound, HasInvitation, PendingInvitationsHaveALink,
         LinkOnItsWay, LinksOf
<1> QED BY <1>2, <1>3, NextParts

LEMMA PurgeStep == IndInv /\ permanentlyDeleteUser => IndInv'
<1> SUFFICES ASSUME IndInv, permanentlyDeleteUser PROVE IndInv'
  OBVIOUS
<1>1. RowsInv /\ SlotsInv /\ PendingInvitationsHaveALink
  BY Parts
<1>2. \A a \in AccessRequests :
          /\ invitation'[a] \in Invitation
          /\ invitation'[a].status = "NONE" /\ ~invitation'[a].accepted
  BY <1>1 DEF permanentlyDeleteUser, RowsInv, RowTypes, NoInvitation, Invitation,
         InvitationStatus
<1>3. \A l \in Links : link'[l] = NoLink
  BY DEF permanentlyDeleteUser
<1>4. RowTypes'
  <2>1. invitation' \in [AccessRequests -> Invitation]
    BY <1>2 DEF permanentlyDeleteUser
  <2>2. link' \in [Links -> Link]
    BY DEF permanentlyDeleteUser, Link
  <2> QED BY <1>1, <2>1, <2>2 DEF permanentlyDeleteUser, RowsInv, RowTypes, Accounts
<1>5. RowsInv'
  BY <1>1, <1>2, <1>3, <1>4 DEF permanentlyDeleteUser, RowsInv, OneOrganisationPerRequest,
         OneAcceptance, HasInvitation, NoLink
<1>6. SlotsInv'
  <2>1. ASSUME NEW r \in Requests PROVE req'[r] \in Request /\ LocalsAreSound(req[r])'
    <3>1. req'[r] \in Request
      BY <1>1, IdleSound DEF permanentlyDeleteUser, SlotsInv
    <3>2. req'[r].at \in {"idle", "create", "review", "convert"}
      BY <1>1 DEF permanentlyDeleteUser, Idle
    <3>3. req'[r].at = "review" => req'[r].seen # "CONVERTED"
      BY <1>1 DEF permanentlyDeleteUser, Idle, SlotsInv, LocalsAreSound
    <3> QED BY <3>1, <3>2, <3>3 DEF LocalsAreSound
  <2> QED BY <2>1 DEF permanentlyDeleteUser, SlotsInv
<1>7. PendingInvitationsHaveALink'
  BY <1>2 DEF PendingInvitationsHaveALink
<1> QED BY <1>5, <1>6, <1>7, NextParts

LEMMA LapseStep ==
    ASSUME IndInv,
           \/ \E a \in AccessRequests : LapseInvitation(a)
           \/ \E l \in Links : LapseLink(l)
    PROVE  IndInv'
<1>1. RowsInv /\ SlotsInv /\ PendingInvitationsHaveALink
  BY Parts
<1>2. ASSUME NEW a \in AccessRequests, LapseInvitation(a) PROVE IndInv'
  <2> DEFINE new == [invitation[a] EXCEPT !.lapsed = TRUE]
  <2>1. invitation' = [invitation EXCEPT ![a] = new]
    BY <1>2 DEF LapseInvitation
  <2>2. /\ new \in Invitation /\ new.status = "PENDING" /\ invitation[a].status = "PENDING"
        /\ new.accepted = invitation[a].accepted
        /\ new.organisations = invitation[a].organisations
    BY <1>1, <1>2, InvitationTypes DEF LapseInvitation, Invitation
  <2> HIDE DEF new
  <2>3. /\ RowsInv' /\ Keeps
        /\ \A b \in AccessRequests :
              invitation'[b].status = "PENDING" => invitation[b].status = "PENDING"
    BY <1>1, <1>2, <2>1, <2>2, InvitationStep DEF LapseInvitation, HasInvitation
  <2>5. SlotsInv'
    <3>1. ASSUME NEW q \in Requests PROVE LocalsAreSound(req[q])'
      <4>1. req[q] \in Request /\ LocalsAreSound(req[q]) /\ req' = req
        BY <1>1, <1>2 DEF SlotsInv, LapseInvitation
      <4>2. req[q].at \in {"prolong", "revokeLinks", "insertLink", "expire", "accept"} =>
                req[q].of \in AccessRequests
        BY <4>1 DEF Request
      <4>3. req[q].at = "accept" => req[q].link \in Links
        BY <4>1 DEF Request
      <4> QED BY <2>3, <4>1, <4>2, <4>3 DEF LocalsAreSound, Keeps
    <3> QED BY <1>1, <1>2, <3>1 DEF SlotsInv, LapseInvitation
  <2>6. PendingInvitationsHaveALink'
    <3>1. \A b \in AccessRequests : LinksOf(b)' = LinksOf(b)
      BY <1>2 DEF LapseInvitation, LinksOf
    <3>2. \A b \in AccessRequests : LinkOnItsWay(b)' = LinkOnItsWay(b)
      BY <1>2 DEF LapseInvitation, LinkOnItsWay
    <3> QED BY <1>1, <1>2, <2>3, <3>1, <3>2 DEF PendingInvitationsHaveALink, LapseInvitation
  <2> QED BY <2>3, <2>5, <2>6, NextParts
<1>3. ASSUME NEW l \in Links, LapseLink(l) PROVE IndInv'
  <2>1. \A k \in Links :
            /\ link'[k] \in Link /\ link'[k].state = link[k].state
            /\ link[k].state # "NONE" => link'[k].of = link[k].of
    <3> DEFINE new == [link[l] EXCEPT !.lapsed = TRUE]
    <3>1. /\ link \in [Links -> Link] /\ link[l].state # "NONE"
          /\ link' = [link EXCEPT ![l] = new]
      BY <1>1, <1>3 DEF LapseLink, RowsInv, RowTypes
    <3>2. link[l] \in [of : AccessRequests, state : {"USABLE", "USED", "REVOKED"}, lapsed : BOOLEAN]
      BY <3>1 DEF Link, NoLink
    <3>3. new \in Link /\ new.state = link[l].state /\ new.of = link[l].of
      BY <3>2 DEF Link
    <3> HIDE DEF new
    <3>4. \A k \in Links : link'[k] = IF k = l THEN new ELSE link[k]
      BY <3>1
    <3> QED BY <3>1, <3>3, <3>4
  <2>2. UNCHANGED <<access, invitation, account, purged, lost, faults, req>>
    BY <1>3 DEF LapseLink
  <2>3. RowTypes'
    BY <1>1, <1>3, <2>1, <2>2 DEF LapseLink, RowsInv, RowTypes
  <2>4. RowsInv'
    <3>1. OneOrganisationPerRequest'
      BY <1>1, <2>2 DEF RowsInv, OneOrganisationPerRequest
    <3>2. OneAcceptance'
      BY <1>1, <2>1, <2>2 DEF RowsInv, OneAcceptance
    <3> QED BY <1>1, <2>1, <2>2, <2>3, <3>1, <3>2 DEF RowsInv, HasInvitation
  <2>5. SlotsInv'
    <3>1. ASSUME NEW q \in Requests PROVE LocalsAreSound(req[q])'
      <4>1. req[q] \in Request /\ LocalsAreSound(req[q]) /\ req' = req
        BY <1>1, <2>2 DEF SlotsInv
      <4>2. req[q].at = "accept" => req[q].link \in Links
        BY <4>1 DEF Request
      <4> QED BY <2>1, <2>2, <4>1, <4>2 DEF LocalsAreSound, HasInvitation
    <3> QED BY <1>1, <2>2, <3>1 DEF SlotsInv
  <2>6. PendingInvitationsHaveALink'
    <3>1. \A b \in AccessRequests : LinksOf(b) \subseteq LinksOf(b)'
      BY <2>1 DEF LinksOf
    <3>2. \A b \in AccessRequests : LinkOnItsWay(b)' = LinkOnItsWay(b)
      BY <2>2 DEF LinkOnItsWay
    <3> QED BY <1>1, <2>2, <3>1, <3>2 DEF PendingInvitationsHaveALink
  <2> QED BY <2>4, <2>5, <2>6, NextParts
<1> QED BY <1>2, <1>3

LEMMA CrashStep ==
    ASSUME IndInv, NEW r \in Requests, Crash(r)
    PROVE  IndInv'
<1>1. RowsInv /\ SlotsInv /\ PendingInvitationsHaveALink
  BY Parts
<1> DEFINE died == IF req[r].at \in {"revokeLinks", "insertLink"} THEN {req[r].of} ELSE {}
<1>2. /\ lost' = lost \cup died /\ faults' = faults + 1 /\ faults < MaxFaults
      /\ Goto(r, Idle)
      /\ UNCHANGED <<access, invitation, link, account, purged>>
  BY DEF Crash
<1>3. died \subseteq AccessRequests
  <2>1. req[r] \in Request
    BY <1>1 DEF SlotsInv
  <2> QED BY <2>1 DEF Request
<1>4. RowTypes'
  <2>1. faults' \in 0 .. MaxFaults
    BY <1>1, <1>2, FaultsAssumption DEF RowsInv, RowTypes
  <2> HIDE DEF died
  <2> QED BY <1>1, <1>2, <1>3, <2>1 DEF RowsInv, RowTypes
<1>5. RowsInv' /\ Keeps
  BY <1>1, <1>2, <1>4 DEF RowsInv, OneOrganisationPerRequest, OneAcceptance, HasInvitation, Keeps
<1>6. SlotsInv'
  <2>1. LocalsAreSound(Idle)'
    BY DEF Idle, LocalsAreSound
  <2> QED BY <1>1, <1>2, <1>5, <2>1, IdleSound, SlotStep
<1>7. PendingInvitationsHaveALink'
  <2>1. ASSUME NEW a \in AccessRequests, invitation'[a].status = "PENDING"
        PROVE  LinksOf(a)' # {} \/ LinkOnItsWay(a)' \/ a \in lost'
    <3>1. LinksOf(a)' = LinksOf(a)
      BY <1>2 DEF LinksOf
    <3>2. CASE LinkOnItsWay(a)
      <4>1. CASE req[r].at \in {"revokeLinks", "insertLink"} /\ req[r].of = a
        BY <1>2, <4>1
      <4>2. CASE ~(req[r].at \in {"revokeLinks", "insertLink"} /\ req[r].of = a)
        BY <1>1, <1>2, <3>2, <4>2, StillOnItsWay
      <4> QED BY <4>1, <4>2
    <3>3. CASE ~LinkOnItsWay(a)
      BY <1>1, <1>2, <2>1, <3>1, <3>3 DEF PendingInvitationsHaveALink
    <3> QED BY <3>2, <3>3
  <2> QED BY <2>1 DEF PendingInvitationsHaveALink
<1> QED BY <1>5, <1>6, <1>7, NextParts

LEMMA NextSound == IndInv /\ [Next]_vars => IndInv'
<1> SUFFICES ASSUME IndInv, [Next]_vars PROVE IndInv'
  OBVIOUS
<1>1. ASSUME NEW r \in Requests, Continue(r) PROVE IndInv'
  BY <1>1, AccessStep, ConvertStep, InvitationWrites, RevokeStep, InsertStep, ClaimStep
     DEF Continue
<1>2. CASE UNCHANGED vars
  BY <1>2 DEF vars, IndInv, TypeOK, OneOrganisationPerRequest, OneAcceptance,
         PendingInvitationsHaveALink, LinksOf, LinkOnItsWay, HasInvitation, LocalsAreSound
<1> QED BY <1>1, <1>2, ArriveSound, CrashStep, RegisterStep, PurgeStep, LapseStep DEF Next

-----------------------------------------------------------------------------
(* Types, sound locals and the invariants together.                         *)
THEOREM Inductive == Spec => []IndInv
<1>1. Init => IndInv
  BY InitInv
<1>2. IndInv /\ [Next]_vars => IndInv'
  BY NextSound
<1> QED BY <1>1, <1>2, PTL DEF Spec

(* Overlapping conversions of an access request make one organisation.      *)
THEOREM OneOrganisation == Spec => []OneOrganisationPerRequest
<1>1. IndInv => OneOrganisationPerRequest
  BY DEF IndInv
<1> QED BY <1>1, Inductive, PTL

(* Account, accepted invitation and used link of a contact come together.   *)
THEOREM AcceptedOnce == Spec => []OneAcceptance
<1>1. IndInv => OneAcceptance
  BY DEF IndInv
<1> QED BY <1>1, Inductive, PTL

(* Unless a request died, a pending invitation can be answered by a link.   *)
THEOREM LinkedOrOnItsWay == Spec => []PendingInvitationsHaveALink
<1>1. IndInv => PendingInvitationsHaveALink
  BY DEF IndInv
<1> QED BY <1>1, Inductive, PTL

(* The only step that takes a conversion back.                              *)
LEMMA ConversionStep ==
    ASSUME IndInv, [Next]_vars, NEW a \in AccessRequests,
           access[a] = "CONVERTED", access'[a] # "CONVERTED"
    PROVE  \E r \in Requests :
               At(r, "review") /\ req[r].of = a /\ req[r].seen # "CONVERTED"
<1>0. access \in [AccessRequests -> AccessStatus] /\ access' # access
  BY DEF IndInv, TypeOK
<1>1. ASSUME NEW r \in Requests, Arrive(r) PROVE FALSE
  BY <1>0, <1>1 DEF Arrive, Start, rows, create, review, convert, resendAdminInvitationEmail,
     getOrganisationAdminInvitationByToken, acceptOrganisationAdminInvitation
<1>2. ASSUME NEW r \in Requests, Continue(r) PROVE At(r, "review") /\ req[r].of = a
  <2>1. CASE WriteReview(r)
    BY <1>0, <2>1 DEF WriteReview
  <2>2. CASE ConvertRequest(r)
    BY <1>0, <2>2 DEF ConvertRequest
  <2>3. ASSUME NEW b \in AccessRequests, InsertAccessRequest(r, b) PROVE FALSE
    BY <1>0, <2>3 DEF InsertAccessRequest
  <2>4. CASE \/ ProlongInvitation(r) \/ revokeActiveTokens(r)
             \/ \E l \in Links : createToken(r, l)
             \/ ExpireInvitation(r) \/ ClaimInvitation(r)
    BY <1>0, <2>4 DEF ProlongInvitation, revokeActiveTokens, createToken, ExpireInvitation,
       ClaimInvitation
  <2> QED BY <1>2, <2>1, <2>2, <2>3, <2>4 DEF Continue
<1>3. ASSUME NEW r \in Requests, Crash(r) PROVE FALSE
  BY <1>0, <1>3 DEF Crash
<1>4. CASE UNCHANGED vars
  BY <1>0, <1>4 DEF vars
<1>5. PICK r \in Requests : At(r, "review") /\ req[r].of = a
  BY <1>0, <1>1, <1>2, <1>3, <1>4 DEF Next, register, permanentlyDeleteUser,
     LapseInvitation, LapseLink
<1>6. req[r].seen # "CONVERTED"
  BY <1>5 DEF IndInv, LocalsAreSound, At
<1> QED BY <1>5, <1>6

(* Only a review that read the request before it was converted can take     *)
(* the conversion back (organisation-access-requests.service, review).      *)
THEOREM ConversionsKept == Spec => OnlyStaleReviewsUndoConversions
<1>1. IndInv /\ [Next]_vars =>
        [\A a \in AccessRequests :
            access[a] = "CONVERTED" /\ access'[a] # "CONVERTED" =>
                \E r \in Requests :
                    At(r, "review") /\ req[r].of = a /\ req[r].seen # "CONVERTED"]_vars
  BY ConversionStep
<1> QED BY <1>1, Inductive, PTL DEF Spec, OnlyStaleReviewsUndoConversions

-----------------------------------------------------------------------------
(* Requests that do not overlap: with one slot, the rows are still as the   *)
(* request read them.  Users may register, or be purged, and invitations    *)
(* and links may lapse meanwhile.                                           *)
OneSlot == \A q, r \in Requests : q = r

StillSo(q) ==
    /\ q.at = "create" => \A a \in AccessRequests : access[a] # "PENDING"
    /\ q.at = "review" => access[q.of] = q.seen
    /\ q.at = "convert" => access[q.of] = "APPROVED"
    /\ q.at = "expire" => invitation[q.of].status = "PENDING"
    /\ q.at = "insertLink" => LinksOf(q.of) = {}

(* A contact has one request that waits for an answer, what has become an   *)
(* organisation counts as converted, and an invitation has one usable link. *)
OnePendingRequest ==
    \A a, b \in AccessRequests : access[a] = "PENDING" /\ access[b] = "PENDING" => a = b
OrganisationsAreConverted ==
    \A a \in AccessRequests : HasInvitation(a) => access[a] = "CONVERTED"
OneUsableLink ==
    \A k, l \in Links :
        link[k].state = "USABLE" /\ link[l].state = "USABLE" /\ link[k].of = link[l].of => k = l
SerialRows == OnePendingRequest /\ OrganisationsAreConverted /\ OneUsableLink

SerialInv == IndInv /\ SerialRows /\ \A r \in Requests : StillSo(req[r])

(* The one request goes on, or is done.                                     *)
LEMMA SlotSerial ==
    ASSUME OneSlot, IndInv, IndInv', SerialRows', NEW r \in Requests, NEW next,
           Goto(r, next), StillSo(next)'
    PROVE  SerialInv'
<1>1. ASSUME NEW q \in Requests PROVE StillSo(req[q])'
  <2>1. req'[q] = next
    BY DEF OneSlot, Goto, IndInv, TypeOK
  <2> QED BY <2>1 DEF StillSo
<1> QED BY <1>1 DEF SerialInv

LEMMA DoneSerial ==
    ASSUME OneSlot, IndInv, IndInv', SerialRows', NEW r \in Requests, Goto(r, Idle)
    PROVE  SerialInv'
<1>1. StillSo(Idle)'
  BY DEF StillSo, Idle
<1> QED BY <1>1, SlotSerial

(* Steps that make no link usable, no invitation and no change of status.   *)
LEMMA QuietSerial ==
    ASSUME SerialRows, UNCHANGED access,
           \A a \in AccessRequests : HasInvitation(a)' => HasInvitation(a),
           \A l \in Links : link'[l].state = "USABLE" =>
               link[l].state = "USABLE" /\ link'[l].of = link[l].of
    PROVE  SerialRows'
<1>1. OnePendingRequest'
  BY DEF SerialRows, OnePendingRequest
<1>2. OrganisationsAreConverted'
  BY DEF SerialRows, OrganisationsAreConverted
<1>3. OneUsableLink'
  BY DEF SerialRows, OneUsableLink
<1> QED BY <1>1, <1>2, <1>3 DEF SerialRows

LEMMA SameSerial ==
    ASSUME SerialRows, UNCHANGED <<access, invitation, link>>
    PROVE  SerialRows'
BY DEF SerialRows, OnePendingRequest, OrganisationsAreConverted, OneUsableLink, HasInvitation

LEMMA ArriveSerial ==
    ASSUME OneSlot, SerialInv, IndInv', NEW r \in Requests, Arrive(r)
    PROVE  SerialInv'
<1>1. ASSUME NEW next, Start(r, next), StillSo(next) PROVE SerialInv'
  <2>1. IndInv /\ SerialRows' /\ Goto(r, next)
    BY <1>1, SameSerial DEF SerialInv, Start, rows
  <2>2. StillSo(next)'
    BY <1>1 DEF Start, rows, StillSo, LinksOf
  <2> QED BY <2>1, <2>2, SlotSerial
<1>2. CASE create(r)
  BY <1>1, <1>2 DEF create, StillSo
<1>3. ASSUME NEW a \in AccessRequests, NEW decision, review(r, a, decision) PROVE SerialInv'
  BY <1>1, <1>3 DEF review, StillSo
<1>4. ASSUME NEW a \in AccessRequests, convert(r, a) PROVE SerialInv'
  BY <1>1, <1>4 DEF convert, StillSo
<1>5. ASSUME NEW a \in AccessRequests, resendAdminInvitationEmail(r, a) PROVE SerialInv'
  BY <1>1, <1>5 DEF resendAdminInvitationEmail, StillSo
<1>6. ASSUME NEW l \in Links, getOrganisationAdminInvitationByToken(r, l) PROVE SerialInv'
  BY <1>1, <1>6 DEF getOrganisationAdminInvitationByToken, StillSo
<1>7. ASSUME NEW l \in Links, acceptOrganisationAdminInvitation(r, l) PROVE SerialInv'
  <2>1. ASSUME Start(r, [at |-> "expire", of |-> link[l].of]),
               invitation[link[l].of].status = "PENDING"
        PROVE  SerialInv'
    BY <1>1, <2>1 DEF StillSo
  <2>2. ASSUME Start(r, [at |-> "accept", of |-> link[l].of, link |-> l]) PROVE SerialInv'
    BY <1>1, <2>2 DEF StillSo
  <2> QED BY <1>7, <2>1, <2>2 DEF acceptOrganisationAdminInvitation
<1> QED BY <1>2, <1>3, <1>4, <1>5, <1>6, <1>7 DEF Arrive

(* The status of a request for access.                                      *)
LEMMA AccessSerial ==
    ASSUME OneSlot, SerialInv, IndInv', NEW r \in Requests,
           (\E a \in AccessRequests : InsertAccessRequest(r, a)) \/ WriteReview(r)
    PROVE  SerialInv'
<1>0. /\ IndInv /\ SerialRows /\ StillSo(req[r]) /\ LocalsAreSound(req[r])
      /\ access \in [AccessRequests -> AccessStatus]
      /\ UNCHANGED <<invitation, link>> /\ Goto(r, Idle)
  BY DEF SerialInv, IndInv, TypeOK, InsertAccessRequest, WriteReview
<1>1. OneUsableLink'
  BY <1>0 DEF SerialRows, OneUsableLink
<1>2. ASSUME NEW a \in AccessRequests, InsertAccessRequest(r, a) PROVE SerialRows'
  <2>1. /\ access' = [access EXCEPT ![a] = "PENDING"] /\ access[a] = "NONE"
        /\ \A b \in AccessRequests : access[b] # "PENDING"
    BY <1>0, <1>2 DEF InsertAccessRequest, At, StillSo
  <2>2. OnePendingRequest' /\ OrganisationsAreConverted'
    BY <1>0, <2>1 DEF SerialRows, OnePendingRequest, OrganisationsAreConverted, HasInvitation
  <2> QED BY <1>1, <2>2 DEF SerialRows
<1>3. CASE WriteReview(r)
  <2>1. PICK a \in AccessRequests, decision \in Decisions :
            /\ access' = [access EXCEPT ![a] = decision]
            /\ access[a] # "CONVERTED"
    BY <1>0, <1>3 DEF WriteReview, At, IndInv, TypeOK, Request, StillSo, LocalsAreSound
  <2>2. OnePendingRequest' /\ OrganisationsAreConverted'
    BY <1>0, <2>1 DEF SerialRows, OnePendingRequest, OrganisationsAreConverted, HasInvitation,
       Decisions
  <2> QED BY <1>0, <1>1, <2>2, DoneSerial DEF SerialRows
<1> QED BY <1>0, <1>2, <1>3, DoneSerial

LEMMA ConvertSerial ==
    ASSUME OneSlot, SerialInv, IndInv', NEW r \in Requests, ConvertRequest(r)
    PROVE  SerialInv'
<1>0. IndInv /\ RowsInv /\ SerialRows
  BY Parts DEF SerialInv
<1>1. PICK a \in AccessRequests : a = req[r].of
  BY DEF ConvertRequest, At, SerialInv, IndInv, TypeOK, Request
<1>2. CASE HasInvitation(a)
  BY <1>0, <1>1, <1>2, SameSerial, DoneSerial DEF ConvertRequest
<1>3. CASE ~HasInvitation(a)
  <2>1. /\ invitation' = [invitation EXCEPT ![a] = NewInvitation(a)]
        /\ access' = [access EXCEPT ![a] = "CONVERTED"]
        /\ Goto(r, [at |-> "revokeLinks", of |-> a])
        /\ UNCHANGED link
    BY <1>1, <1>3 DEF ConvertRequest, Then
  <2>2. /\ \A b \in AccessRequests :
              /\ b # a => invitation'[b] = invitation[b] /\ access'[b] = access[b]
              /\ b = a => access'[b] = "CONVERTED"
    BY <1>0, <2>1 DEF RowsInv, RowTypes
  <2>3. OnePendingRequest' /\ OrganisationsAreConverted' /\ OneUsableLink'
    BY <1>0, <2>1, <2>2 DEF SerialRows, OnePendingRequest, OrganisationsAreConverted,
       OneUsableLink, HasInvitation
  <2>4. StillSo([at |-> "revokeLinks", of |-> a])'
    BY DEF StillSo
  <2> QED BY <1>0, <2>1, <2>3, <2>4, SlotSerial DEF SerialRows
<1> QED BY <1>2, <1>3

(* An invitation is prolonged, expires or is accepted.                      *)
LEMMA InvitationSerial ==
    ASSUME OneSlot, SerialInv, IndInv', NEW r \in Requests,
           ProlongInvitation(r) \/ ExpireInvitation(r) \/ ClaimInvitation(r)
    PROVE  SerialInv'
<1>0. IndInv /\ RowsInv /\ SerialRows /\ req[r] \in Request /\ LocalsAreSound(req[r])
  BY Parts DEF SerialInv, IndInv, TypeOK
<1>1. PICK a \in AccessRequests :
          /\ a = req[r].of /\ HasInvitation(a)
          /\ \A b \in AccessRequests : b # a => invitation'[b] = invitation[b]
  BY <1>0 DEF ProlongInvitation, ExpireInvitation, ClaimInvitation, At, Request,
     LocalsAreSound, RowsInv, RowTypes
<1>2. \A b \in AccessRequests : HasInvitation(b)' => HasInvitation(b)
  BY <1>1 DEF HasInvitation
<1>3. \A l \in Links : link'[l].state = "USABLE" => link'[l] = link[l]
  <2>1. CASE ClaimInvitation(r) /\ link' # link
    <3>1. PICK k \in Links :
              link[k].state # "NONE" /\ link' = [link EXCEPT ![k].state = "USED"]
      BY <1>0, <2>1 DEF ClaimInvitation, At, Request, LocalsAreSound
    <3>2. link[k] \in [of : AccessRequests, state : {"USABLE", "USED", "REVOKED"},
                       lapsed : BOOLEAN]
      BY <1>0, <3>1 DEF RowsInv, RowTypes, Link, NoLink
    <3>3. [link[k] EXCEPT !.state = "USED"].state = "USED"
      BY <3>2
    <3> QED BY <1>0, <3>1, <3>3 DEF RowsInv, RowTypes
  <2>2. CASE link' = link
    BY <2>2
  <2> QED BY <2>1, <2>2 DEF ProlongInvitation, ExpireInvitation
<1>4. UNCHANGED access
  BY DEF ProlongInvitation, ExpireInvitation, ClaimInvitation
<1>5. SerialRows'
  BY <1>0, <1>2, <1>3, <1>4, QuietSerial
<1>6. CASE ProlongInvitation(r)
  <2>1. Goto(r, [at |-> "revokeLinks", of |-> a])
    BY <1>1, <1>6 DEF ProlongInvitation, Then
  <2>2. StillSo([at |-> "revokeLinks", of |-> a])'
    BY DEF StillSo
  <2> QED BY <1>0, <1>5, <2>1, <2>2, SlotSerial
<1>7. CASE ExpireInvitation(r) \/ ClaimInvitation(r)
  BY <1>0, <1>5, <1>7, DoneSerial DEF ExpireInvitation, ClaimInvitation
<1> QED BY <1>6, <1>7

(* The revocation leaves no usable link, so the insertion makes one.        *)
LEMMA LinkSerial ==
    ASSUME OneSlot, SerialInv, IndInv', NEW r \in Requests,
           revokeActiveTokens(r) \/ \E l \in Links : createToken(r, l)
    PROVE  SerialInv'
<1>0. /\ IndInv /\ RowsInv /\ SerialRows /\ req[r] \in Request /\ StillSo(req[r])
      /\ UNCHANGED <<access, invitation>> /\ \A b \in AccessRequests :
                                                HasInvitation(b)' <=> HasInvitation(b)
  BY Parts DEF SerialInv, IndInv, TypeOK, revokeActiveTokens, createToken, HasInvitation
<1>1. CASE revokeActiveTokens(r)
  <2>1. PICK a \in AccessRequests : a = req[r].of
    BY <1>0, <1>1 DEF revokeActiveTokens, At, Request
  <2>2. \A l \in Links : link'[l].state = "USABLE" => link'[l] = link[l] /\ l \notin LinksOf(a)
    BY <1>0, <1>1, <2>1 DEF revokeActiveTokens, LinksOf, RowsInv, RowTypes, Link, NoLink
  <2>3. SerialRows'
    BY <1>0, <2>2, QuietSerial
  <2> DEFINE next == [at |-> "insertLink", of |-> a]
  <2>4. Goto(r, next)
    BY <1>1, <2>1 DEF revokeActiveTokens, Then
  <2>5. LinksOf(a)' = {}
    BY <2>2 DEF LinksOf
  <2>6. StillSo(next)'
    BY <2>5 DEF StillSo, LinksOf
  <2> QED BY <1>0, <2>3, <2>4, <2>6, SlotSerial
<1>2. ASSUME NEW l \in Links, createToken(r, l) PROVE SerialInv'
  <2>1. PICK a \in AccessRequests : a = req[r].of
    BY <1>0, <1>2 DEF createToken, At, Request
  <2>2. LinksOf(a) = {}
    BY <1>0, <1>2, <2>1 DEF createToken, At, StillSo
  <2>3. /\ \A k \in Links : k # l => link'[k] = link[k]
        /\ link'[l].of = a
    BY <1>0, <1>2, <2>1 DEF createToken, RowsInv, RowTypes
  <2>4. OneUsableLink'
    <3>1. ASSUME NEW k \in Links, k # l, link'[k].state = "USABLE" PROVE link'[k].of # a
      BY <2>2, <2>3, <3>1 DEF LinksOf
    <3> QED BY <1>0, <2>3, <3>1 DEF SerialRows, OneUsableLink
  <2>5. OnePendingRequest' /\ OrganisationsAreConverted'
    BY <1>0 DEF SerialRows, OnePendingRequest, OrganisationsAreConverted
  <2> QED BY <1>0, <1>2, <2>4, <2>5, DoneSerial DEF SerialRows, createToken
<1> QED BY <1>1, <1>2

(* The environment.                                                         *)
LEMMA PurgeSerial == SerialInv /\ IndInv' /\ permanentlyDeleteUser => SerialInv'
<1> SUFFICES ASSUME SerialInv, IndInv', permanentlyDeleteUser PROVE SerialInv'
  OBVIOUS
<1>1. SerialRows'
  <2>1. \A a \in AccessRequests : ~HasInvitation(a)'
    BY DEF permanentlyDeleteUser, HasInvitation, NoInvitation
  <2>2. \A l \in Links : link'[l].state # "USABLE"
    BY DEF permanentlyDeleteUser, NoLink
  <2> QED BY <2>1, <2>2, QuietSerial DEF SerialInv, permanentlyDeleteUser
<1>2. ASSUME NEW q \in Requests PROVE StillSo(req[q])'
  <2>1. /\ StillSo(req[q]) /\ UNCHANGED access
        /\ req'[q].at \in {"idle", "create", "review", "convert"}
        /\ req'[q].at # "idle" => req'[q] = req[q]
    BY DEF SerialInv, permanentlyDeleteUser, Idle
  <2> QED BY <2>1 DEF StillSo
<1> QED BY <1>1, <1>2 DEF SerialInv

LEMMA LapseSerial ==
    ASSUME SerialInv, IndInv',
           \/ \E a \in AccessRequests : LapseInvitation(a)
           \/ \E l \in Links : LapseLink(l)
           \/ register
    PROVE  SerialInv'
<1>0. /\ RowsInv /\ SerialRows /\ UNCHANGED <<access, req>> /\ req \in [Requests -> Request]
      /\ \A q \in Requests : LocalsAreSound(req[q])
  BY Parts DEF SerialInv, LapseInvitation, LapseLink, register, IndInv, TypeOK
<1>1. \A a \in AccessRequests : invitation'[a].status = invitation[a].status
  <2>1. ASSUME NEW b \in AccessRequests, LapseInvitation(b), NEW a \in AccessRequests
        PROVE  invitation'[a].status = invitation[a].status
    <3>1. /\ invitation[b] \in Invitation
          /\ invitation' = [invitation EXCEPT ![b] = [invitation[b] EXCEPT !.lapsed = TRUE]]
      BY <1>0, <2>1 DEF LapseInvitation, RowsInv, RowTypes
    <3>2. [invitation[b] EXCEPT !.lapsed = TRUE].status = invitation[b].status
      BY <3>1 DEF Invitation
    <3> QED BY <1>0, <3>1, <3>2 DEF RowsInv, RowTypes
  <2> QED BY <2>1 DEF LapseLink, register
<1>2. \A l \in Links :
          /\ link'[l].state = link[l].state
          /\ link[l].state # "NONE" => link'[l].of = link[l].of
  <2>1. ASSUME NEW k \in Links, LapseLink(k), NEW l \in Links
        PROVE  /\ link'[l].state = link[l].state
               /\ link[l].state # "NONE" => link'[l].of = link[l].of
    <3>1. link \in [Links -> Link] /\ link' = [link EXCEPT ![k].lapsed = TRUE]
      BY <1>0, <2>1 DEF LapseLink, RowsInv, RowTypes
    <3>2. CASE l # k
      BY <3>1, <3>2
    <3>3. CASE l = k
      <4>1. link[l] \in [of : AccessRequests, state : {"USABLE", "USED", "REVOKED"},
                         lapsed : BOOLEAN]
        BY <2>1, <3>1, <3>3 DEF LapseLink, Link, NoLink
      <4> QED BY <3>1, <3>3, <4>1
    <3> QED BY <3>2, <3>3
  <2> QED BY <2>1 DEF LapseInvitation, register
<1>3. SerialRows'
  BY <1>0, <1>1, <1>2, QuietSerial DEF HasInvitation
<1>4. ASSUME NEW q \in Requests PROVE StillSo(req[q])'
  <2>1. PICK local \in Request : req[q] = local /\ StillSo(local)
    BY <1>0 DEF SerialInv
  <2>2. local.at \in {"expire", "insertLink"} => local.of \in AccessRequests
    BY DEF Request
  <2>3. \A a \in AccessRequests : LinksOf(a)' = LinksOf(a)
    BY <1>2 DEF LinksOf
  <2>4. StillSo(local)'
    BY <1>0, <1>1, <2>1, <2>2, <2>3 DEF StillSo
  <2> QED BY <1>0, <2>1, <2>4
<1> QED BY <1>3, <1>4 DEF SerialInv

LEMMA SerialStep ==
    ASSUME OneSlot, SerialInv, [Next]_vars
    PROVE  SerialInv'
<1>1. IndInv /\ IndInv'
  BY NextSound DEF SerialInv
<1>2. ASSUME NEW r \in Requests, Continue(r) PROVE SerialInv'
  BY <1>1, <1>2, AccessSerial, ConvertSerial, InvitationSerial, LinkSerial DEF Continue
<1>3. ASSUME NEW r \in Requests, Crash(r) PROVE SerialInv'
  BY <1>1, <1>3, SameSerial, DoneSerial DEF Crash, SerialInv
<1>4. CASE UNCHANGED vars
  BY <1>1, <1>4, SameSerial DEF vars, SerialInv, StillSo, LinksOf
<1> QED BY <1>1, <1>2, <1>3, <1>4, ArriveSerial, PurgeSerial, LapseSerial DEF Next

LEMMA SerialInit == Init => SerialInv
<1> SUFFICES ASSUME Init PROVE SerialInv
  OBVIOUS
<1>1. SerialRows
  BY DEF Init, SerialRows, OnePendingRequest, OrganisationsAreConverted, OneUsableLink,
     HasInvitation, NoInvitation, NoLink
<1>2. ASSUME NEW r \in Requests PROVE StillSo(req[r])
  BY DEF Init, Idle, StillSo
<1> QED BY <1>1, <1>2, InitInv DEF SerialInv

(* Requests that do not overlap: a contact has one pending request at most, *)
(* whatever has an organisation is CONVERTED, and an invitation has one     *)
(* usable link (create, review, convert and createToken).                   *)
THEOREM SerialRequests == ASSUME OneSlot PROVE Spec => []SerialRows
<1>1. SerialInv /\ [Next]_vars => SerialInv'
  BY SerialStep
<1>2. SerialInv => SerialRows
  BY DEF SerialInv
<1> QED BY <1>1, <1>2, SerialInit, PTL DEF Spec

(* A conversion is final: the hole that OnlyStaleReviewsUndoConversions     *)
(* leaves takes two requests at a time.                                     *)
THEOREM SerialConversion ==
    ASSUME OneSlot
    PROVE  Spec => [][\A a \in AccessRequests :
                        access[a] = "CONVERTED" => access'[a] = "CONVERTED"]_vars
<1>1. SerialInv /\ [Next]_vars => SerialInv'
  BY SerialStep
<1>2. ASSUME SerialInv, [Next]_vars, NEW a \in AccessRequests, access[a] = "CONVERTED"
      PROVE  access'[a] = "CONVERTED"
  <2>1. ASSUME NEW r \in Requests, At(r, "review"), req[r].of = a
        PROVE  req[r].seen = "CONVERTED"
    BY <1>2, <2>1 DEF SerialInv, StillSo, At
  <2> QED BY <1>2, <2>1, ConversionStep DEF SerialInv
<1>3. SerialInv /\ [Next]_vars =>
        [\A a \in AccessRequests :
            access[a] = "CONVERTED" => access'[a] = "CONVERTED"]_vars
  BY <1>2
<1> QED BY <1>1, <1>3, SerialInit, PTL DEF Spec

(* An accepted invitation stays accepted until the purge of the contact     *)
(* deletes it: no resend and no late opening of an older link changes it    *)
(* (resendAdminInvitationEmail, getOrganisationAdminInvitationByToken).     *)
THEOREM SerialAcceptance ==
    ASSUME OneSlot
    PROVE  Spec => [][\A a \in AccessRequests : invitation[a].status = "ACCEPTED" =>
                        \/ invitation'[a].status = "ACCEPTED"
                        \/ permanentlyDeleteUser]_vars
<1>1. SerialInv /\ [Next]_vars => SerialInv'
  BY SerialStep
<1>2. ASSUME SerialInv, [Next]_vars, NEW a \in AccessRequests,
             invitation[a].status = "ACCEPTED", ~permanentlyDeleteUser
      PROVE  invitation'[a].status = "ACCEPTED"
  <2>0. invitation \in [AccessRequests -> Invitation] /\ HasInvitation(a)
    BY <1>2 DEF SerialInv, IndInv, TypeOK, HasInvitation
  <2>1. ASSUME NEW r \in Requests, Arrive(r) \/ Crash(r) PROVE invitation' = invitation
    BY <2>1 DEF Arrive, Start, rows, create, review, convert, resendAdminInvitationEmail,
       getOrganisationAdminInvitationByToken, acceptOrganisationAdminInvitation, Crash
  <2>2. ASSUME NEW r \in Requests, Continue(r) PROVE invitation'[a].status = "ACCEPTED"
    <3>1. CASE ConvertRequest(r)
      BY <1>2, <2>0, <3>1 DEF ConvertRequest
    <3>2. CASE ProlongInvitation(r)
      <4>1. [invitation[a] EXCEPT !.lapsed = FALSE].status = "ACCEPTED"
        BY <1>2, <2>0 DEF Invitation
      <4> QED BY <1>2, <2>0, <3>2, <4>1 DEF ProlongInvitation
    <3>3. CASE ExpireInvitation(r)
      <4>1. req[r].of # a
        BY <1>2, <3>3 DEF SerialInv, StillSo, ExpireInvitation, At
      <4> QED BY <1>2, <2>0, <3>3, <4>1 DEF ExpireInvitation
    <3>4. CASE ClaimInvitation(r)
      BY <1>2, <2>0, <3>4 DEF ClaimInvitation
    <3>5. CASE \/ \E b \in AccessRequests : InsertAccessRequest(r, b)
               \/ WriteReview(r) \/ revokeActiveTokens(r)
               \/ \E l \in Links : createToken(r, l)
      BY <1>2, <3>5 DEF InsertAccessRequest, WriteReview, revokeActiveTokens, createToken
    <3> QED BY <2>2, <3>1, <3>2, <3>3, <3>4, <3>5 DEF Continue
  <2>3. ASSUME NEW b \in AccessRequests, LapseInvitation(b)
        PROVE  invitation'[a].status = "ACCEPTED"
    BY <1>2, <2>0, <2>3 DEF LapseInvitation
  <2>4. CASE UNCHANGED vars
    BY <1>2, <2>4 DEF vars
  <2> QED BY <1>2, <2>1, <2>2, <2>3, <2>4 DEF Next, register, LapseLink
<1>3. SerialInv /\ [Next]_vars =>
        [\A a \in AccessRequests : invitation[a].status = "ACCEPTED" =>
            \/ invitation'[a].status = "ACCEPTED"
            \/ permanentlyDeleteUser]_vars
  BY <1>2
<1> QED BY <1>1, <1>3, SerialInit, PTL DEF Spec
=============================================================================
