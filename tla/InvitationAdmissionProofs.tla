--------------------- MODULE InvitationAdmissionProofs ---------------------
(* Proofs about InvitationAdmission, for any number of invitations and of   *)
(* overlapping requests.                                                    *)
EXTENDS InvitationAdmission, TLAPS

LEMMA InitInv == Init => IndInv
<1> SUFFICES ASSUME Init PROVE IndInv
  OBVIOUS
<1>1. TypeOK
  <2>1. req \in [Requests -> Request]
    BY DEF Init, Idle, Request
  <2>2. now \in 0 .. MaxTime /\ faults \in 0 .. MaxFaults
    BY BoundsAssumption DEF Init
  <2>3. /\ status \in [Invitations -> InvitationStatus \cup {"NONE"}]
        /\ expiresAt \in [Invitations -> Times]
        /\ assigned \in [Invitations -> BOOLEAN]
        /\ used \in [Invitations -> BOOLEAN]
        /\ sessions \in [Invitations -> 0 .. 2]
        /\ account \in Accounts
    BY DEF Init, Times, Accounts
  <2> QED BY <2>1, <2>2, <2>3 DEF TypeOK
<1>2. /\ AdmissionFollowsAcceptance
      /\ RegistrationsHoldAnInvitation
      /\ \A v \in Invitations : used[v] => status[v] # "NONE"
  BY DEF Init, AdmissionFollowsAcceptance, RegistrationsHoldAnInvitation
<1>3. \A r \in Requests : LocalsAreSound(req[r])
  BY DEF Init, Idle, LocalsAreSound
<1> QED BY <1>1, <1>2, <1>3 DEF IndInv

-----------------------------------------------------------------------------
(* A step of r that goes on to `next`: acceptances are never taken back,   *)
(* so the other requests' locals stay sound.                               *)
LEMMA MoveSound ==
    ASSUME IndInv, NEW r \in Requests, NEW next \in Request, Goto(r, next),
           \A v \in Invitations : used[v] => used'[v],
           LocalsAreSound(next)'
    PROVE  /\ req' \in [Requests -> Request]
           /\ \A q \in Requests : LocalsAreSound(req[q])'
<1>1. req' \in [Requests -> Request]
  BY DEF Goto, IndInv, TypeOK
<1>2. ASSUME NEW q \in Requests PROVE LocalsAreSound(req[q])'
  <2>1. CASE q = r
    BY <2>1 DEF Goto, IndInv, TypeOK, LocalsAreSound
  <2>2. CASE q # r
    <3>1. req'[q] = req[q] /\ req[q] \in Request /\ LocalsAreSound(req[q])
      BY <2>2 DEF Goto, IndInv, TypeOK
    <3> QED BY <3>1 DEF Request, LocalsAreSound
  <2> QED BY <2>1, <2>2
<1> QED BY <1>1, <1>2

(* A step that only moves its request.                                     *)
LEMMA QuietSound ==
    ASSUME IndInv, NEW r \in Requests, NEW next \in Request, Goto(r, next),
           LocalsAreSound(next), UNCHANGED <<rowVars, sessions, account, now>>,
           faults' \in 0 .. MaxFaults
    PROVE  IndInv'
<1> USE DEF rowVars
<1>1. LocalsAreSound(next)'
  BY DEF LocalsAreSound
<1>2. /\ req' \in [Requests -> Request]
      /\ \A q \in Requests : LocalsAreSound(req[q])'
  BY <1>1, MoveSound
<1> QED BY <1>2 DEF IndInv, TypeOK, AdmissionFollowsAcceptance,
           RegistrationsHoldAnInvitation

LEMMA ManageSound ==
    ASSUME IndInv, NEW r \in Requests, Manage(r)
    PROVE  IndInv'
<1>0. faults \in 0 .. MaxFaults
  BY DEF IndInv, TypeOK
<1>1. ASSUME NEW toAccount \in BOOLEAN, NEW expiry \in Times,
             createInvitation(r, toAccount, expiry)
      PROVE  IndInv'
  <2>1. [at |-> "insert", assigned |-> toAccount, expiresAt |-> expiry] \in Request
    BY DEF Request
  <2>2. LocalsAreSound([at |-> "insert", assigned |-> toAccount, expiresAt |-> expiry])
    BY DEF LocalsAreSound
  <2> QED BY <1>0, <1>1, <2>1, <2>2, QuietSound DEF createInvitation
<1>2. ASSUME NEW v \in Invitations, NEW expiry \in Times, extendInvitation(r, v, expiry)
      PROVE  IndInv'
  <2> PICK next : next = [at |-> "extend", inv |-> v, expiresAt |-> expiry,
                status |-> IF status[v] = "EXPIRED" THEN "PENDING" ELSE status[v]]
    OBVIOUS
  <2>1. next \in Request
    BY <1>2 DEF extendInvitation, Request, Open
  <2>2. LocalsAreSound(next)
    BY <1>2 DEF extendInvitation, LocalsAreSound, IndInv, AdmissionFollowsAcceptance
  <2> QED BY <1>0, <1>2, <2>1, <2>2, QuietSound DEF extendInvitation
<1>3. ASSUME NEW v \in Invitations, cancelInvitation(r, v)
      PROVE  IndInv'
  <2>1. [at |-> "cancel", inv |-> v] \in Request
    BY DEF Request
  <2>2. LocalsAreSound([at |-> "cancel", inv |-> v])
    BY DEF LocalsAreSound
  <2> QED BY <1>0, <1>3, <2>1, <2>2, QuietSound DEF cancelInvitation
<1> QED BY <1>1, <1>2, <1>3 DEF Manage

LEMMA VisitSound ==
    ASSUME IndInv, NEW r \in Requests, Visit(r)
    PROVE  IndInv'
<1>0. faults \in 0 .. MaxFaults
  BY DEF IndInv, TypeOK
<1> PICK v \in Invitations : \/ validateInvitation(r, v)
                             \/ registerCandidate(r, v)
                             \/ createSessionFromInvitation(r, v)
  BY DEF Visit
<1>1. [at |-> "expire", inv |-> v] \in Request /\ [at |-> "claim", inv |-> v] \in Request
  BY DEF Request
<1>2. /\ LocalsAreSound([at |-> "expire", inv |-> v])
      /\ LocalsAreSound([at |-> "claim", inv |-> v])
  BY DEF LocalsAreSound
<1>3. CASE validateInvitation(r, v)
  BY <1>0, <1>1, <1>2, <1>3, QuietSound DEF validateInvitation
<1>4. CASE registerCandidate(r, v)
  BY <1>0, <1>1, <1>2, <1>4, QuietSound DEF registerCandidate
<1>5. CASE createSessionFromInvitation(r, v)
  <2> PICK next : next = [at |-> "findSession", inv |-> v, seen |-> status[v]]
    OBVIOUS
  <2>1. next \in Request
    BY <1>5 DEF createSessionFromInvitation, Request
  <2>2. LocalsAreSound(next)
    BY DEF LocalsAreSound, IndInv, AdmissionFollowsAcceptance
  <2> QED BY <1>0, <1>1, <1>2, <1>5, <2>1, <2>2, QuietSound
      DEF createSessionFromInvitation
<1> QED BY <1>3, <1>4, <1>5

-----------------------------------------------------------------------------
(* The steps that write.                                                   *)

LEMMA IdleSound == Idle \in Request /\ LocalsAreSound(Idle)
BY DEF Idle, Request, LocalsAreSound

(* A row is inserted where there was none, so it carries no acceptance.    *)
LEMMA InsertSound ==
    ASSUME IndInv, NEW r \in Requests, NEW v \in Invitations, InsertInvitation(r, v)
    PROVE  IndInv'
<1>1. req[r].expiresAt \in Times /\ req[r].assigned \in BOOLEAN
  BY DEF InsertInvitation, At, IndInv, TypeOK, Request
<1>2. /\ req' \in [Requests -> Request]
      /\ \A q \in Requests : LocalsAreSound(req[q])'
  BY IdleSound, MoveSound DEF InsertInvitation, LocalsAreSound, Idle
<1>3. TypeOK'
  BY <1>1, <1>2 DEF InsertInvitation, IndInv, TypeOK, InvitationStatus
<1>4. ~used[v]
  BY DEF InsertInvitation, Free, IndInv
<1>5. AdmissionFollowsAcceptance'
  BY DEF InsertInvitation, IndInv, TypeOK, AdmissionFollowsAcceptance
<1>6. RegistrationsHoldAnInvitation'
  BY <1>4 DEF InsertInvitation, IndInv, TypeOK, RegistrationsHoldAnInvitation
<1> QED BY <1>2, <1>3, <1>5, <1>6 DEF InsertInvitation, IndInv, TypeOK

(* An update of the status alone: what it writes is either no acceptance   *)
(* or repeats one.                                                         *)
LEMMA StatusSound ==
    ASSUME IndInv, NEW r \in Requests,
           UpdateExpiry(r) \/ MarkCancelled(r) \/ MarkExpired(r)
    PROVE  IndInv'
<1> DEFINE v == req[r].inv
<1>1. PICK new \in InvitationStatus :
        /\ status' = [status EXCEPT ![v] = new]
        /\ new = "ACCEPTED" => used[v]
  <2>1. CASE UpdateExpiry(r)
    BY <2>1 DEF UpdateExpiry, At, IndInv, TypeOK, Request, LocalsAreSound,
       Open, InvitationStatus
  <2>2. CASE MarkCancelled(r) \/ MarkExpired(r)
    BY <2>2 DEF MarkCancelled, MarkExpired, InvitationStatus
  <2> QED BY <2>1, <2>2
<1>2. v \in Invitations
  BY DEF UpdateExpiry, MarkCancelled, MarkExpired, At, IndInv, TypeOK, Request
<1>3. UNCHANGED <<assigned, used, sessions, account, now, faults>> /\ Goto(r, Idle)
  BY DEF UpdateExpiry, MarkCancelled, MarkExpired
<1>4. expiresAt' \in [Invitations -> Times]
  BY <1>2 DEF UpdateExpiry, MarkCancelled, MarkExpired, At, IndInv, TypeOK, Request
<1>5. /\ req' \in [Requests -> Request]
      /\ \A q \in Requests : LocalsAreSound(req[q])'
  BY <1>3, IdleSound, MoveSound DEF LocalsAreSound, Idle
<1>6. TypeOK'
  BY <1>1, <1>2, <1>3, <1>4, <1>5 DEF IndInv, TypeOK
<1>7. AdmissionFollowsAcceptance' /\ RegistrationsHoldAnInvitation'
  BY <1>1, <1>2, <1>3 DEF IndInv, TypeOK, AdmissionFollowsAcceptance,
     RegistrationsHoldAnInvitation
<1>8. \A w \in Invitations : used'[w] => status'[w] # "NONE"
  BY <1>1, <1>2, <1>3 DEF IndInv, TypeOK, InvitationStatus
<1> QED BY <1>5, <1>6, <1>7, <1>8 DEF IndInv

(* Both guarded claims record the acceptance they make.                    *)
LEMMA ClaimSound ==
    ASSUME IndInv, NEW r \in Requests, ClaimInvitation(r) \/ AcceptInvitation(r)
    PROVE  IndInv'
<1> DEFINE v == req[r].inv
<1>0. v \in Invitations
  BY DEF ClaimInvitation, AcceptInvitation, At, IndInv, TypeOK, Request
<1>1. CASE /\ status[v] = "PENDING"
           /\ status' = [status EXCEPT ![v] = "ACCEPTED"]
           /\ used' = [used EXCEPT ![v] = TRUE]
           /\ \/ account' = account /\ assigned' = assigned
              \/ account' = "REGISTERED" /\ assigned' = [assigned EXCEPT ![v] = TRUE]
           /\ \/ Goto(r, Idle)
              \/ Goto(r, [req[r] EXCEPT !.at = "createSession"]) /\ At(r, "accept")
           /\ UNCHANGED <<expiresAt, sessions, now, faults>>
  <2> PICK target : /\ target \in {Idle, [req[r] EXCEPT !.at = "createSession"]}
                    /\ Goto(r, target)
                    /\ target # Idle => At(r, "accept")
    BY <1>1
  <2>1. target \in Request
    BY IdleSound DEF At, IndInv, TypeOK, Request
  <2>2. target # Idle => target.inv = v
    BY DEF At, IndInv, TypeOK, Request
  <2>3. used'[v] /\ \A w \in Invitations : used[w] => used'[w]
    BY <1>0, <1>1 DEF IndInv, TypeOK
  <2>4. LocalsAreSound(target)'
    <3>1. CASE target = Idle
      BY <3>1 DEF Idle, LocalsAreSound
    <3>2. CASE target # Idle
      BY <2>2, <2>3, <3>2 DEF At, IndInv, TypeOK, Request, LocalsAreSound
    <3> QED BY <3>1, <3>2
  <2>5. /\ req' \in [Requests -> Request]
        /\ \A q \in Requests : LocalsAreSound(req[q])'
    BY <2>1, <2>3, <2>4, MoveSound
  <2>6. TypeOK'
    BY <1>0, <1>1, <2>5 DEF IndInv, TypeOK, InvitationStatus, Accounts
  <2>7. AdmissionFollowsAcceptance' /\ RegistrationsHoldAnInvitation'
    BY <1>0, <1>1 DEF IndInv, TypeOK, AdmissionFollowsAcceptance,
       RegistrationsHoldAnInvitation
  <2>8. \A w \in Invitations : used'[w] => status'[w] # "NONE"
    BY <1>0, <1>1 DEF IndInv, TypeOK
  <2> QED BY <2>5, <2>6, <2>7, <2>8 DEF IndInv
<1>2. CASE Goto(r, Idle) /\ UNCHANGED <<rowVars, sessions, account, now, faults>>
  BY <1>2, IdleSound, QuietSound DEF IndInv, TypeOK
<1> QED BY <1>1, <1>2 DEF ClaimInvitation, AcceptInvitation, rowVars

(* The session is created for an invitation whose acceptance is on record. *)
LEMMA SessionSound ==
    ASSUME IndInv, NEW r \in Requests, FindInvitationSession(r) \/ CreateSession(r)
    PROVE  IndInv'
<1>0. req[r].inv \in Invitations
  BY DEF FindInvitationSession, CreateSession, At, IndInv, TypeOK, Request
<1>1. CASE FindInvitationSession(r)
  <2>1. req[r].seen \in Open /\ (req[r].seen = "ACCEPTED" => used[req[r].inv])
    BY <1>1 DEF FindInvitationSession, At, IndInv, TypeOK, Request, LocalsAreSound
  <2>2. PICK next : /\ Goto(r, next)
                    /\ next \in {Idle, [at |-> "accept", inv |-> req[r].inv],
                                 [at |-> "createSession", inv |-> req[r].inv]}
                    /\ next = [at |-> "createSession", inv |-> req[r].inv]
                          => req[r].seen = "ACCEPTED"
    BY <1>1, <2>1 DEF FindInvitationSession, Open, Idle
  <2>3. next \in Request /\ LocalsAreSound(next)
    BY <1>0, <2>1, <2>2 DEF Idle, Request, LocalsAreSound
  <2> QED BY <1>1, <2>2, <2>3, QuietSound DEF FindInvitationSession, IndInv, TypeOK
<1>2. CASE CreateSession(r)
  <2>1. used[req[r].inv]
    BY <1>2 DEF CreateSession, At, IndInv, LocalsAreSound
  <2>2. UNCHANGED <<status, expiresAt, assigned, used, account, now, faults>>
    BY <1>2 DEF CreateSession, rowVars
  <2>3. /\ req' \in [Requests -> Request]
        /\ \A q \in Requests : LocalsAreSound(req[q])'
    BY <1>2, <2>2, IdleSound, MoveSound DEF CreateSession, LocalsAreSound, Idle
  <2>4. TypeOK'
    BY <1>0, <1>2, <2>2, <2>3 DEF CreateSession, Many, IndInv, TypeOK
  <2>5. AdmissionFollowsAcceptance' /\ RegistrationsHoldAnInvitation'
    BY <1>0, <1>2, <2>1, <2>2 DEF CreateSession, IndInv, TypeOK,
       AdmissionFollowsAcceptance, RegistrationsHoldAnInvitation
  <2> QED BY <2>2, <2>3, <2>4, <2>5 DEF IndInv
<1> QED BY <1>1, <1>2

LEMMA NextInv == IndInv /\ [Next]_vars => IndInv'
<1> SUFFICES ASSUME IndInv, [Next]_vars PROVE IndInv'
  OBVIOUS
<1>1. ASSUME NEW r \in Requests, Continue(r) PROVE IndInv'
  BY <1>1, InsertSound, StatusSound, ClaimSound, SessionSound DEF Continue
<1>2. ASSUME NEW r \in Requests, Crash(r) PROVE IndInv'
  <2>1. faults' \in 0 .. MaxFaults
    BY <1>2, BoundsAssumption DEF Crash, IndInv, TypeOK
  <2> QED BY <1>2, <2>1, IdleSound, QuietSound DEF Crash
<1>3. CASE Tick
  BY <1>3, BoundsAssumption DEF Tick, rowVars, IndInv, TypeOK,
     AdmissionFollowsAcceptance, RegistrationsHoldAnInvitation, LocalsAreSound
<1>4. CASE UNCHANGED vars
  BY <1>4 DEF vars, rowVars, IndInv, TypeOK, AdmissionFollowsAcceptance,
     RegistrationsHoldAnInvitation, LocalsAreSound
<1> QED BY <1>1, <1>2, <1>3, <1>4, ManageSound, VisitSound DEF Next

THEOREM Inductive == Spec => []IndInv
BY InitInv, NextInv, PTL DEF Spec

(* Whoever sits the assessment had accepted the invitation first, however  *)
(* many links are opened, extended and cancelled at the same time.         *)
THEOREM AdmissionIsAccepted == Spec => []AdmissionFollowsAcceptance
<1>1. IndInv => AdmissionFollowsAcceptance
  BY DEF IndInv
<1> QED BY <1>1, Inductive, PTL

(* Every registered account holds the invitation it registered with.       *)
THEOREM RegistrationsAreClaims == Spec => []RegistrationsHoldAnInvitation
<1>1. IndInv => RegistrationsHoldAnInvitation
  BY DEF IndInv
<1> QED BY <1>1, Inductive, PTL

-----------------------------------------------------------------------------
(* The first acceptance of an invitation finds it pending and unassigned.  *)
LEMMA AcceptanceStep ==
    IndInv /\ [Next]_vars =>
        \A v \in Invitations : used'[v] /\ ~used[v] =>
            status[v] = "PENDING" /\ ~assigned[v]
<1> SUFFICES ASSUME IndInv, [Next]_vars, NEW v \in Invitations, used'[v], ~used[v]
             PROVE  status[v] = "PENDING" /\ ~assigned[v]
  OBVIOUS
<1> USE DEF rowVars
<1>1. ASSUME NEW r \in Requests, Continue(r) PROVE status[v] = "PENDING" /\ ~assigned[v]
  <2>1. CASE ClaimInvitation(r) \/ AcceptInvitation(r)
    BY <2>1 DEF ClaimInvitation, AcceptInvitation, IndInv, TypeOK
  <2>2. CASE ~(ClaimInvitation(r) \/ AcceptInvitation(r))
    BY <1>1, <2>2 DEF Continue, InsertInvitation, UpdateExpiry, MarkCancelled,
       MarkExpired, FindInvitationSession, CreateSession
  <2> QED BY <2>1, <2>2
<1>2. ASSUME NEW r \in Requests, Manage(r) \/ Visit(r) \/ Crash(r) PROVE used' = used
  BY <1>2 DEF Manage, Visit, Crash, createInvitation, extendInvitation,
     cancelInvitation, validateInvitation, registerCandidate,
     createSessionFromInvitation
<1>3. CASE Tick \/ UNCHANGED vars
  BY <1>3 DEF Tick, vars
<1> QED BY <1>1, <1>2, <1>3 DEF Next

(* A stale read never accepts an invitation that is no longer pending.     *)
THEOREM AcceptanceIsGuarded == Spec => StaleInvitationsAreNotAccepted
<1>1. IndInv /\ [Next]_vars =>
        [\A v \in Invitations : used'[v] /\ ~used[v] =>
            status[v] = "PENDING" /\ ~assigned[v]]_vars
  BY AcceptanceStep
<1> QED BY <1>1, Inductive, PTL DEF Spec, StaleInvitationsAreNotAccepted

(* Types, for any number of requests.                                      *)
THEOREM TypeCorrect == Spec => []TypeOK
<1>1. IndInv => TypeOK
  BY DEF IndInv
<1> QED BY <1>1, Inductive, PTL

-----------------------------------------------------------------------------
(* Requests that do not overlap: with one slot, what a request checked is  *)
(* still so when it writes, through crashes and the passing of dates.      *)
OneSlot == \A q, r \in Requests : q = r

StillSo(q) ==
    /\ q.at \in {"extend", "cancel", "expire", "findSession", "accept", "createSession"} =>
          status[q.inv] # "CANCELLED"
    /\ q.at \in {"extend", "cancel", "accept", "createSession"} => sessions[q.inv] = 0
    /\ q.at \in {"findSession", "accept", "createSession"} => ~assigned[q.inv]
    /\ q.at = "findSession" => status[q.inv] = q.seen
    /\ q.at = "createSession" => status[q.inv] = "ACCEPTED"
    /\ q.at \in {"cancel", "expire"} => status[q.inv] \in Open
    /\ q.at = "insert" =>
          /\ \A v \in Invitations : status[v] \notin Open
          /\ q.assigned => account # "NONE"
    /\ q.at = "extend" => status[q.inv] \in {q.status, "EXPIRED"}

RowsSerial ==
    /\ OneSessionPerInvitation
    /\ TokenOrAccount
    /\ \A v \in Invitations : status[v] \in {"NONE", "PENDING"} => sessions[v] = 0

SerialInv == IndInv /\ RowsSerial /\ \A r \in Requests : StillSo(req[r])

(* A step of the one request there is.                                     *)
LEMMA SlotSerial ==
    ASSUME OneSlot, IndInv', RowsSerial', req \in [Requests -> Request],
           NEW r \in Requests, NEW next, Goto(r, next), StillSo(next)'
    PROVE  SerialInv'
<1>1. ASSUME NEW q \in Requests PROVE StillSo(req[q])'
  <2>1. req'[q] = next
    BY DEF OneSlot, Goto
  <2> QED BY <2>1 DEF StillSo
<1> QED BY <1>1 DEF SerialInv

LEMMA ArriveSerial ==
    ASSUME OneSlot, SerialInv, IndInv', NEW r \in Requests, Manage(r) \/ Visit(r)
    PROVE  SerialInv'
<1> USE DEF rowVars
<1>0. req \in [Requests -> Request] /\ RowsSerial
  BY DEF SerialInv, IndInv, TypeOK
<1>1. ASSUME NEW next, Goto(r, next), UNCHANGED <<rowVars, sessions, account>>, StillSo(next)
      PROVE  SerialInv'
  <2>1. StillSo(next)' /\ RowsSerial'
    BY <1>0, <1>1 DEF StillSo, RowsSerial, OneSessionPerInvitation, TokenOrAccount
  <2> QED BY <1>0, <1>1, <2>1, SlotSerial
<1>2. ASSUME NEW toAccount \in BOOLEAN, NEW expiry \in Times,
             createInvitation(r, toAccount, expiry)
      PROVE  SerialInv'
  BY <1>1, <1>2 DEF createInvitation, StillSo
<1>3. ASSUME NEW v \in Invitations, NEW expiry \in Times, extendInvitation(r, v, expiry)
      PROVE  SerialInv'
  BY <1>1, <1>3 DEF extendInvitation, StillSo
<1>4. ASSUME NEW v \in Invitations, cancelInvitation(r, v) PROVE SerialInv'
  BY <1>1, <1>4 DEF cancelInvitation, StillSo, Open
<1>5. ASSUME NEW v \in Invitations, validateInvitation(r, v) PROVE SerialInv'
  BY <1>1, <1>5 DEF validateInvitation, StillSo, Open
<1>6. ASSUME NEW v \in Invitations, registerCandidate(r, v) PROVE SerialInv'
  BY <1>1, <1>6 DEF registerCandidate, StillSo, Open
<1>7. ASSUME NEW v \in Invitations, createSessionFromInvitation(r, v) PROVE SerialInv'
  BY <1>1, <1>7 DEF createSessionFromInvitation, StillSo, Open
<1> QED BY <1>2, <1>3, <1>4, <1>5, <1>6, <1>7 DEF Manage, Visit

LEMMA ContinueSerial ==
    ASSUME OneSlot, SerialInv, IndInv', NEW r \in Requests, Continue(r) \/ Crash(r)
    PROVE  SerialInv'
<1> USE DEF rowVars
<1>0. /\ TypeOK /\ RowsSerial /\ StillSo(req[r]) /\ req[r] \in Request
      /\ req \in [Requests -> Request]
  BY DEF SerialInv, IndInv, TypeOK
<1>1. StillSo(Idle)'
  BY DEF StillSo, Idle
<1>2. ASSUME Goto(r, Idle), RowsSerial' PROVE SerialInv'
  BY <1>0, <1>1, <1>2, SlotSerial
<1>3. ASSUME NEW v \in Invitations, InsertInvitation(r, v) PROVE SerialInv'
  BY <1>0, <1>2, <1>3 DEF InsertInvitation, Free, TypeOK, RowsSerial,
     OneSessionPerInvitation, TokenOrAccount
<1>4. CASE UpdateExpiry(r)
  <2>1. req[r].inv \in Invitations /\ sessions[req[r].inv] = 0
    BY <1>0, <1>4 DEF UpdateExpiry, At, Request, StillSo
  <2> QED BY <1>0, <1>2, <1>4, <2>1 DEF UpdateExpiry, TypeOK, RowsSerial,
             OneSessionPerInvitation, TokenOrAccount
<1>5. CASE MarkCancelled(r)
  BY <1>0, <1>2, <1>5 DEF MarkCancelled, TypeOK, RowsSerial, OneSessionPerInvitation,
     TokenOrAccount
<1>6. CASE MarkExpired(r)
  BY <1>0, <1>2, <1>6 DEF MarkExpired, TypeOK, RowsSerial, OneSessionPerInvitation,
     TokenOrAccount
<1>7. CASE ClaimInvitation(r)
  BY <1>0, <1>2, <1>7 DEF ClaimInvitation, TypeOK, RowsSerial, OneSessionPerInvitation,
     TokenOrAccount
<1>8. CASE FindInvitationSession(r)
  <2> PICK v : v = req[r].inv
    OBVIOUS
  <2>1. v \in Invitations /\ sessions[v] \in 0 .. 2 /\ req[r].seen \in {"PENDING", "ACCEPTED"}
    BY <1>0, <1>8 DEF FindInvitationSession, At, Request, TypeOK, Open
  <2>2. RowsSerial'
    BY <1>0, <1>8 DEF FindInvitationSession, RowsSerial, OneSessionPerInvitation, TokenOrAccount
  <2>3. CASE sessions[v] > 0
    BY <1>2, <1>8, <2>2, <2>3 DEF FindInvitationSession
  <2>4. CASE ~(sessions[v] > 0)
    <3> PICK next :
            next = [at |-> IF req[r].seen = "PENDING" THEN "accept" ELSE "createSession",
                    inv |-> v]
      OBVIOUS
    <3>1. Goto(r, next)
      BY <1>8, <2>4 DEF FindInvitationSession
    <3>2. /\ next.at = IF req[r].seen = "PENDING" THEN "accept" ELSE "createSession"
          /\ next.inv = v
      OBVIOUS
    <3>3. sessions[v] = 0 /\ status[v] = req[r].seen /\ ~assigned[v]
      BY <1>0, <1>8, <2>1, <2>4 DEF FindInvitationSession, StillSo, At
    <3>4. StillSo(next)'
      BY <1>8, <2>1, <3>2, <3>3 DEF FindInvitationSession, StillSo
    <3> QED BY <1>0, <2>2, <3>1, <3>4, SlotSerial
  <2> QED BY <2>3, <2>4
<1>9. CASE AcceptInvitation(r)
  <2> PICK v : v = req[r].inv
    OBVIOUS
  <2>1. v \in Invitations /\ StillSo(req[r]) /\ sessions[v] = 0 /\ ~assigned[v]
    BY <1>0, <1>9 DEF AcceptInvitation, At, Request, StillSo
  <2>2. RowsSerial'
    BY <1>0, <1>9, <2>1 DEF AcceptInvitation, TypeOK, RowsSerial, OneSessionPerInvitation,
       TokenOrAccount
  <2>3. CASE status[v] = "PENDING" /\ ~assigned[v]
    <3> PICK next : next = [req[r] EXCEPT !.at = "createSession"]
      OBVIOUS
    <3>1. Goto(r, next)
      BY <1>9, <2>3 DEF AcceptInvitation
    <3>2. next.at = "createSession" /\ next.inv = v
      BY <1>0, <1>9 DEF AcceptInvitation, At, Request
    <3>3. status'[v] = "ACCEPTED" /\ sessions'[v] = 0 /\ ~assigned'[v]
      BY <1>0, <1>9, <2>1, <2>3 DEF AcceptInvitation, TypeOK
    <3>4. StillSo(next)'
      BY <3>2, <3>3 DEF StillSo
    <3> QED BY <1>0, <2>2, <3>1, <3>4, SlotSerial
  <2>4. CASE ~(status[v] = "PENDING" /\ ~assigned[v])
    BY <1>2, <1>9, <2>2, <2>4 DEF AcceptInvitation
  <2> QED BY <2>3, <2>4
<1>10. CASE CreateSession(r)
  <2>1. /\ req[r].inv \in Invitations /\ sessions[req[r].inv] = 0
        /\ ~assigned[req[r].inv] /\ status[req[r].inv] = "ACCEPTED"
    BY <1>0, <1>10 DEF CreateSession, At, Request, StillSo
  <2>2. RowsSerial'
    BY <1>0, <1>10, <2>1 DEF CreateSession, Many, TypeOK, RowsSerial,
       OneSessionPerInvitation, TokenOrAccount
  <2> QED BY <1>2, <1>10, <2>2 DEF CreateSession
<1>11. CASE Crash(r)
  BY <1>0, <1>2, <1>11 DEF Crash, RowsSerial, OneSessionPerInvitation, TokenOrAccount
<1> QED BY <1>3, <1>4, <1>5, <1>6, <1>7, <1>8, <1>9, <1>10, <1>11 DEF Continue

LEMMA SerialStep ==
    ASSUME OneSlot, SerialInv, [Next]_vars
    PROVE  SerialInv'
<1>1. IndInv'
  BY NextInv DEF SerialInv
<1>2. CASE Tick \/ UNCHANGED vars
  BY <1>1, <1>2 DEF Tick, vars, rowVars, SerialInv, RowsSerial, StillSo,
     OneSessionPerInvitation, TokenOrAccount
<1> QED BY <1>1, <1>2, ArriveSerial, ContinueSerial DEF Next

LEMMA SerialInit == Init => SerialInv
BY InitInv DEF Init, Idle, SerialInv, RowsSerial, StillSo, OneSessionPerInvitation,
   TokenOrAccount

(* Requests that do not overlap give an invitation one session, of one     *)
(* kind of candidate (createSessionFromInvitation, extendInvitation).      *)
THEOREM SerialSessions ==
    ASSUME OneSlot
    PROVE  Spec => [](OneSessionPerInvitation /\ TokenOrAccount)
<1>1. SerialInv /\ [Next]_vars => SerialInv'
  BY SerialStep
<1>2. SerialInv => OneSessionPerInvitation /\ TokenOrAccount
  BY DEF SerialInv, RowsSerial
<1> QED BY <1>1, <1>2, SerialInit, PTL DEF Spec

(* In particular no account takes over what a token-only applicant sat,    *)
(* nor the other way round (extendInvitation, registerCandidate).          *)
THEOREM SerialCandidates ==
    ASSUME OneSlot
    PROVE  Spec => []TokenOrAccount
BY SerialSessions, PTL

(* Requests that do not overlap leave a cancelled invitation alone, which  *)
(* no extension reopens and nobody uses (cancelInvitation).                *)
THEOREM SerialCancellation ==
    ASSUME OneSlot
    PROVE  Spec => CancellationIsFinal
<1>1. SerialInv /\ [Next]_vars => SerialInv'
  BY SerialStep
<1>2. ASSUME SerialInv, Next, NEW v \in Invitations, status[v] = "CANCELLED"
      PROVE  status'[v] = "CANCELLED" /\ sessions'[v] = sessions[v]
  <2> USE DEF rowVars
  <2>0. TypeOK
    BY <1>2 DEF SerialInv, IndInv
  <2>1. ASSUME NEW r \in Requests, Continue(r)
        PROVE  status'[v] = status[v] /\ sessions'[v] = sessions[v]
    <3>1. req[r] \in Request /\ StillSo(req[r])
      BY <1>2, <2>0 DEF SerialInv, TypeOK
    <3>2. req[r].at \in {"extend", "cancel", "expire", "accept", "createSession", "claim"} =>
              req[r].inv \in Invitations
      BY <3>1 DEF Request
    <3>3. CASE \E w \in Invitations : InsertInvitation(r, w)
      BY <1>2, <2>0, <3>3 DEF InsertInvitation, Free, TypeOK
    <3>4. CASE UpdateExpiry(r) \/ MarkCancelled(r) \/ MarkExpired(r)
      BY <1>2, <2>0, <3>1, <3>2, <3>4 DEF UpdateExpiry, MarkCancelled, MarkExpired, At,
         StillSo, TypeOK
    <3>5. CASE ClaimInvitation(r) \/ FindInvitationSession(r) \/ AcceptInvitation(r)
      BY <1>2, <2>0, <3>2, <3>5 DEF ClaimInvitation, FindInvitationSession,
         AcceptInvitation, At, TypeOK
    <3>6. CASE CreateSession(r)
      BY <1>2, <2>0, <3>1, <3>2, <3>6 DEF CreateSession, At, StillSo, TypeOK
    <3> QED BY <2>1, <3>3, <3>4, <3>5, <3>6 DEF Continue
  <2>2. ASSUME NEW r \in Requests, Manage(r) \/ Visit(r) \/ Crash(r)
        PROVE  UNCHANGED <<status, sessions>>
    BY <2>2 DEF Manage, Visit, Crash, createInvitation, extendInvitation, cancelInvitation,
       validateInvitation, registerCandidate, createSessionFromInvitation
  <2> QED BY <1>2, <2>1, <2>2 DEF Next, Tick
<1>3. SerialInv /\ [Next]_vars =>
        [\A v \in Invitations : status[v] = "CANCELLED" =>
            status'[v] = "CANCELLED" /\ sessions'[v] = sessions[v]]_vars
  BY <1>2
<1> QED BY <1>1, <1>3, SerialInit, PTL DEF Spec, CancellationIsFinal

(* Requests that do not overlap never issue an invitation beside an open   *)
(* one, so a second open one is an expired one that was extended           *)
(* (createInvitation, extendInvitation).                                   *)
THEOREM SerialDuplicates ==
    ASSUME OneSlot
    PROVE  Spec => DuplicatesAreExtensions
<1> DEFINE Duplicates ==
        \A v, w \in Invitations :
            v # w /\ status[v] \notin Open /\ status'[v] \in Open /\ status[w] \in Open
              => status[v] = "EXPIRED"
<1>1. SerialInv /\ [Next]_vars => SerialInv'
  BY SerialStep
<1>2. ASSUME SerialInv, Next, NEW v \in Invitations, NEW w \in Invitations, v # w,
             status[v] \notin Open, status'[v] \in Open, status[w] \in Open
      PROVE  status[v] = "EXPIRED"
  <2> USE DEF rowVars
  <2>0. TypeOK
    BY <1>2 DEF SerialInv, IndInv
  <2>1. ASSUME NEW r \in Requests, Continue(r) PROVE status[v] = "EXPIRED"
    <3>1. req[r] \in Request /\ StillSo(req[r])
      BY <1>2, <2>0 DEF SerialInv, TypeOK
    <3>2. req[r].at \in {"extend", "cancel", "expire", "accept", "createSession", "claim"} =>
              req[r].inv \in Invitations
      BY <3>1 DEF Request
    <3>3. CASE \E u \in Invitations : InsertInvitation(r, u)
      BY <1>2, <3>1, <3>3 DEF InsertInvitation, At, StillSo
    <3>4. CASE UpdateExpiry(r)
      BY <1>2, <2>0, <3>1, <3>2, <3>4 DEF UpdateExpiry, At, StillSo, TypeOK
    <3>5. CASE MarkCancelled(r) \/ MarkExpired(r)
      BY <1>2, <2>0, <3>2, <3>5 DEF MarkCancelled, MarkExpired, At, Open, TypeOK
    <3>6. CASE ClaimInvitation(r) \/ AcceptInvitation(r)
      BY <1>2, <2>0, <3>2, <3>6 DEF ClaimInvitation, AcceptInvitation, At, Open, TypeOK
    <3>7. CASE FindInvitationSession(r) \/ CreateSession(r)
      BY <1>2, <3>7 DEF FindInvitationSession, CreateSession
    <3> QED BY <2>1, <3>3, <3>4, <3>5, <3>6, <3>7 DEF Continue
  <2>2. ASSUME NEW r \in Requests, Manage(r) \/ Visit(r) \/ Crash(r)
        PROVE  UNCHANGED status
    BY <2>2 DEF Manage, Visit, Crash, createInvitation, extendInvitation, cancelInvitation,
       validateInvitation, registerCandidate, createSessionFromInvitation
  <2> QED BY <1>2, <2>1, <2>2 DEF Next, Tick
<1>3. SerialInv /\ [Next]_vars => [Duplicates]_vars
  BY <1>2
<1> QED BY <1>1, <1>3, SerialInit, PTL DEF Spec, DuplicatesAreExtensions
=============================================================================
