---------------------- MODULE InvitationContractProofs ----------------------
(* InvitationAdmission implements InvitationContract as long as requests   *)
(* do not overlap: every step of a request is one step of the contract or  *)
(* none.  What a request checked is still so when it writes (SerialInv).   *)
EXTENDS InvitationAdmissionProofs

stateView == [v \in Invitations |-> IF status[v] \in Open THEN "OPEN" ELSE status[v]]
holderView == [v \in Invitations |->
                 IF assigned[v] THEN "ACCOUNT"
                 ELSE IF sessions[v] > 0 THEN "APPLICANT" ELSE "NOBODY"]
satView == {v \in Invitations : sessions[v] > 0}

(* The contract's variables, spelled out.                                  *)
LEMMA Views ==
    /\ Contract!vars = <<stateView, holderView, satView, account>>
    /\ UNCHANGED <<status, assigned, sessions, account>> => UNCHANGED Contract!vars
BY DEF Contract!vars, stateView, holderView, satView

(* What is known when the one request goes on.                             *)
LEMMA Writer ==
    ASSUME SerialInv, NEW r \in Requests
    PROVE  /\ TypeOK /\ RowsSerial /\ StillSo(req[r]) /\ req[r] \in Request
           /\ req[r].at \in {"extend", "cancel", "expire", "claim", "accept",
                             "createSession"} => req[r].inv \in Invitations
BY DEF SerialInv, IndInv, TypeOK, Request

-----------------------------------------------------------------------------
(* createInvitation: the row is issued to the address or to its account.   *)
LEMMA InsertIssues ==
    ASSUME SerialInv, NEW r \in Requests, NEW v \in Invitations, InsertInvitation(r, v)
    PROVE  Contract!Next
<1> PICK to : to = IF req[r].assigned THEN "ACCOUNT" ELSE "NOBODY"
  OBVIOUS
<1>1. /\ \A w \in Invitations : status[w] \notin Open
      /\ req[r].assigned \in BOOLEAN /\ (req[r].assigned => account # "NONE")
      /\ status[v] = "NONE" /\ sessions[v] = 0
  BY Writer DEF InsertInvitation, At, StillSo, Free, RowsSerial, Request
<1>2. /\ status' = [status EXCEPT ![v] = "PENDING"]
      /\ assigned' = [assigned EXCEPT ![v] = req[r].assigned]
      /\ UNCHANGED <<sessions, account>>
  BY DEF InsertInvitation
<1>3. /\ status \in [Invitations -> InvitationStatus \cup {"NONE"}]
      /\ assigned \in [Invitations -> BOOLEAN]
  BY Writer DEF TypeOK
<1>4. stateView' = [stateView EXCEPT ![v] = "OPEN"]
  BY <1>2, <1>3 DEF stateView, Open
<1>5. holderView' = [holderView EXCEPT ![v] = to]
  <2>1. holderView'[v] = to
    BY <1>1, <1>2, <1>3 DEF holderView
  <2>2. ASSUME NEW w \in Invitations, w # v PROVE holderView'[w] = holderView[w]
    BY <1>2, <1>3, <2>2 DEF holderView
  <2> QED BY <2>1, <2>2 DEF holderView
<1>6. satView' = satView
  BY <1>2 DEF satView
<1>7. /\ stateView[v] = "NONE"
      /\ \A w \in Invitations : stateView[w] # "OPEN"
  BY <1>1, <1>3 DEF stateView, Open, InvitationStatus
<1>8. to \in {"NOBODY", "ACCOUNT"} /\ (to = "ACCOUNT" => account # "NONE")
  BY <1>1
<1>9. Contract!Issue(v, to)
  BY <1>2, <1>4, <1>5, <1>6, <1>7, <1>8
     DEF Contract!Issue, stateView, holderView, satView
<1> QED BY <1>8, <1>9 DEF Contract!Next

(* The three updates of the status alone: extendInvitation reopens an      *)
(* expired row, which nobody sat, and leaves the state of another alone;   *)
(* cancelInvitation cancels an open one without a session; past its date   *)
(* an open one expires.                                                    *)
LEMMA StatusUpdates ==
    ASSUME SerialInv, NEW r \in Requests,
           UpdateExpiry(r) \/ MarkCancelled(r) \/ MarkExpired(r)
    PROVE  [Contract!Next]_(Contract!vars)
<1> PICK v : v = req[r].inv
  OBVIOUS
<1>0. /\ v \in Invitations /\ StillSo(req[r])
      /\ status \in [Invitations -> InvitationStatus \cup {"NONE"}]
      /\ UNCHANGED <<assigned, sessions, account>>
  BY Writer DEF UpdateExpiry, MarkCancelled, MarkExpired, At, TypeOK
<1>1. holderView' = holderView /\ satView' = satView
  BY <1>0 DEF holderView, satView
<1>2. CASE UpdateExpiry(r)
  <2>1. /\ status' = [status EXCEPT ![v] = req[r].status] /\ req[r].status \in Open
        /\ status[v] \in {req[r].status, "EXPIRED"} /\ sessions[v] = 0
    BY <1>0, <1>2, Writer DEF UpdateExpiry, At, StillSo, Request
  <2>2. CASE status[v] = "EXPIRED"
    <3>1. stateView' = [stateView EXCEPT ![v] = "OPEN"]
      BY <1>0, <2>1 DEF stateView, Open
    <3>2. stateView[v] = "EXPIRED" /\ v \notin satView
      BY <1>0, <2>1, <2>2 DEF stateView, satView, Open
    <3>3. Contract!Reopen(v)
      BY <1>0, <1>1, <3>1, <3>2 DEF Contract!Reopen, stateView, holderView, satView
    <3> QED BY <1>0, <3>3 DEF Contract!Next
  <2>3. CASE status[v] # "EXPIRED"
    <3>1. status' = status
      BY <1>0, <2>1, <2>3
    <3> QED BY <1>0, <3>1, Views
  <2> QED BY <2>2, <2>3
<1>3. CASE MarkCancelled(r)
  <2>1. /\ status' = [status EXCEPT ![v] = "CANCELLED"]
        /\ status[v] \in Open /\ sessions[v] = 0
    BY <1>0, <1>3 DEF MarkCancelled, At, StillSo
  <2>2. stateView' = [stateView EXCEPT ![v] = "CANCELLED"]
    BY <1>0, <2>1 DEF stateView, Open
  <2>3. stateView[v] = "OPEN" /\ v \notin satView
    BY <1>0, <2>1 DEF stateView, satView
  <2>4. Contract!Cancel(v)
    BY <1>0, <1>1, <2>2, <2>3 DEF Contract!Cancel, stateView, holderView, satView
  <2> QED BY <1>0, <2>4 DEF Contract!Next
<1>4. CASE MarkExpired(r)
  <2>1. status' = [status EXCEPT ![v] = "EXPIRED"] /\ status[v] \in Open
    BY <1>0, <1>4 DEF MarkExpired, At, StillSo
  <2>2. stateView' = [stateView EXCEPT ![v] = "EXPIRED"]
    BY <1>0, <2>1 DEF stateView, Open
  <2>3. stateView[v] = "OPEN"
    BY <1>0, <2>1 DEF stateView
  <2>4. Contract!Expire(v)
    BY <1>0, <1>1, <2>2, <2>3 DEF Contract!Expire, stateView, holderView, satView
  <2> QED BY <1>0, <2>4 DEF Contract!Next
<1> QED BY <1>2, <1>3, <1>4

(* registerCandidate: the claim gives the invitation, which nobody holds,  *)
(* to the new account, or it fails and changes nothing.                    *)
LEMMA ClaimRegisters ==
    ASSUME SerialInv, NEW r \in Requests, ClaimInvitation(r)
    PROVE  [Contract!Next]_(Contract!vars)
<1> PICK v : v = req[r].inv
  OBVIOUS
<1>0. /\ v \in Invitations
      /\ status \in [Invitations -> InvitationStatus \cup {"NONE"}]
      /\ assigned \in [Invitations -> BOOLEAN]
      /\ sessions' = sessions
  BY Writer DEF ClaimInvitation, At, TypeOK
<1>1. CASE status[v] = "PENDING" /\ ~assigned[v] /\ account = "NONE"
  <2>1. /\ account' = "REGISTERED"
        /\ status' = [status EXCEPT ![v] = "ACCEPTED"]
        /\ assigned' = [assigned EXCEPT ![v] = TRUE]
    BY <1>1 DEF ClaimInvitation
  <2>2. sessions[v] = 0
    BY <1>0, <1>1, Writer DEF RowsSerial
  <2>3. stateView' = stateView
    BY <1>0, <1>1, <2>1 DEF stateView, Open
  <2>4. holderView' = [holderView EXCEPT ![v] = "ACCOUNT"]
    BY <1>0, <2>1 DEF holderView
  <2>5. satView' = satView
    BY <1>0 DEF satView
  <2>6. stateView[v] = "OPEN" /\ holderView[v] = "NOBODY"
    BY <1>0, <1>1, <2>2 DEF stateView, holderView, Open
  <2>7. Contract!Register(v)
    BY <1>1, <2>1, <2>3, <2>4, <2>5, <2>6
       DEF Contract!Register, stateView, holderView, satView
  <2> QED BY <1>0, <2>7 DEF Contract!Next
<1>2. CASE ~(status[v] = "PENDING" /\ ~assigned[v] /\ account = "NONE")
  BY <1>2, Views DEF ClaimInvitation
<1> QED BY <1>1, <1>2

(* createSessionFromInvitation: the acceptance is no step of the contract, *)
(* for an applicant who dies before the session exists may try again ...   *)
LEMMA AcceptanceStutters ==
    ASSUME SerialInv, NEW r \in Requests, AcceptInvitation(r)
    PROVE  UNCHANGED Contract!vars
<1> PICK v : v = req[r].inv
  OBVIOUS
<1>1. /\ v \in Invitations
      /\ status \in [Invitations -> InvitationStatus \cup {"NONE"}]
      /\ UNCHANGED <<assigned, sessions, account>>
  BY Writer DEF AcceptInvitation, At, TypeOK
<1>2. stateView' = stateView
  BY <1>1 DEF AcceptInvitation, stateView, Open
<1>3. holderView' = holderView /\ satView' = satView
  BY <1>1 DEF holderView, satView
<1> QED BY <1>1, <1>2, <1>3, Views DEF Contract!vars, stateView, holderView, satView

(* ... and the session is.                                                 *)
LEMMA CreationSits ==
    ASSUME SerialInv, NEW r \in Requests, CreateSession(r)
    PROVE  Contract!Next
<1> PICK v : v = req[r].inv
  OBVIOUS
<1>1. /\ v \in Invitations /\ sessions[v] = 0 /\ ~assigned[v] /\ status[v] = "ACCEPTED"
      /\ sessions \in [Invitations -> 0 .. 2]
      /\ UNCHANGED <<status, assigned, account>>
  BY Writer DEF CreateSession, At, StillSo, TypeOK, rowVars
<1>2. sessions' = [sessions EXCEPT ![v] = 1]
  BY <1>1 DEF CreateSession, Many
<1>3. stateView' = stateView
  BY <1>1 DEF stateView
<1>4. holderView' = [holderView EXCEPT ![v] = "APPLICANT"]
  <2>1. holderView'[v] = "APPLICANT"
    BY <1>1, <1>2 DEF holderView
  <2>2. ASSUME NEW w \in Invitations, w # v PROVE holderView'[w] = holderView[w]
    BY <1>1, <1>2, <2>2 DEF holderView
  <2> QED BY <2>1, <2>2 DEF holderView
<1>5. satView' = satView \cup {v}
  BY <1>1, <1>2 DEF satView
<1>6. stateView[v] = "OPEN" /\ holderView[v] = "NOBODY"
  BY <1>1 DEF stateView, holderView, Open
<1>7. Contract!Sit(v)
  BY <1>1, <1>3, <1>4, <1>5, <1>6 DEF Contract!Sit, stateView, holderView, satView
<1> QED BY <1>1, <1>7 DEF Contract!Next

-----------------------------------------------------------------------------
LEMMA ContractStep ==
    ASSUME OneSlot, SerialInv, [Next]_vars
    PROVE  [Contract!Next]_(Contract!vars)
<1>1. ASSUME NEW r \in Requests, Continue(r) PROVE [Contract!Next]_(Contract!vars)
  <2>1. CASE FindInvitationSession(r)
    BY <2>1, Views DEF FindInvitationSession, rowVars
  <2>2. CASE ~FindInvitationSession(r)
    BY <1>1, <2>2, InsertIssues, StatusUpdates, ClaimRegisters, AcceptanceStutters,
       CreationSits DEF Continue
  <2> QED BY <2>1, <2>2
<1>2. ASSUME NEW r \in Requests, Manage(r) \/ Visit(r) \/ Crash(r)
      PROVE  UNCHANGED Contract!vars
  BY <1>2, Views DEF Manage, Visit, Crash, createInvitation, extendInvitation,
     cancelInvitation, validateInvitation, registerCandidate,
     createSessionFromInvitation, rowVars
<1>3. CASE Tick \/ UNCHANGED vars
  BY <1>3, Views DEF Tick, vars, rowVars
<1> QED BY <1>1, <1>2, <1>3 DEF Next

LEMMA ContractInit == Init => Contract!Init
<1> SUFFICES ASSUME Init PROVE Contract!Init
  OBVIOUS
<1>1. stateView = [v \in Invitations |-> "NONE"]
  BY DEF Init, stateView, Open
<1>2. holderView = [v \in Invitations |-> "NOBODY"]
  BY DEF Init, holderView
<1>3. satView = {}
  BY DEF Init, satView
<1> QED BY <1>1, <1>2, <1>3 DEF Init, Contract!Init, stateView, holderView, satView

(* Requests that do not overlap keep what invitations promise, whatever    *)
(* crashes and however dates pass: createInvitation, extendInvitation,     *)
(* cancelInvitation, validateInvitation, registerCandidate and             *)
(* createSessionFromInvitation implement InvitationContract.               *)
THEOREM SerialContract ==
    ASSUME OneSlot
    PROVE  Spec => ImplementsContract
<1>1. SerialInv /\ [Next]_vars => SerialInv' /\ [Contract!Next]_(Contract!vars)
  BY SerialStep, ContractStep
<1>2. Init => SerialInv /\ Contract!Init
  BY SerialInit, ContractInit
<1> QED BY <1>1, <1>2, PTL DEF Spec, ImplementsContract, Contract!Spec
=============================================================================
