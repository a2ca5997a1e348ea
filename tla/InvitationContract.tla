------------------------- MODULE InvitationContract -------------------------
(***************************************************************************)
(* What invitations promise an employer and the candidate at one address,  *)
(* without requests or dates: while one is open no other is issued, only   *)
(* an expired one is reopened beside it, it is held by the account or by   *)
(* one applicant who sits the assessment, once, and cancelling it before   *)
(* that ends it for good.                                                  *)
(***************************************************************************)
CONSTANT Invitations

VARIABLES
    state,  \* "NONE", "OPEN", "EXPIRED" or "CANCELLED"
    holder, \* who has the invitation: "NOBODY", "ACCOUNT" or "APPLICANT"
    sat,    \* the invitations that gave a session
    account \* the account of the address: "NONE", "EXISTING", "REGISTERED"

vars == <<state, holder, sat, account>>

Init ==
    /\ state = [v \in Invitations |-> "NONE"]
    /\ holder = [v \in Invitations |-> "NOBODY"]
    /\ sat = {}
    /\ account \in {"NONE", "EXISTING"}

Issue(v, to) ==
    /\ state[v] = "NONE"
    /\ \A w \in Invitations : state[w] # "OPEN"
    /\ to = "ACCOUNT" => account # "NONE"
    /\ state' = [state EXCEPT ![v] = "OPEN"]
    /\ holder' = [holder EXCEPT ![v] = to]
    /\ UNCHANGED <<sat, account>>

(* The candidate registers with the invitation ...                         *)
Register(v) ==
    /\ state[v] = "OPEN" /\ holder[v] = "NOBODY" /\ account = "NONE"
    /\ account' = "REGISTERED"
    /\ holder' = [holder EXCEPT ![v] = "ACCOUNT"]
    /\ UNCHANGED <<state, sat>>

(* ... or sits the assessment without an account.                          *)
Sit(v) ==
    /\ state[v] = "OPEN" /\ holder[v] = "NOBODY"
    /\ holder' = [holder EXCEPT ![v] = "APPLICANT"]
    /\ sat' = sat \cup {v}
    /\ UNCHANGED <<state, account>>

Expire(v) ==
    /\ state[v] = "OPEN"
    /\ state' = [state EXCEPT ![v] = "EXPIRED"]
    /\ UNCHANGED <<holder, sat, account>>

Reopen(v) ==
    /\ state[v] = "EXPIRED" /\ v \notin sat
    /\ state' = [state EXCEPT ![v] = "OPEN"]
    /\ UNCHANGED <<holder, sat, account>>

Cancel(v) ==
    /\ state[v] = "OPEN" /\ v \notin sat
    /\ state' = [state EXCEPT ![v] = "CANCELLED"]
    /\ UNCHANGED <<holder, sat, account>>

Next ==
    \E v \in Invitations :
        \/ \E to \in {"NOBODY", "ACCOUNT"} : Issue(v, to)
        \/ Register(v) \/ Sit(v)
        \/ Expire(v) \/ Reopen(v) \/ Cancel(v)

Spec == Init /\ [][Next]_vars
=============================================================================
