-------------------------- MODULE AccountContract --------------------------
(***************************************************************************)
(* What an account promises its owner, however requests overlap and die:   *)
(* a login session is opened once and ends for good; a password is given   *)
(* and all the sessions of others are ended in one step; an account that   *)
(* was barred opens again only while staff order it, or through a link     *)
(* that was still good; a link is good for one step.                       *)
(***************************************************************************)
CONSTANTS Sessions, Tokens, Passwords, NoPassword

VARIABLES
    standing, \* "NONE", "PENDING", "OPEN" or "BARRED"
    password,
    in,       \* the sessions that are signed in
    out,      \* the sessions that have ended
    good,     \* the links that can be used
    spent,    \* the links that were used or replaced
    orders    \* the standings that staff are about to give it

owned == <<standing, password, in, out, good, spent>>
vars == <<owned, orders>>

Init ==
    /\ standing = "NONE" /\ password = NoPassword
    /\ in = {} /\ out = {}
    /\ good = {} /\ spent = {}
    /\ orders = {}

-----------------------------------------------------------------------------
Ordered == {"PENDING", "OPEN", "BARRED"}

EndAllBut(kept) == in' = in \cap kept /\ out' = out \cup (in \ kept)
Spend(links) == good' = good \ links /\ spent' = spent \cup (good \cap links)

(* A person registers, or staff invite a platform admin.                   *)
Create(p) ==
    /\ standing = "NONE"
    /\ standing' = "PENDING" /\ password' = p
    /\ UNCHANGED <<in, out, good, spent>>

(* The user is deleted with all that belongs to him.                       *)
Delete ==
    /\ standing # "NONE"
    /\ standing' = "NONE" /\ password' = NoPassword
    /\ in' = {} /\ out' = {} /\ good' = {} /\ spent' = {}

SignIn(s) ==
    /\ standing # "NONE" /\ s \notin in \cup out
    /\ in' = in \cup {s}
    /\ UNCHANGED <<standing, password, out, good, spent>>

SignOut(kept) ==
    /\ EndAllBut(kept)
    /\ UNCHANGED <<standing, password, good, spent>>

(* A session gives a new password, and the others end.                     *)
ChangePassword(s, p) ==
    /\ standing # "NONE"
    /\ password' = p
    /\ EndAllBut({s})
    /\ UNCHANGED <<standing, good, spent>>

(* The owner closes the account.                                           *)
Close ==
    /\ standing # "NONE"
    /\ standing' = "BARRED" /\ password' = NoPassword
    /\ EndAllBut({})
    /\ UNCHANGED <<good, spent>>

(* Staff bar the account or open it, as one of them ordered while it       *)
(* existed (the sessions are ended separately).                            *)
SetStanding(next) ==
    /\ standing # "NONE" /\ next \in orders
    /\ standing' = next
    /\ UNCHANGED <<password, in, out, good, spent>>

-----------------------------------------------------------------------------
SendLink(t) ==
    /\ standing # "NONE" /\ t \notin good \cup spent
    /\ good' = good \cup {t}
    /\ UNCHANGED <<standing, password, in, out, spent>>

ReplaceLinks(links) ==
    /\ Spend(links)
    /\ UNCHANGED <<standing, password, in, out>>

(* A link verifies the address, resets the password, or gives an invited   *)
(* administrator, who has never signed in, the first one.                  *)
Verify ==
    /\ standing' = "OPEN"
    /\ UNCHANGED <<password, in, out>>
Reset(p) ==
    /\ password' = p
    /\ EndAllBut({})
    /\ UNCHANGED standing
Accept(p) ==
    /\ in = {} /\ out = {}
    /\ standing' = "OPEN" /\ password' = p
    /\ UNCHANGED <<in, out>>

UseLink(t, links) ==
    /\ standing # "NONE" /\ t \in good \cap links
    /\ Spend(links)
    /\ Verify \/ \E p \in Passwords : Reset(p) \/ Accept(p)

Act ==
    \/ \E p \in Passwords \cup {NoPassword} : Create(p)
    \/ Delete
    \/ \E s \in Sessions : SignIn(s) \/ \E p \in Passwords : ChangePassword(s, p)
    \/ \E kept \in SUBSET Sessions : SignOut(kept)
    \/ Close
    \/ \E next \in Ordered : SetStanding(next)
    \/ \E t \in Tokens : SendLink(t)
    \/ \E links \in SUBSET Tokens :
          ReplaceLinks(links) \/ \E t \in Tokens : UseLink(t, links)

(* Staff give orders as they like, whatever else happens.                  *)
Next ==
    /\ Act \/ UNCHANGED owned
    /\ orders' \in SUBSET Ordered

Spec == Init /\ [][Next]_vars
=============================================================================
