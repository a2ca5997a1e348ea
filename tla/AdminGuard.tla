---------------------------- MODULE AdminGuard ----------------------------
(***************************************************************************)
(* The roles of the platform's users, the staff who change them, and the   *)
(* guards that keep one super admin in office.  Each guard is a count that *)
(* is followed, awaits later, by an update of the user by id; a request    *)
(* waits in its slot in between.  The operators' two scripts (prisma/      *)
(* bootstrap-platform-admin.ts, prisma/scripts/super-admin.ts) take a slot *)
(* like a request.                                                         *)
(***************************************************************************)
CONSTANTS
    Users,    \* the people, who may or may not have a user row
    Requests  \* slots for requests the API serves at the same time

VARIABLES
    role,     \* User.role, or "NONE" where there is no row
    active,   \* User.status is ACTIVE
    attached, \* User.organisationId is set
    req       \* per slot: where its request is, and its local variables

vars == <<role, active, attached, req>>

(* CONSUMER stands for every role without powers over users.               *)
UserRole == {"SUPER_ADMIN", "PLATFORM_ADMIN", "EMPLOYER_ADMIN", "CONSUMER"}
AdminLevel == {"SUPER_ADMIN", "PLATFORM_ADMIN"}

Idle == [at |-> "idle"]

(* A change of role or status, or a purge: what it read and wants to write *)
(* and, as history, the other super admins its guard counted (Users if the *)
(* guard has not been asked).                                              *)
Changes ==
    {change \in [at : {"countSuperAdmins", "countAdmins", "commit"},
                 kind : {"role", "status", "purge"}, user : Users, seen : UserRole,
                 attached : BOOLEAN, role : UserRole, active : BOOLEAN,
                 counted : SUBSET Users] :
        change.kind = "purge" => ~change.active}
Request ==
    [at : {"idle"}]
    \cup Changes
    \cup [at : {"create"}, user : Users, role : UserRole, active : BOOLEAN, attached : BOOLEAN]
    \cup [at : {"organisation"}, user : Users, seen : UserRole, attached : BOOLEAN]
    \cup [at : {"attach"}, user : Users, seen : UserRole, attached : BOOLEAN]
    \cup [at : {"bootstrap"}, user : Users, existed : BOOLEAN]
    \cup [at : {"disable", "reset", "platform"}, user : Users]

TypeOK ==
    /\ role \in [Users -> UserRole \cup {"NONE"}]
    /\ active \in [Users -> BOOLEAN]
    /\ attached \in [Users -> BOOLEAN]
    /\ req \in [Requests -> Request]

Init ==
    /\ role = [u \in Users |-> "NONE"]
    /\ active = [u \in Users |-> FALSE]
    /\ attached = [u \in Users |-> FALSE]
    /\ req = [r \in Requests |-> Idle]

-----------------------------------------------------------------------------
(* Helpers.                                                                *)

Goto(r, next) == req' = [req EXCEPT ![r] = next]
Start(r, next) ==
    /\ req[r].at = "idle"
    /\ Goto(r, next)
    /\ UNCHANGED <<role, active, attached>>
Exists(u) == role[u] # "NONE"

ActiveSuperAdmins == {u \in Users : role[u] = "SUPER_ADMIN" /\ active[u]}
ActivePlatformAdmins == {u \in Users : role[u] = "PLATFORM_ADMIN" /\ active[u]}
ActiveAdmins == {u \in Users : role[u] \in AdminLevel /\ active[u]}

(* RolesGuard lets active administrators in.                               *)
assertActorCanAssignRole(actor, next) ==
    next \in AdminLevel => role[actor] = "SUPER_ADMIN"
assertActorCanManageTargetUser(actor, u) ==
    actor # u /\ role[u] \in AdminLevel => role[actor] = "SUPER_ADMIN"

(* Where a change of a user goes after the target was read: only a target  *)
(* that was read as an administrator is counted, and only if the change    *)
(* takes that away.                                                        *)
AfterSuperAdmins(change) ==
    IF change.kind # "purge" /\ change.seen \in AdminLevel
       /\ ~(change.role \in AdminLevel /\ change.active)
    THEN "countAdmins" ELSE "commit"
FirstGuard(change) ==
    IF change.seen = "SUPER_ADMIN" /\ ~(change.role = "SUPER_ADMIN" /\ change.active)
    THEN "countSuperAdmins" ELSE AfterSuperAdmins(change)

Change(kind, u, nextRole, nextActive) ==
    LET change == [kind |-> kind, user |-> u, seen |-> role[u], attached |-> attached[u],
                   role |-> nextRole, active |-> nextActive, counted |-> Users,
                   at |-> "commit"]
    IN  [change EXCEPT !.at = FirstGuard(change)]

-----------------------------------------------------------------------------
(* Requests of staff.                                                      *)

createManagedUser(r, actor, u, nextRole, nextActive, nextAttached) ==
    /\ actor \in ActiveAdmins
    /\ assertActorCanAssignRole(actor, nextRole)
    /\ ~Exists(u)
    /\ nextRole = "EMPLOYER_ADMIN" => nextAttached
    /\ Start(r, [at |-> "create", user |-> u, role |-> nextRole, active |-> nextActive,
                 attached |-> nextAttached])

(* The address is unique: the creation fails if the row exists by now.     *)
CreateUser(r) ==
    /\ req[r].at = "create"
    /\ LET u == req[r].user IN
       IF Exists(u) THEN UNCHANGED <<role, active, attached>>
       ELSE /\ role' = [role EXCEPT ![u] = req[r].role]
            /\ active' = [active EXCEPT ![u] = req[r].active]
            /\ attached' = [attached EXCEPT ![u] = req[r].attached]
    /\ Goto(r, Idle)

updateUserRole(r, actor, u, nextRole) ==
    /\ actor \in ActiveAdmins /\ Exists(u)
    /\ assertActorCanManageTargetUser(actor, u)
    /\ assertActorCanAssignRole(actor, nextRole)
    /\ nextRole = "EMPLOYER_ADMIN" => attached[u]
    /\ Start(r, Change("role", u, nextRole, active[u]))

updateUserStatus(r, actor, u, nextActive) ==
    /\ actor \in ActiveAdmins /\ Exists(u)
    /\ assertActorCanManageTargetUser(actor, u)
    /\ actor = u => nextActive
    /\ Start(r, Change("status", u, role[u], nextActive))

permanentlyDeleteUser(r, actor, u) ==
    /\ actor \in ActiveSuperAdmins /\ Exists(u) /\ actor # u
    /\ Start(r, Change("purge", u, role[u], FALSE))

(* Mutant: the user to be changed is counted as well.                      *)
CountEverySuperAdmin(r) ==
    /\ req[r].at = "countSuperAdmins"
    /\ Goto(r, IF ActiveSuperAdmins = {} THEN Idle
               ELSE [req[r] EXCEPT !.at = AfterSuperAdmins(req[r]),
                                   !.counted = ActiveSuperAdmins])
    /\ UNCHANGED <<role, active, attached>>

assertNotRemovingLastActiveSuperAdmin(r) ==
    /\ req[r].at = "countSuperAdmins"
    /\ LET others == ActiveSuperAdmins \ {req[r].user} IN
       Goto(r, IF others = {} THEN Idle
               ELSE [req[r] EXCEPT !.at = AfterSuperAdmins(req[r]), !.counted = others])
    /\ UNCHANGED <<role, active, attached>>

assertNotRemovingLastActiveAdminLevelUser(r) ==
    /\ req[r].at = "countAdmins"
    /\ Goto(r, IF ActiveAdmins \ {req[r].user} = {} THEN Idle
               ELSE [req[r] EXCEPT !.at = "commit"])
    /\ UNCHANGED <<role, active, attached>>

(* The update by id, which writes one column (or deletes the row).         *)
CommitChange(r) ==
    /\ req[r].at = "commit"
    /\ LET u == req[r].user
           kind == req[r].kind
       IN  IF ~Exists(u) THEN UNCHANGED <<role, active, attached>>
           ELSE /\ role' = [role EXCEPT ![u] =
                        CASE kind = "role" -> req[r].role
                          [] kind = "purge" -> "NONE"
                          [] OTHER -> @]
                /\ active' = [active EXCEPT ![u] =
                        IF kind = "role" THEN @ ELSE req[r].active]
                /\ attached' = [attached EXCEPT ![u] = @ /\ kind # "purge"]
    /\ Goto(r, Idle)

(* Mutant: anybody can be detached from an organisation.                   *)
DetachAnybody(r, actor, u, nextAttached) ==
    /\ actor \in ActiveAdmins /\ Exists(u)
    /\ assertActorCanManageTargetUser(actor, u)
    /\ Start(r, [at |-> "organisation", user |-> u, seen |-> role[u],
                 attached |-> nextAttached])

updateUserOrganisation(r, actor, u, nextAttached) ==
    /\ actor \in ActiveAdmins /\ Exists(u)
    /\ assertActorCanManageTargetUser(actor, u)
    /\ role[u] = "EMPLOYER_ADMIN" => nextAttached
    /\ Start(r, [at |-> "organisation", user |-> u, seen |-> role[u],
                 attached |-> nextAttached])

CommitOrganisation(r) ==
    /\ req[r].at = "organisation"
    /\ attached' = IF Exists(req[r].user)
                   THEN [attached EXCEPT ![req[r].user] = req[r].attached] ELSE attached
    /\ Goto(r, Idle)
    /\ UNCHANGED <<role, active>>

(* Gives a membership; to the user it writes the organisation if it read   *)
(* none, and the role it read unless that was EMPLOYER_ADMIN.              *)
attachEmployerAdminToOrganisation(r, actor, u) ==
    /\ actor \in ActiveAdmins
    /\ role[u] \in {"CONSUMER", "EMPLOYER_ADMIN"} /\ active[u]
    /\ Start(r, [at |-> "attach", user |-> u, seen |-> role[u], attached |-> attached[u]])

CommitAttachment(r) ==
    /\ req[r].at = "attach"
    /\ LET u == req[r].user IN
       IF ~Exists(u) THEN UNCHANGED <<role, attached>>
       ELSE /\ role' = IF req[r].seen = "EMPLOYER_ADMIN" THEN role
                       ELSE [role EXCEPT ![u] = req[r].seen]
            /\ attached' = [attached EXCEPT ![u] = @ \/ ~req[r].attached]
    /\ Goto(r, Idle)
    /\ UNCHANGED active

-----------------------------------------------------------------------------
(* Users of their own accord, and the operators.                           *)

(* A person registers and verifies the address.                            *)
register(u) ==
    /\ ~Exists(u)
    /\ role' = [role EXCEPT ![u] = "CONSUMER"]
    /\ active' = [active EXCEPT ![u] = TRUE]
    /\ UNCHANGED <<attached, req>>

(* deleteAccount refuses platform admins, and nobody else.                 *)
deleteAccount(r, u) ==
    /\ Exists(u) /\ active[u] /\ role[u] # "PLATFORM_ADMIN"
    /\ Start(r, [at |-> "disable", user |-> u])

DisableAccount(r) ==
    /\ req[r].at = "disable"
    /\ active' = [active EXCEPT ![req[r].user] = FALSE]
    /\ Goto(r, Idle)
    /\ UNCHANGED <<role, attached>>

(* The row is updated or created, as it was found: either fails otherwise. *)
createFirstSuperAdmin(r, u) ==
    /\ ActiveSuperAdmins = {}
    /\ Start(r, [at |-> "bootstrap", user |-> u, existed |-> Exists(u)])

BootstrapSuperAdmin(r) ==
    /\ req[r].at = "bootstrap"
    /\ LET u == req[r].user IN
       IF Exists(u) # req[r].existed THEN UNCHANGED <<role, active, attached>>
       ELSE /\ role' = [role EXCEPT ![u] = "SUPER_ADMIN"]
            /\ active' = [active EXCEPT ![u] = TRUE]
            /\ attached' = [attached EXCEPT ![u] = FALSE]
    /\ Goto(r, Idle)

resetSuperAdminPassword(r, u) ==
    /\ role[u] = "SUPER_ADMIN"
    /\ Start(r, [at |-> "reset", user |-> u])

ReactivateSuperAdmin(r) ==
    /\ req[r].at = "reset"
    /\ active' = [active EXCEPT ![req[r].user] = @ \/ Exists(req[r].user)]
    /\ Goto(r, Idle)
    /\ UNCHANGED <<role, attached>>

(* Run with ALLOW_ADDITIONAL a platform admin may be added next to others; *)
(* somebody else's row is taken over only while there is none.             *)
bootstrapPlatformAdmin(r, u, allowAdditional) ==
    /\ ~Exists(u) => ActivePlatformAdmins = {} \/ allowAdditional
    /\ Exists(u) /\ role[u] # "PLATFORM_ADMIN" => ActivePlatformAdmins = {}
    /\ Start(r, [at |-> "platform", user |-> u])

(* An upsert, of whatever row the address has by now.                      *)
BootstrapPlatformAdmin(r) ==
    /\ req[r].at = "platform"
    /\ LET u == req[r].user IN
       /\ role' = [role EXCEPT ![u] = "PLATFORM_ADMIN"]
       /\ active' = [active EXCEPT ![u] = TRUE]
       /\ attached' = [attached EXCEPT ![u] = @ /\ Exists(u)]
    /\ Goto(r, Idle)

-----------------------------------------------------------------------------
Arrive(r) ==
    \E u \in Users :
        \/ \E actor \in Users :
              \/ \E nextRole \in UserRole :
                    \/ \E nextActive, nextAttached \in BOOLEAN :
                          createManagedUser(r, actor, u, nextRole, nextActive, nextAttached)
                    \/ updateUserRole(r, actor, u, nextRole)
              \/ \E flag \in BOOLEAN :
                    updateUserStatus(r, actor, u, flag) \/ updateUserOrganisation(r, actor, u, flag)
              \/ permanentlyDeleteUser(r, actor, u)
              \/ attachEmployerAdminToOrganisation(r, actor, u)
        \/ deleteAccount(r, u)
        \/ createFirstSuperAdmin(r, u) \/ resetSuperAdminPassword(r, u)
        \/ \E allowAdditional \in BOOLEAN : bootstrapPlatformAdmin(r, u, allowAdditional)

Continue(r) ==
    \/ CreateUser(r)
    \/ assertNotRemovingLastActiveSuperAdmin(r)
    \/ assertNotRemovingLastActiveAdminLevelUser(r)
    \/ CommitChange(r) \/ CommitOrganisation(r) \/ CommitAttachment(r)
    \/ DisableAccount(r) \/ BootstrapSuperAdmin(r) \/ ReactivateSuperAdmin(r)
    \/ BootstrapPlatformAdmin(r)

Next ==
    \/ \E r \in Requests : Arrive(r) \/ Continue(r)
    \/ \E u \in Users : register(u)

Spec == Init /\ [][Next]_vars

-----------------------------------------------------------------------------
(* The request of r writes on the strength of what is no longer so: the    *)
(* role of the user it writes to has changed since it read it, or all the  *)
(* super admins its guard counted have gone.                               *)
Overtaken(r) ==
    \/ /\ req[r].at \in {"commit", "organisation", "attach"}
       /\ role[req[r].user] # req[r].seen
    \/ /\ req[r].at = "commit" /\ req[r].counted # Users
       /\ req[r].counted \cap ActiveSuperAdmins = {}

(* What a change that has passed its guard carries: it keeps the super     *)
(* admin it read in office, or somebody else was counted.                  *)
ChangesAreCounted ==
    \A r \in Requests : req[r].at \in {"countAdmins", "commit"} =>
        LET change == req[r] IN
        /\ change.counted = Users \/ change.user \notin change.counted
        /\ change.seen = "SUPER_ADMIN" /\ change.counted = Users =>
              change.role = "SUPER_ADMIN" /\ change.active

(* No request is about to leave an employer admin without an organisation, *)
(* as far as it knows.                                                     *)
EmployersComeAttached ==
    \A r \in Requests :
        LET local == req[r] IN
        /\ local.at = "create" => (local.role = "EMPLOYER_ADMIN" => local.attached)
        /\ local.at = "organisation" => (local.seen = "EMPLOYER_ADMIN" => local.attached)
        /\ local.at \in {"countSuperAdmins", "countAdmins", "commit"} =>
              (local.kind = "role" /\ local.role = "EMPLOYER_ADMIN" => local.attached)

(* The inductive invariant.                                                *)
IndInv ==
    /\ TypeOK
    /\ ChangesAreCounted
    /\ EmployersComeAttached

Writes(r) == req[r].at # "idle" /\ req'[r] = Idle

(* The last active super admin goes only when a request was overtaken, or  *)
(* by one of the two writers that ask no guard: deleting his own account   *)
(* (deleteAccount) and the script that makes a platform admin of him       *)
(* (bootstrap-platform-admin).  The staff's own changes, in any number and *)
(* overlap, have no other way past their guards.                           *)
LastSuperAdminIsGuarded ==
    [][ActiveSuperAdmins # {} /\ ActiveSuperAdmins' = {} =>
          \E r \in Requests :
             Writes(r) /\ (Overtaken(r) \/ req[r].at \in {"disable", "platform"})]_vars

(* Employer admins stay attached to an organisation, again unless the      *)
(* request was overtaken, by a change of role or of organisation.          *)
EmployerAdminsAreAttached ==
    [][\A u \in Users :
          /\ role'[u] = "EMPLOYER_ADMIN" /\ ~attached'[u]
          /\ role[u] = "EMPLOYER_ADMIN" => attached[u]
          => \E r \in Requests :
                /\ Writes(r)
                /\ \/ Overtaken(r)
                   \/ req[r].at = "commit" /\ req[r].attached /\ ~attached[u]]_vars
=============================================================================
