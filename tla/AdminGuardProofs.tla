------------------------- MODULE AdminGuardProofs -------------------------
(* Proofs about AdminGuard, for any number of users and of overlapping      *)
(* requests.                                                                *)
EXTENDS AdminGuard, TLAPS

Rows ==
    /\ role \in [Users -> UserRole \cup {"NONE"}]
    /\ active \in [Users -> BOOLEAN]
    /\ attached \in [Users -> BOOLEAN]

(* What ChangesAreCounted and EmployersComeAttached say of one request.     *)
IsCounted(change) ==
    change.at \in {"countAdmins", "commit"} =>
        /\ change.counted = Users \/ change.user \notin change.counted
        /\ change.seen = "SUPER_ADMIN" /\ change.counted = Users =>
              change.role = "SUPER_ADMIN" /\ change.active
IsAttached(local) ==
    /\ local.at = "create" => (local.role = "EMPLOYER_ADMIN" => local.attached)
    /\ local.at = "organisation" => (local.seen = "EMPLOYER_ADMIN" => local.attached)
    /\ local.at \in {"countSuperAdmins", "countAdmins", "commit"} =>
          (local.kind = "role" /\ local.role = "EMPLOYER_ADMIN" => local.attached)

LEMMA InitInv == Init => IndInv
BY DEF Init, IndInv, TypeOK, ChangesAreCounted, EmployersComeAttached, Idle, Request, UserRole

(* A step of one request's slot.                                            *)
LEMMA SlotStep ==
    ASSUME IndInv, NEW r \in Requests, NEW next \in Request, Goto(r, next),
           Rows', IsCounted(next), IsAttached(next)
    PROVE  IndInv'
<1>1. req' \in [Requests -> Request]
  BY DEF IndInv, TypeOK, Goto
<1>2. \A q \in Requests : IsCounted(req[q]) /\ IsAttached(req[q])
  BY DEF IndInv, ChangesAreCounted, EmployersComeAttached, IsCounted, IsAttached
<1>3. \A q \in Requests : req'[q] = IF q = r THEN next ELSE req[q]
  BY DEF IndInv, TypeOK, Goto
<1>4. \A q \in Requests : IsCounted(req'[q]) /\ IsAttached(req'[q])
  BY <1>2, <1>3
<1> QED BY <1>1, <1>4 DEF IndInv, TypeOK, Rows, ChangesAreCounted, EmployersComeAttached,
               IsCounted, IsAttached

(* A change starts at one of its guards, or has nothing to take away.       *)
LEMMA ChangeSound ==
    ASSUME NEW kind \in {"role", "status", "purge"}, NEW u \in Users,
           NEW nextRole \in UserRole, NEW nextActive \in BOOLEAN, role[u] \in UserRole,
           attached[u] \in BOOLEAN, kind = "purge" => ~nextActive,
           kind = "role" /\ nextRole = "EMPLOYER_ADMIN" => attached[u]
    PROVE  Change(kind, u, nextRole, nextActive) \in Request
           /\ IsCounted(Change(kind, u, nextRole, nextActive))
           /\ IsAttached(Change(kind, u, nextRole, nextActive))
<1> DEFINE start == [kind |-> kind, user |-> u, seen |-> role[u], attached |-> attached[u],
                     role |-> nextRole, active |-> nextActive, counted |-> Users,
                     at |-> "commit"]
           change == Change(kind, u, nextRole, nextActive)
<1>1. change = [start EXCEPT !.at = FirstGuard(start)]
  BY DEF Change
<1>2. FirstGuard(start) \in {"countSuperAdmins", "countAdmins", "commit"}
  BY DEF FirstGuard, AfterSuperAdmins
<1>3. /\ change.kind = kind /\ change.user = u /\ change.seen = role[u]
      /\ change.role = nextRole /\ change.active = nextActive /\ change.counted = Users
      /\ change.attached = attached[u]
      /\ change.at = FirstGuard(start)
  BY <1>1
<1>4. change \in Changes
  BY <1>1, <1>2 DEF Changes
<1>5. IsCounted(change)
  <2>1. role[u] = "SUPER_ADMIN" /\ ~(nextRole = "SUPER_ADMIN" /\ nextActive) =>
            FirstGuard(start) = "countSuperAdmins"
    BY DEF FirstGuard
  <2> HIDE DEF change
  <2> QED BY <1>3, <2>1 DEF IsCounted
<1>6. IsAttached(change)
  <2> HIDE DEF change
  <2> QED BY <1>2, <1>3 DEF IsAttached
<1> QED BY <1>4, <1>5, <1>6 DEF Request

LEMMA ExistingRole ==
    ASSUME IndInv, NEW u \in Users, Exists(u)
    PROVE  role[u] \in UserRole /\ attached[u] \in BOOLEAN
BY DEF IndInv, TypeOK, Exists

LEMMA ArriveSound ==
    ASSUME IndInv, NEW r \in Requests, Arrive(r)
    PROVE  IndInv'
<1>0. Rows
  BY DEF IndInv, TypeOK, Rows
<1>1. ASSUME NEW next \in Request, Start(r, next), IsCounted(next), IsAttached(next)
      PROVE  IndInv'
  <2>1. Rows'
    BY <1>0, <1>1 DEF Start, Rows
  <2> QED BY <1>1, <2>1, SlotStep DEF Start
<1>2. ASSUME NEW next \in Request, Start(r, next), IsAttached(next),
             next.at \notin {"countAdmins", "commit"}
      PROVE  IndInv'
  BY <1>1, <1>2 DEF IsCounted
<1>3. ASSUME NEW kind \in {"role", "status", "purge"}, NEW u \in Users, Exists(u),
             NEW nextRole \in UserRole, NEW nextActive \in BOOLEAN,
             kind = "purge" => ~nextActive,
             kind = "role" /\ nextRole = "EMPLOYER_ADMIN" => attached[u],
             Start(r, Change(kind, u, nextRole, nextActive))
      PROVE  IndInv'
  BY <1>1, <1>3, ChangeSound, ExistingRole
<1> PICK u \in Users :
        \/ \E actor \in Users :
              \/ \E nextRole \in UserRole :
                    \/ \E nextActive, nextAttached \in BOOLEAN :
                          createManagedUser(r, actor, u, nextRole, nextActive, nextAttached)
                    \/ updateUserRole(r, actor, u, nextRole)
              \/ \E flag \in BOOLEAN :
                    updateUserStatus(r, actor, u, flag) \/ updateUserOrganisation(r, actor, u, flag)
              \/ permanentlyDeleteUser(r, actor, u)
              \/ attachEmployerAdminToOrganisation(r, actor, u)
        \/ deleteAccount(r, u)
        \/ createFirstSuperAdmin(r, u) \/ resetSuperAdminPassword(r, u)
        \/ \E allowAdditional \in BOOLEAN : bootstrapPlatformAdmin(r, u, allowAdditional)
  BY DEF Arrive
<1>4. ASSUME NEW actor \in Users, NEW nextRole \in UserRole, NEW nextActive \in BOOLEAN,
             NEW nextAttached \in BOOLEAN,
             createManagedUser(r, actor, u, nextRole, nextActive, nextAttached)
      PROVE  IndInv'
  <2> DEFINE next == [at |-> "create", user |-> u, role |-> nextRole, active |-> nextActive,
                      attached |-> nextAttached]
  <2>1. next \in Request /\ next.at = "create"
    BY DEF Request
  <2>2. Start(r, next) /\ IsAttached(next)
    BY <1>4 DEF createManagedUser, IsAttached
  <2> QED BY <1>2, <2>1, <2>2
<1>5. ASSUME NEW actor \in Users, NEW nextRole \in UserRole, updateUserRole(r, actor, u, nextRole)
      PROVE  IndInv'
  <2>1. active[u] \in BOOLEAN
    BY <1>0 DEF Rows
  <2> QED BY <1>3, <1>5, <2>1 DEF updateUserRole
<1>6. ASSUME NEW actor \in Users, NEW flag \in BOOLEAN, updateUserStatus(r, actor, u, flag)
      PROVE  IndInv'
  <2>1. role[u] \in UserRole
    BY <1>6, ExistingRole DEF updateUserStatus
  <2> QED BY <1>3, <1>6, <2>1 DEF updateUserStatus
<1>7. ASSUME NEW actor \in Users, NEW flag \in BOOLEAN, updateUserOrganisation(r, actor, u, flag)
      PROVE  IndInv'
  <2> DEFINE next == [at |-> "organisation", user |-> u, seen |-> role[u], attached |-> flag]
  <2>1. next \in Request /\ next.at = "organisation"
    BY <1>7, ExistingRole DEF Request, updateUserOrganisation
  <2>2. Start(r, next) /\ IsAttached(next)
    BY <1>7 DEF updateUserOrganisation, IsAttached
  <2> QED BY <1>2, <2>1, <2>2
<1>8. ASSUME NEW actor \in Users, permanentlyDeleteUser(r, actor, u) PROVE IndInv'
  <2>1. role[u] \in UserRole
    BY <1>8, ExistingRole DEF permanentlyDeleteUser
  <2> QED BY <1>3, <1>8, <2>1 DEF permanentlyDeleteUser
<1>9. ASSUME NEW actor \in Users, attachEmployerAdminToOrganisation(r, actor, u) PROVE IndInv'
  <2> DEFINE next == [at |-> "attach", user |-> u, seen |-> role[u], attached |-> attached[u]]
  <2>1. next \in Request /\ next.at = "attach"
    BY <1>0, <1>9 DEF Request, attachEmployerAdminToOrganisation, Rows, UserRole
  <2>2. Start(r, next) /\ IsAttached(next)
    BY <1>9 DEF attachEmployerAdminToOrganisation, IsAttached
  <2> QED BY <1>2, <2>1, <2>2
<1>10. ASSUME \/ deleteAccount(r, u) \/ resetSuperAdminPassword(r, u)
              \/ \E allowAdditional \in BOOLEAN : bootstrapPlatformAdmin(r, u, allowAdditional)
       PROVE  IndInv'
  <2>1. PICK place \in {"disable", "reset", "platform"} : Start(r, [at |-> place, user |-> u])
    BY <1>10 DEF deleteAccount, resetSuperAdminPassword, bootstrapPlatformAdmin
  <2>2. [at |-> place, user |-> u] \in Request /\ IsAttached([at |-> place, user |-> u])
    BY DEF Request, IsAttached
  <2> QED BY <1>2, <2>1, <2>2
<1>11. ASSUME createFirstSuperAdmin(r, u) PROVE IndInv'
  <2> DEFINE next == [at |-> "bootstrap", user |-> u, existed |-> Exists(u)]
  <2>1. next \in Request /\ next.at = "bootstrap"
    BY DEF Request, Exists
  <2>2. Start(r, next) /\ IsAttached(next)
    BY <1>11 DEF createFirstSuperAdmin, IsAttached
  <2> QED BY <1>2, <2>1, <2>2
<1> QED BY <1>4, <1>5, <1>6, <1>7, <1>8, <1>9, <1>10, <1>11

(* An arriving request reads the rows, and writes none.                     *)
LEMMA ArriveReads ==
    ASSUME NEW r, Arrive(r)
    PROVE  UNCHANGED <<role, active, attached>>
<1>1. ASSUME NEW next, Start(r, next) PROVE UNCHANGED <<role, active, attached>>
  BY <1>1 DEF Start
<1> QED BY <1>1 DEF Arrive, createManagedUser, updateUserRole, updateUserStatus,
         updateUserOrganisation, permanentlyDeleteUser, attachEmployerAdminToOrganisation,
         deleteAccount, createFirstSuperAdmin, resetSuperAdminPassword, bootstrapPlatformAdmin

LEMMA IdleSound == Idle \in Request /\ IsCounted(Idle) /\ IsAttached(Idle)
BY DEF Idle, Request, IsCounted, IsAttached

LEMMA CountSound ==
    ASSUME IndInv, NEW r \in Requests,
           assertNotRemovingLastActiveSuperAdmin(r) \/ assertNotRemovingLastActiveAdminLevelUser(r)
    PROVE  IndInv'
<1>0. Rows' /\ req[r] \in Request /\ IsCounted(req[r]) /\ IsAttached(req[r])
  BY DEF IndInv, TypeOK, Rows, ChangesAreCounted, EmployersComeAttached, IsCounted, IsAttached,
         assertNotRemovingLastActiveSuperAdmin, assertNotRemovingLastActiveAdminLevelUser
<1>1. req[r] \in Changes
  BY <1>0 DEF Request, assertNotRemovingLastActiveSuperAdmin,
         assertNotRemovingLastActiveAdminLevelUser
<1>2. CASE assertNotRemovingLastActiveSuperAdmin(r)
  <2> DEFINE others == ActiveSuperAdmins \ {req[r].user}
             next == [req[r] EXCEPT !.at = AfterSuperAdmins(req[r]), !.counted = others]
  <2>1. CASE others = {}
    BY <1>0, <1>2, <2>1, IdleSound, SlotStep DEF assertNotRemovingLastActiveSuperAdmin
  <2>2. CASE others # {}
    <3>1. Goto(r, next)
      BY <1>2, <2>2 DEF assertNotRemovingLastActiveSuperAdmin
    <3>2. AfterSuperAdmins(req[r]) \in {"countAdmins", "commit"} /\ others \subseteq Users
      BY DEF AfterSuperAdmins, ActiveSuperAdmins
    <3>3. next \in Changes
      BY <1>1, <3>2 DEF Changes
    <3>4. next.counted = others /\ next.user = req[r].user
      BY <1>1 DEF Changes
    <3>5. next.user \notin next.counted /\ next.user \in Users
      BY <1>1, <3>4 DEF Changes
    <3>6. IsCounted(next) /\ IsAttached(next)
      <4>1. /\ next.at \in {"countAdmins", "commit"} /\ next.kind = req[r].kind
            /\ next.role = req[r].role /\ next.attached = req[r].attached
        BY <1>1, <3>2 DEF Changes
      <4>2. req[r].at = "countSuperAdmins"
        BY <1>2 DEF assertNotRemovingLastActiveSuperAdmin
      <4> HIDE DEF next
      <4> QED BY <1>0, <3>5, <4>1, <4>2 DEF IsCounted, IsAttached
    <3> QED BY <1>0, <3>1, <3>3, <3>6, SlotStep DEF Request
  <2> QED BY <2>1, <2>2
<1>3. CASE assertNotRemovingLastActiveAdminLevelUser(r)
  <2> DEFINE next == [req[r] EXCEPT !.at = "commit"]
  <2>1. PICK n \in {Idle, next} : Goto(r, n)
    BY <1>3 DEF assertNotRemovingLastActiveAdminLevelUser
  <2>2. next \in Request
    BY <1>1 DEF Changes, Request
  <2>3. IsCounted(next) /\ IsAttached(next)
    <3>1. /\ next.counted = req[r].counted /\ next.user = req[r].user /\ next.at = "commit"
          /\ next.kind = req[r].kind /\ next.attached = req[r].attached
          /\ next.seen = req[r].seen /\ next.role = req[r].role /\ next.active = req[r].active
      BY <1>1 DEF Changes
    <3>2. req[r].at = "countAdmins"
      BY <1>3 DEF assertNotRemovingLastActiveAdminLevelUser
    <3> HIDE DEF next
    <3> QED BY <1>0, <3>1, <3>2 DEF IsCounted, IsAttached
  <2> QED BY <1>0, <2>1, <2>2, <2>3, IdleSound, SlotStep
<1> QED BY <1>2, <1>3

LEMMA WriteSound ==
    ASSUME IndInv, NEW r \in Requests,
           \/ CreateUser(r) \/ CommitChange(r) \/ CommitOrganisation(r) \/ CommitAttachment(r)
           \/ DisableAccount(r) \/ BootstrapSuperAdmin(r) \/ ReactivateSuperAdmin(r)
           \/ BootstrapPlatformAdmin(r)
    PROVE  IndInv'
<1>0. Rows /\ req[r] \in Request
  BY DEF IndInv, TypeOK, Rows
<1>1. Goto(r, Idle)
  BY DEF CreateUser, CommitChange, CommitOrganisation, CommitAttachment, DisableAccount,
         BootstrapSuperAdmin, ReactivateSuperAdmin, BootstrapPlatformAdmin
<1>2. CASE CreateUser(r)
  <2>1. req[r].role \in UserRole /\ req[r].active \in BOOLEAN /\ req[r].attached \in BOOLEAN
    BY <1>0, <1>2 DEF CreateUser, Request, Changes
  <2>2. Rows'
    BY <1>0, <1>2, <2>1 DEF CreateUser, Rows
  <2> QED BY <1>1, <2>2, IdleSound, SlotStep
<1>3. CASE CommitChange(r)
  <2>1. req[r].role \in UserRole /\ req[r].active \in BOOLEAN /\ req[r].user \in Users
    BY <1>0, <1>3 DEF CommitChange, Request, Changes
  <2>2. Rows'
    BY <1>0, <1>3, <2>1 DEF CommitChange, Rows
  <2> QED BY <1>1, <2>2, IdleSound, SlotStep
<1>4. CASE CommitOrganisation(r)
  <2>1. req[r].attached \in BOOLEAN
    BY <1>0, <1>4 DEF CommitOrganisation, Request, Changes
  <2>2. Rows'
    BY <1>0, <1>4, <2>1 DEF CommitOrganisation, Rows
  <2> QED BY <1>1, <2>2, IdleSound, SlotStep
<1>5. CASE CommitAttachment(r)
  <2>1. req[r].seen \in UserRole
    BY <1>0, <1>5 DEF CommitAttachment, Request, Changes
  <2>2. Rows'
    BY <1>0, <1>5, <2>1 DEF CommitAttachment, Rows
  <2> QED BY <1>1, <2>2, IdleSound, SlotStep
<1>6. CASE DisableAccount(r) \/ BootstrapSuperAdmin(r) \/ ReactivateSuperAdmin(r)
  <2>1. Rows'
    BY <1>0, <1>6 DEF DisableAccount, BootstrapSuperAdmin, ReactivateSuperAdmin, Rows, UserRole
  <2> QED BY <1>1, <2>1, IdleSound, SlotStep
<1>7. CASE BootstrapPlatformAdmin(r)
  <2>1. req[r].user \in Users
    BY <1>0, <1>7 DEF BootstrapPlatformAdmin, Request, Changes
  <2>2. Rows'
    BY <1>0, <1>7, <2>1 DEF BootstrapPlatformAdmin, Rows, UserRole
  <2> QED BY <1>1, <2>2, IdleSound, SlotStep
<1> QED BY <1>2, <1>3, <1>4, <1>5, <1>6, <1>7

LEMMA NextSound == IndInv /\ [Next]_vars => IndInv'
<1> SUFFICES ASSUME IndInv, [Next]_vars PROVE IndInv'
  OBVIOUS
<1>1. ASSUME NEW r \in Requests, Arrive(r) \/ Continue(r) PROVE IndInv'
  BY <1>1, ArriveSound, CountSound, WriteSound DEF Continue
<1>2. ASSUME NEW u \in Users, register(u) PROVE IndInv'
  BY <1>2 DEF register, IndInv, TypeOK, ChangesAreCounted, EmployersComeAttached, UserRole
<1>3. CASE UNCHANGED vars
  BY <1>3 DEF vars, IndInv, TypeOK, ChangesAreCounted, EmployersComeAttached
<1> QED BY <1>1, <1>2, <1>3 DEF Next

(* The types, and what a change that has passed its guards carries.         *)
THEOREM Inductive == Spec => []IndInv
<1>1. Init => IndInv
  BY InitInv
<1>2. IndInv /\ [Next]_vars => IndInv'
  BY NextSound
<1> QED BY <1>1, <1>2, PTL DEF Spec

-----------------------------------------------------------------------------
(* Steps that leave the super admins alone, or only add to them.            *)
LEMMA SuperAdminsKept ==
    ASSUME NEW u \in Users, role'[u] = role[u], active[u] => active'[u], u \in ActiveSuperAdmins
    PROVE  u \in ActiveSuperAdmins'
BY DEF ActiveSuperAdmins

LEMMA GuardedCommit ==
    ASSUME IndInv, NEW r \in Requests, CommitChange(r), ~Overtaken(r), ActiveSuperAdmins # {}
    PROVE  ActiveSuperAdmins' # {}
<1> DEFINE u == req[r].user
           change == req[r]
<1>0. Rows /\ change \in Changes /\ change.at = "commit" /\ IsCounted(change)
  BY DEF IndInv, TypeOK, Rows, ChangesAreCounted, IsCounted, Request, CommitChange
<1>1. /\ u \in Users /\ change.kind \in {"role", "status", "purge"}
      /\ role[u] = change.seen
  BY <1>0 DEF Changes, Overtaken
<1>2. PICK other \in ActiveSuperAdmins : TRUE
  OBVIOUS
<1>3. CASE ~Exists(u)
  BY <1>2, <1>3 DEF CommitChange, ActiveSuperAdmins
<1>4. CASE Exists(u)
  <2>1. \A v \in Users \ {u} : role'[v] = role[v] /\ active'[v] = active[v]
    BY <1>0, <1>1, <1>4 DEF CommitChange, Rows
  <2>2. CASE \E v \in ActiveSuperAdmins : v # u
    BY <2>1, <2>2, SuperAdminsKept DEF ActiveSuperAdmins
  <2>3. CASE ActiveSuperAdmins = {u}
    <3>1. change.seen = "SUPER_ADMIN" /\ active[u]
      BY <1>1, <2>3 DEF ActiveSuperAdmins
    <3>2. change.counted = Users
      <4>1. CASE u \notin change.counted
        BY <1>0, <2>3, <4>1 DEF Overtaken
      <4> QED BY <1>0, <4>1 DEF IsCounted
    <3>3. change.role = "SUPER_ADMIN" /\ change.active
      BY <1>0, <3>1, <3>2 DEF IsCounted
    <3>4. CASE change.kind = "purge"
      BY <1>0, <3>3, <3>4 DEF Changes
    <3>5. CASE change.kind \in {"role", "status"}
      <4>1. role'[u] = "SUPER_ADMIN"
        BY <1>0, <1>1, <1>4, <3>1, <3>3, <3>5 DEF CommitChange, Rows
      <4>2. active'[u]
        BY <1>0, <1>1, <1>4, <3>1, <3>3, <3>5 DEF CommitChange, Rows
      <4> QED BY <1>1, <4>1, <4>2 DEF ActiveSuperAdmins
    <3> QED BY <1>1, <3>4, <3>5
  <2> QED BY <1>2, <2>2, <2>3
<1> QED BY <1>3, <1>4

LEMMA GuardedStep ==
    ASSUME IndInv, NEW r \in Requests, Arrive(r) \/ Continue(r),
           ActiveSuperAdmins # {}, ActiveSuperAdmins' = {}
    PROVE  Writes(r) /\ (Overtaken(r) \/ req[r].at \in {"disable", "platform"})
<1>0. Rows /\ req \in [Requests -> Request]
  BY DEF IndInv, TypeOK, Rows
<1>1. PICK other \in ActiveSuperAdmins : TRUE
  OBVIOUS
<1>2. ~(role'[other] = role[other] /\ (active[other] => active'[other]))
  BY <1>1, SuperAdminsKept DEF ActiveSuperAdmins
<1>3. other \in Users /\ role[other] = "SUPER_ADMIN" /\ active[other] /\ Exists(other)
  BY <1>1 DEF ActiveSuperAdmins, Exists
<1>4. ~Arrive(r)
  BY <1>2, ArriveReads
<1>5. ~CreateUser(r)
  BY <1>0, <1>2, <1>3 DEF CreateUser, Rows, Exists
<1>6. ~assertNotRemovingLastActiveSuperAdmin(r) /\ ~assertNotRemovingLastActiveAdminLevelUser(r)
  BY <1>2 DEF assertNotRemovingLastActiveSuperAdmin, assertNotRemovingLastActiveAdminLevelUser
<1>7. ~CommitOrganisation(r)
  BY <1>2 DEF CommitOrganisation
<1>8. ~BootstrapSuperAdmin(r) /\ ~ReactivateSuperAdmin(r)
  <2>1. ~BootstrapSuperAdmin(r)
    BY <1>0, <1>2, <1>3 DEF BootstrapSuperAdmin, Rows
  <2>2. ~ReactivateSuperAdmin(r)
    BY <1>0, <1>2, <1>3 DEF ReactivateSuperAdmin, Rows
  <2> QED BY <2>1, <2>2
<1>9. CASE CommitChange(r)
  BY <1>0, <1>9, GuardedCommit DEF CommitChange, Writes, Goto
<1>10. CASE DisableAccount(r)
  BY <1>0, <1>10 DEF DisableAccount, Writes, Goto
<1>11. CASE CommitAttachment(r)
  <2>1. req[r].user = other /\ req[r].seen # role[other]
    BY <1>0, <1>2, <1>3, <1>11 DEF CommitAttachment, Rows
  <2>2. Writes(r)
    BY <1>0, <1>11 DEF CommitAttachment, Writes, Goto
  <2> QED BY <1>11, <2>1, <2>2 DEF CommitAttachment, Overtaken
<1>12. CASE BootstrapPlatformAdmin(r)
  BY <1>0, <1>12 DEF BootstrapPlatformAdmin, Writes, Goto
<1> QED BY <1>4, <1>5, <1>6, <1>7, <1>8, <1>9, <1>10, <1>11, <1>12 DEF Continue

LEMMA SuperAdminStep ==
    ASSUME IndInv, [Next]_vars, ActiveSuperAdmins # {}, ActiveSuperAdmins' = {}
    PROVE  \E r \in Requests : Writes(r) /\ (Overtaken(r) \/ req[r].at \in {"disable", "platform"})
<1>1. CASE \E r \in Requests : Arrive(r) \/ Continue(r)
  BY <1>1, GuardedStep
<1>2. ASSUME NEW u \in Users, register(u) PROVE FALSE
  <2>1. Rows
    BY DEF IndInv, TypeOK, Rows
  <2>2. PICK other \in ActiveSuperAdmins : TRUE
    OBVIOUS
  <2>3. other \in Users /\ other # u
    BY <1>2, <2>2 DEF ActiveSuperAdmins, register, Exists
  <2>4. role'[other] = role[other] /\ active'[other] = active[other]
    BY <1>2, <2>1, <2>3 DEF register, Rows
  <2> QED BY <2>2, <2>3, <2>4, SuperAdminsKept
<1>3. CASE UNCHANGED vars
  BY <1>3 DEF vars, ActiveSuperAdmins
<1> QED BY <1>1, <1>2, <1>3 DEF Next

(* A slot that has become idle has taken its own step.                      *)
LEMMA WrittenBySlot ==
    ASSUME IndInv, [Next]_vars, NEW r \in Requests, Writes(r), req[r].at = "platform"
    PROVE  BootstrapPlatformAdmin(r)
<1>0. req \in [Requests -> Request] /\ req[r] # Idle /\ req'[r] = Idle
  BY DEF IndInv, TypeOK, Writes, Idle
<1>1. PICK q \in Requests : Arrive(q) \/ Continue(q)
  BY <1>0 DEF Next, register, vars
<1>2. ~Arrive(q)
  <2>1. ASSUME NEW next, Start(q, next) PROVE FALSE
    BY <1>0, <2>1 DEF Start, Goto, Writes
  <2> QED BY <2>1 DEF Arrive, createManagedUser, updateUserRole, updateUserStatus,
         updateUserOrganisation, permanentlyDeleteUser, attachEmployerAdminToOrganisation,
         deleteAccount, createFirstSuperAdmin, resetSuperAdminPassword, bootstrapPlatformAdmin
<1>3. q = r
  <2>1. PICK next : Goto(q, next)
    BY <1>1, <1>2 DEF Continue, CreateUser, assertNotRemovingLastActiveSuperAdmin,
         assertNotRemovingLastActiveAdminLevelUser, CommitChange, CommitOrganisation,
         CommitAttachment, DisableAccount, BootstrapSuperAdmin, ReactivateSuperAdmin,
         BootstrapPlatformAdmin
  <2> QED BY <1>0, <2>1 DEF Goto
<1> QED BY <1>1, <1>2, <1>3 DEF Continue, CreateUser, assertNotRemovingLastActiveSuperAdmin,
         assertNotRemovingLastActiveAdminLevelUser, CommitChange, CommitOrganisation,
         CommitAttachment, DisableAccount, BootstrapSuperAdmin, ReactivateSuperAdmin

(* The script that removes the last super admin writes to that very row.    *)
LEMMA PlatformStep ==
    ASSUME IndInv, [Next]_vars, NEW r \in Requests, Writes(r), req[r].at = "platform",
           ActiveSuperAdmins # {}, ActiveSuperAdmins' = {}
    PROVE  role[req[r].user] = "SUPER_ADMIN"
<1>0. Rows /\ BootstrapPlatformAdmin(r)
  BY WrittenBySlot DEF IndInv, TypeOK, Rows
<1>1. PICK other \in ActiveSuperAdmins : TRUE
  OBVIOUS
<1>2. other \in Users /\ role[other] = "SUPER_ADMIN" /\ active[other]
  BY <1>1 DEF ActiveSuperAdmins
<1>3. ~(role'[other] = role[other] /\ active'[other])
  BY <1>1, <1>2, SuperAdminsKept
<1> QED BY <1>0, <1>2, <1>3 DEF BootstrapPlatformAdmin, Rows

(* The last active super admin goes only by the deletion of an own account, *)
(* by the script that makes a platform admin of him, or by a request whose  *)
(* target or whose count was overtaken.                                     *)
THEOREM SuperAdminIsGuarded == Spec => LastSuperAdminIsGuarded
<1>1. IndInv /\ [Next]_vars /\ ActiveSuperAdmins # {} /\ ActiveSuperAdmins' = {} =>
          \E r \in Requests : Writes(r) /\ (Overtaken(r) \/ req[r].at \in {"disable", "platform"})
  BY SuperAdminStep
<1> QED BY <1>1, Inductive, PTL DEF Spec, LastSuperAdminIsGuarded

-----------------------------------------------------------------------------
(* Employer admins.                                                         *)
LEMMA EmployerStep ==
    ASSUME IndInv, [Next]_vars, NEW u \in Users, role'[u] = "EMPLOYER_ADMIN", ~attached'[u],
           role[u] = "EMPLOYER_ADMIN" => attached[u]
    PROVE  \E r \in Requests :
              /\ Writes(r)
              /\ \/ Overtaken(r)
                 \/ /\ req[r].at = "commit" /\ req[r].user = u
                    /\ req[r].attached /\ ~attached[u]
<1>0. Rows /\ req \in [Requests -> Request]
  BY DEF IndInv, TypeOK, Rows
<1>1. ~(role'[u] = role[u] /\ attached'[u] = attached[u])
  OBVIOUS
<1>2. ASSUME NEW v \in Users, register(v) PROVE FALSE
  BY <1>0, <1>1, <1>2 DEF register, Rows
<1>3. ~UNCHANGED vars
  BY <1>1 DEF vars
<1>4. PICK r \in Requests : Arrive(r) \/ Continue(r)
  BY <1>2, <1>3 DEF Next
<1>5. ~Arrive(r)
  BY <1>1, ArriveReads
<1>6. /\ ~assertNotRemovingLastActiveSuperAdmin(r)
      /\ ~assertNotRemovingLastActiveAdminLevelUser(r)
      /\ ~DisableAccount(r) /\ ~ReactivateSuperAdmin(r)
  BY <1>1 DEF assertNotRemovingLastActiveSuperAdmin, assertNotRemovingLastActiveAdminLevelUser,
         DisableAccount, ReactivateSuperAdmin
<1>7. ~BootstrapSuperAdmin(r) /\ ~BootstrapPlatformAdmin(r)
  <2>1. ~BootstrapSuperAdmin(r)
    BY <1>0, <1>1 DEF BootstrapSuperAdmin, Rows
  <2>2. ~BootstrapPlatformAdmin(r)
    <3>1. ASSUME BootstrapPlatformAdmin(r), req[r].user = u PROVE FALSE
      BY <1>0, <3>1 DEF BootstrapPlatformAdmin, Rows
    <3>2. ASSUME BootstrapPlatformAdmin(r), req[r].user # u PROVE FALSE
      BY <1>0, <1>1, <3>2 DEF BootstrapPlatformAdmin, Rows
    <3> QED BY <3>1, <3>2
  <2> QED BY <2>1, <2>2
<1>8. IsAttached(req[r]) /\ req[r] \in Request
  BY <1>0 DEF IndInv, EmployersComeAttached, IsAttached
<1>9. ~CreateUser(r)
  BY <1>0, <1>1, <1>8 DEF CreateUser, Rows, IsAttached
<1>10. CASE CommitChange(r)
  <2>1. req[r].user = u /\ req[r] \in Changes /\ Exists(u) /\ Writes(r)
    BY <1>0, <1>1, <1>8, <1>10 DEF CommitChange, Rows, Request, Writes, Goto
  <2>2. CASE req[r].kind = "role"
    <3>1. req[r].attached
      BY <1>0, <1>8, <1>10, <2>1, <2>2 DEF CommitChange, Rows, IsAttached
    <3>2. ~attached[u]
      BY <1>0, <1>10, <2>1, <2>2 DEF CommitChange, Rows
    <3> QED BY <1>10, <2>1, <3>1, <3>2 DEF CommitChange
  <2>3. CASE req[r].kind = "purge"
    BY <1>0, <1>10, <2>1, <2>3 DEF CommitChange, Rows
  <2>4. CASE req[r].kind = "status"
    BY <1>0, <1>1, <1>10, <2>1, <2>4 DEF CommitChange, Rows
  <2> QED BY <2>1, <2>2, <2>3, <2>4 DEF Changes
<1>11. CASE CommitOrganisation(r)
  <2>1. req[r].user = u /\ role[u] = "EMPLOYER_ADMIN" /\ ~req[r].attached /\ Writes(r)
    BY <1>0, <1>1, <1>8, <1>11 DEF CommitOrganisation, Rows, Writes, Goto
  <2>2. req[r].seen # "EMPLOYER_ADMIN"
    BY <1>8, <1>11, <2>1 DEF CommitOrganisation, IsAttached
  <2> QED BY <1>11, <2>1, <2>2 DEF CommitOrganisation, Overtaken
<1>12. CASE CommitAttachment(r)
  <2>1. req[r].user = u /\ Writes(r)
    BY <1>0, <1>1, <1>12 DEF CommitAttachment, Rows, Writes, Goto
  <2>2. CASE role[u] # "EMPLOYER_ADMIN"
    BY <1>0, <1>12, <2>1, <2>2 DEF CommitAttachment, Rows
  <2>3. CASE role[u] = "EMPLOYER_ADMIN"
    BY <1>0, <1>12, <2>1, <2>3 DEF CommitAttachment, Rows
  <2> QED BY <2>2, <2>3
<1> QED BY <1>4, <1>5, <1>6, <1>7, <1>9, <1>10, <1>11, <1>12 DEF Continue

(* An employer admin is left without an organisation only by a request that *)
(* was overtaken by a change of role or organisation.                       *)
THEOREM EmployersKeepTheirOrganisation == Spec => EmployerAdminsAreAttached
<1>1. IndInv /\ [Next]_vars => \A u \in Users :
          /\ role'[u] = "EMPLOYER_ADMIN" /\ ~attached'[u]
          /\ role[u] = "EMPLOYER_ADMIN" => attached[u]
          => \E r \in Requests :
                /\ Writes(r)
                /\ \/ Overtaken(r)
                   \/ req[r].at = "commit" /\ req[r].attached /\ ~attached[u]
  BY EmployerStep
<1> QED BY <1>1, Inductive, PTL DEF Spec, EmployerAdminsAreAttached

-----------------------------------------------------------------------------
(* Requests that do not overlap: with one slot, the user is still what he   *)
(* was read as, and somebody the guard counted is still in office.  People  *)
(* may register meanwhile.                                                  *)
OneSlot == \A q, r \in Requests : q = r

StillSo(q) ==
    /\ q.at \in {"countSuperAdmins", "countAdmins", "commit"} =>
          role[q.user] = q.seen /\ attached[q.user] = q.attached
    /\ q.at \in {"organisation", "attach"} => role[q.user] = q.seen
    /\ q.at \in {"countAdmins", "commit"} =>
          q.counted = Users \/ q.counted \cap ActiveSuperAdmins # {}
    /\ q.at = "platform" =>
          (role[q.user] = "SUPER_ADMIN" => ActivePlatformAdmins = {})

SerialInv == IndInv /\ \A r \in Requests : StillSo(req[r])

LEMMA NotOvertaken ==
    ASSUME SerialInv, NEW r \in Requests
    PROVE  ~Overtaken(r)
BY DEF SerialInv, StillSo, Overtaken

(* The one request goes on without having written.                          *)
LEMMA SlotSerial ==
    ASSUME OneSlot, IndInv, IndInv', NEW r \in Requests, NEW next, Goto(r, next),
           UNCHANGED <<role, active, attached>>, StillSo(next)
    PROVE  SerialInv'
<1>1. ASSUME NEW q \in Requests PROVE StillSo(req[q])'
  <2>1. req'[q] = next
    BY DEF OneSlot, Goto, IndInv, TypeOK
  <2> QED BY <2>1 DEF StillSo, ActiveSuperAdmins, ActivePlatformAdmins
<1> QED BY <1>1 DEF SerialInv

(* It is done.                                                              *)
LEMMA DoneSerial ==
    ASSUME OneSlot, IndInv, IndInv', NEW r \in Requests, Goto(r, Idle)
    PROVE  SerialInv'
<1>1. ASSUME NEW q \in Requests PROVE StillSo(req[q])'
  <2>1. req'[q] = Idle
    BY DEF OneSlot, Goto, IndInv, TypeOK
  <2> QED BY <2>1 DEF StillSo, Idle
<1> QED BY <1>1 DEF SerialInv

LEMMA ChangeStillSo ==
    ASSUME NEW kind, NEW u \in Users, NEW nextRole, NEW nextActive
    PROVE  StillSo(Change(kind, u, nextRole, nextActive))
<1> PICK start : start = [kind |-> kind, user |-> u, seen |-> role[u], attached |-> attached[u],
                          role |-> nextRole, active |-> nextActive, counted |-> Users,
                          at |-> "commit"]
  OBVIOUS
<1> PICK change : change = Change(kind, u, nextRole, nextActive)
  OBVIOUS
<1>1. change = [start EXCEPT !.at = FirstGuard(start)]
  BY DEF Change
<1>2. FirstGuard(start) \in {"countSuperAdmins", "countAdmins", "commit"}
  BY DEF FirstGuard, AfterSuperAdmins
<1>3. /\ change.user = u /\ change.seen = role[u] /\ change.attached = attached[u]
      /\ change.counted = Users
      /\ change.at \in {"countSuperAdmins", "countAdmins", "commit"}
  BY <1>1, <1>2
<1> QED BY <1>3 DEF StillSo

LEMMA ArriveSerial ==
    ASSUME OneSlot, SerialInv, IndInv', NEW r \in Requests, Arrive(r)
    PROVE  SerialInv'
<1>0. IndInv
  BY DEF SerialInv
<1>1. ASSUME NEW next, Start(r, next), StillSo(next) PROVE SerialInv'
  BY <1>0, <1>1, SlotSerial DEF Start
<1> PICK u \in Users :
        \/ \E actor \in Users :
              \/ \E nextRole \in UserRole :
                    \/ \E nextActive, nextAttached \in BOOLEAN :
                          createManagedUser(r, actor, u, nextRole, nextActive, nextAttached)
                    \/ updateUserRole(r, actor, u, nextRole)
              \/ \E flag \in BOOLEAN :
                    updateUserStatus(r, actor, u, flag) \/ updateUserOrganisation(r, actor, u, flag)
              \/ permanentlyDeleteUser(r, actor, u)
              \/ attachEmployerAdminToOrganisation(r, actor, u)
        \/ deleteAccount(r, u)
        \/ createFirstSuperAdmin(r, u) \/ resetSuperAdminPassword(r, u)
        \/ \E allowAdditional \in BOOLEAN : bootstrapPlatformAdmin(r, u, allowAdditional)
  BY DEF Arrive
<1>2. ASSUME NEW kind, NEW nextRole, NEW nextActive,
             Start(r, Change(kind, u, nextRole, nextActive))
      PROVE  SerialInv'
  BY <1>1, <1>2, ChangeStillSo
<1>3. ASSUME NEW actor, NEW nextRole, NEW nextActive, NEW nextAttached,
             createManagedUser(r, actor, u, nextRole, nextActive, nextAttached)
      PROVE  SerialInv'
  BY <1>1, <1>3 DEF createManagedUser, StillSo
<1>4. ASSUME NEW actor, NEW nextRole, updateUserRole(r, actor, u, nextRole) PROVE SerialInv'
  BY <1>2, <1>4 DEF updateUserRole
<1>5. ASSUME NEW actor, NEW flag, updateUserStatus(r, actor, u, flag) PROVE SerialInv'
  BY <1>2, <1>5 DEF updateUserStatus
<1>6. ASSUME NEW actor, NEW flag, updateUserOrganisation(r, actor, u, flag) PROVE SerialInv'
  BY <1>1, <1>6 DEF updateUserOrganisation, StillSo
<1>7. ASSUME NEW actor, permanentlyDeleteUser(r, actor, u) PROVE SerialInv'
  BY <1>2, <1>7 DEF permanentlyDeleteUser
<1>8. ASSUME NEW actor, attachEmployerAdminToOrganisation(r, actor, u) PROVE SerialInv'
  BY <1>1, <1>8 DEF attachEmployerAdminToOrganisation, StillSo
<1>9. ASSUME deleteAccount(r, u) \/ createFirstSuperAdmin(r, u) \/ resetSuperAdminPassword(r, u)
      PROVE  SerialInv'
  BY <1>1, <1>9 DEF deleteAccount, createFirstSuperAdmin, resetSuperAdminPassword, StillSo
<1>10. ASSUME NEW allowAdditional, bootstrapPlatformAdmin(r, u, allowAdditional)
       PROVE  SerialInv'
  <2>1. StillSo([at |-> "platform", user |-> u])
    BY <1>10 DEF bootstrapPlatformAdmin, Exists, StillSo
  <2> QED BY <1>1, <1>10, <2>1 DEF bootstrapPlatformAdmin
<1> QED BY <1>3, <1>4, <1>5, <1>6, <1>7, <1>8, <1>9, <1>10

(* A guard that lets the change pass has counted somebody in office.        *)
LEMMA CountSerial ==
    ASSUME OneSlot, SerialInv, IndInv', NEW r \in Requests,
           assertNotRemovingLastActiveSuperAdmin(r) \/ assertNotRemovingLastActiveAdminLevelUser(r)
    PROVE  SerialInv'
<1>0. /\ IndInv /\ StillSo(req[r]) /\ req[r] \in Changes
      /\ UNCHANGED <<role, active, attached>>
  BY DEF SerialInv, IndInv, TypeOK, Request, assertNotRemovingLastActiveSuperAdmin,
         assertNotRemovingLastActiveAdminLevelUser
<1>1. CASE Goto(r, Idle)
  BY <1>0, <1>1, DoneSerial
<1>2. CASE ~Goto(r, Idle) /\ assertNotRemovingLastActiveSuperAdmin(r)
  <2> PICK others, next :
          /\ others = ActiveSuperAdmins \ {req[r].user}
          /\ next = [req[r] EXCEPT !.at = AfterSuperAdmins(req[r]), !.counted = others]
    OBVIOUS
  <2>1. others # {} /\ Goto(r, next)
    BY <1>2 DEF assertNotRemovingLastActiveSuperAdmin
  <2>2. /\ next.user = req[r].user /\ next.seen = req[r].seen
        /\ next.attached = req[r].attached /\ next.counted = others
        /\ next.at \in {"countAdmins", "commit"}
    BY <1>0 DEF Changes, AfterSuperAdmins
  <2>3. req[r].at = "countSuperAdmins"
    BY <1>2 DEF assertNotRemovingLastActiveSuperAdmin
  <2>4. StillSo(next)
    BY <1>0, <2>1, <2>2, <2>3 DEF StillSo
  <2> QED BY <1>0, <2>1, <2>4, SlotSerial
<1>3. CASE ~Goto(r, Idle) /\ assertNotRemovingLastActiveAdminLevelUser(r)
  <2> PICK next : next = [req[r] EXCEPT !.at = "commit"]
    OBVIOUS
  <2>1. req[r].at = "countAdmins" /\ Goto(r, next)
    BY <1>3 DEF assertNotRemovingLastActiveAdminLevelUser
  <2>2. /\ next.user = req[r].user /\ next.seen = req[r].seen
        /\ next.attached = req[r].attached /\ next.counted = req[r].counted
        /\ next.at = "commit"
    BY <1>0 DEF Changes
  <2>3. StillSo(next)
    BY <1>0, <2>1, <2>2 DEF StillSo
  <2> QED BY <1>0, <2>1, <2>3, SlotSerial
<1> QED BY <1>1, <1>2, <1>3

(* Whoever registers had no row, so no request has read him as a user.      *)
LEMMA RegisterSerial ==
    ASSUME SerialInv, IndInv', NEW u \in Users, register(u)
    PROVE  SerialInv'
<1>0. /\ role' = [role EXCEPT ![u] = "CONSUMER"] /\ role[u] = "NONE"
      /\ active' = [active EXCEPT ![u] = TRUE]
      /\ UNCHANGED <<attached, req>> /\ TypeOK
  BY DEF register, Exists, SerialInv, IndInv
<1>1. ActiveSuperAdmins' = ActiveSuperAdmins
  BY <1>0 DEF ActiveSuperAdmins, TypeOK
<1>2. ASSUME NEW q \in Requests PROVE StillSo(req[q])'
  <2>1. StillSo(req[q]) /\ req[q] \in Request
    BY <1>0 DEF SerialInv, TypeOK
  <2>2. req[q].at \in {"countSuperAdmins", "countAdmins", "commit", "organisation", "attach"} =>
            req[q].user \in Users /\ req[q].seen \in UserRole
    BY <2>1 DEF Request, Changes
  <2>3. req[q].at \in {"countSuperAdmins", "countAdmins", "commit", "organisation", "attach"} =>
            role'[req[q].user] = role[req[q].user]
    BY <1>0, <2>1, <2>2 DEF StillSo, UserRole, TypeOK
  <2>4. req[q].at = "platform" /\ role'[req[q].user] = "SUPER_ADMIN" =>
            ActivePlatformAdmins' = {}
    <3>1. ActivePlatformAdmins' = ActivePlatformAdmins
      BY <1>0 DEF ActivePlatformAdmins, TypeOK
    <3>2. req[q].at = "platform" => req[q].user \in Users
      BY <2>1 DEF Request, Changes
    <3> QED BY <1>0, <2>1, <3>1, <3>2 DEF StillSo, TypeOK
  <2> QED BY <1>0, <1>1, <2>1, <2>3, <2>4 DEF StillSo
<1> QED BY <1>2 DEF SerialInv

LEMMA SerialStep ==
    ASSUME OneSlot, SerialInv, [Next]_vars
    PROVE  SerialInv'
<1>1. IndInv /\ IndInv'
  BY NextSound DEF SerialInv
<1>2. ASSUME NEW r \in Requests, Continue(r) PROVE SerialInv'
  <2>1. CASE \/ CreateUser(r) \/ CommitChange(r) \/ CommitOrganisation(r)
             \/ CommitAttachment(r) \/ DisableAccount(r) \/ BootstrapSuperAdmin(r)
             \/ ReactivateSuperAdmin(r) \/ BootstrapPlatformAdmin(r)
    <3>1. Goto(r, Idle)
      BY <2>1 DEF CreateUser, CommitChange, CommitOrganisation, CommitAttachment,
         DisableAccount, BootstrapSuperAdmin, ReactivateSuperAdmin, BootstrapPlatformAdmin
    <3> QED BY <1>1, <3>1, DoneSerial
  <2> QED BY <1>1, <1>2, <2>1, CountSerial DEF Continue
<1>3. CASE UNCHANGED vars
  BY <1>1, <1>3 DEF vars, SerialInv, StillSo, ActiveSuperAdmins, ActivePlatformAdmins
<1> QED BY <1>1, <1>2, <1>3, ArriveSerial, RegisterSerial DEF Next

LEMMA SerialInit == Init => SerialInv
<1>1. ASSUME Init, NEW r \in Requests PROVE StillSo(req[r])
  BY <1>1 DEF Init, Idle, StillSo
<1> QED BY <1>1, InitInv DEF SerialInv

(* Requests that do not overlap leave a super admin in office, but for two  *)
(* holes: deleteAccount lets the last one delete his own account            *)
(* (assertNotRemovingLastActiveSuperAdmin is not asked there), and          *)
(* bootstrap-platform-admin makes a platform admin of the last one while    *)
(* there is no active platform admin.                                       *)
THEOREM SerialSuperAdmin ==
    ASSUME OneSlot
    PROVE  Spec => [][ActiveSuperAdmins # {} /\ ActiveSuperAdmins' = {} =>
                        \E r \in Requests :
                            /\ Writes(r)
                            /\ \/ req[r].at = "disable"
                               \/ req[r].at = "platform" /\ ActivePlatformAdmins = {}]_vars
<1>1. SerialInv /\ [Next]_vars => SerialInv'
  BY SerialStep
<1>2. ASSUME SerialInv, [Next]_vars, ActiveSuperAdmins # {}, ActiveSuperAdmins' = {}
      PROVE  \E r \in Requests :
                /\ Writes(r)
                /\ \/ req[r].at = "disable"
                   \/ req[r].at = "platform" /\ ActivePlatformAdmins = {}
  <2>1. PICK r \in Requests : Writes(r) /\ req[r].at \in {"disable", "platform"}
    BY <1>2, SuperAdminStep, NotOvertaken DEF SerialInv
  <2>2. CASE req[r].at = "platform"
    <3>1. role[req[r].user] = "SUPER_ADMIN" => ActivePlatformAdmins = {}
      BY <1>2, <2>2 DEF SerialInv, StillSo
    <3>2. role[req[r].user] = "SUPER_ADMIN"
      BY <1>2, <2>1, <2>2, PlatformStep DEF SerialInv
    <3> QED BY <2>1, <2>2, <3>1, <3>2
  <2> QED BY <2>1, <2>2
<1>3. SerialInv /\ [Next]_vars =>
        [ActiveSuperAdmins # {} /\ ActiveSuperAdmins' = {} =>
            \E r \in Requests :
                /\ Writes(r)
                /\ \/ req[r].at = "disable"
                   \/ req[r].at = "platform" /\ ActivePlatformAdmins = {}]_vars
  BY <1>2
<1> QED BY <1>1, <1>3, SerialInit, PTL DEF Spec

(* And every employer admin has an organisation all the time: no order of   *)
(* creations, role changes, attachments, detachments and purges leaves one  *)
(* without (updateUserRole, updateUserOrganisation).                        *)
EmployersAttached == \A u \in Users : role[u] = "EMPLOYER_ADMIN" => attached[u]
THEOREM SerialEmployers ==
    ASSUME OneSlot
    PROVE  Spec => []EmployersAttached
<1> DEFINE Inv == SerialInv /\ EmployersAttached
<1>1. Init => Inv
  BY SerialInit DEF Init, EmployersAttached
<1>2. ASSUME Inv, [Next]_vars, NEW u \in Users, role'[u] = "EMPLOYER_ADMIN" PROVE attached'[u]
  <2> SUFFICES ASSUME ~attached'[u] PROVE FALSE
    OBVIOUS
  <2>1. PICK r \in Requests :
            \/ Overtaken(r)
            \/ /\ req[r].at = "commit" /\ req[r].user = u
               /\ req[r].attached /\ ~attached[u]
    BY <1>2, EmployerStep DEF SerialInv, EmployersAttached
  <2>2. ~Overtaken(r)
    BY <1>2, NotOvertaken
  <2> QED BY <1>2, <2>1, <2>2 DEF SerialInv, StillSo
<1>3. Inv /\ [Next]_vars => Inv'
  BY <1>2, SerialStep DEF EmployersAttached
<1>4. Inv => EmployersAttached
  OBVIOUS
<1> QED BY <1>1, <1>3, <1>4, PTL DEF Spec
=============================================================================
