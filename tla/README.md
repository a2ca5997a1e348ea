# TLA+ model of IQmeridian

IQmeridian is an assessment platform: employers invite candidates, candidates sit a timed test, the
answers are scored by a psychometric service, and the candidate is told the outcome. This directory
holds TLA+ specifications of its backend, TLC configurations that check them on small instances, and
TLAPS proofs of their safety properties for every instance. Paths below are relative to `src/`.

The backend (`apps/api`, NestJS on PostgreSQL through Prisma) is stateless: everything that lasts is
in the database, every request is a chain of awaits, and almost every update addresses a row by `id`
alone. The interesting question everywhere is therefore the same: *what happens when the row has
changed since the handler read it* - because another request ran, the clock advanced, or an earlier
request died half-way.

## 1. Inventory

| Component (code) | State | Operations | Talks to |
|---|---|---|---|
| Assessment sessions (`apps/api/src/sessions`) | `Session` (status, sectionEndsAt, completedAt, submittedAt, access token hash), `SessionItem` | create from invitation, create for consumer, start, resume, finalise, timer closure, item selection, exchange of a result token | invitations, campaigns, psychometrics, verification tokens, e-mail |
| Responses (`responses`) | `Response`, `SessionItem.status` | autosave of one response, finalise the response set | sessions |
| Psychometrics, API side (`psychometrics`) | `PsychometricScoreResult` | build request, call scorer, persist result | sessions, Python service |
| Psychometrics service (`apps/psychometrics`) | none | baseline and IRT scoring | - |
| Invitations (`invitations`) | `Invitation` (status, expiresAt, candidateUserId, usedAt) | create, validate, extend, cancel, resend, accept | campaigns, users, e-mail |
| Campaigns (`campaigns`) | status, result visibility, thresholds | status transitions, updates | sessions, invitations |
| Authentication (`auth`), account settings (`account`) | `User`, `AuthSession`, `AuthAccount` | register, invite and accept (platform admin, employer admin, candidate), verify, login, refresh, logout, password reset/change, revoke sessions, delete the account | verification tokens, invitations |
| Verification tokens (`verification-tokens`) | `VerificationToken` | create (revoking older), find, mark used | auth, sessions |
| User administration (`users`, `prisma/scripts/super-admin.ts`, `prisma/bootstrap-platform-admin.ts`) | role, status, organisation of `User` | creation, change of role, status and organisation, purge, revocation of sessions, the operators' two scripts | auth sessions, organisations |
| Organisation access requests (`organisation-access-requests`) | `OrganisationAccessRequest`, `OrganisationAdminInvitation` | create, review, convert, resend; open and accept in `auth` | verification tokens, users, organisations |
| Analytics exports (`internal-tooling`) | request status | request, review, generate, download | - |
| Item review and form assembly (`assessments`, `internal-tooling`, `item-bank`) | `Item` (status, reviewStatus, psychometricStatus), `FormItemMapping`, pilot status and lock of the form | create, edit, submit, review, approve, activate, retire, attach, lock | sessions (selection) |
| Candidate web client (`apps/web`) | local answers, countdown, save queue | autosave, timer expiry, submit, resume polling | sessions, responses |
| Legacy scoring, reports, leaderboard, organisations, contact, audit, diagnostics, dashboards | derived or plain CRUD rows | - | - |

How they interact, in the path this project models first: an employer creates an *invitation*; the
candidate opens it, which accepts it and creates a *session*; starting the session selects and inserts
its *session items* and sets the section's deadline; each answer is autosaved through *responses*;
completion (the candidate's submit, the deadline noticed by some request, or the response set's own
route) leads to *scoring* over HTTP and then to a *notification* with a *verification token*. There is
no queue and no background job: a session past its deadline is closed by the next request that looks
at it, and a scoring that failed is repeated only when somebody asks for it.

What is hard, and what makes each part correct:

* **Sessions, responses, scoring.** Three ways to complete a session overlap each other, overlap
  autosaves of answers, and overlap a re-scoring by an operator; the form may be edited between two
  loads of a session, down to nothing that can be delivered. Correct means: an answered item has
  its response and nobody loses it; what was delivered first stays; completion is never stamped
  with a time that has not come; a score exists only for a completed session and stands for the
  answers it ended with; nobody is sent to a result that is not there; deadlines are enforced and
  a completion is followed by its score unless the scoring failed.
* **Invitations.** Admission is a guarded update followed by an unguarded create. Correct means: no
  session without acceptance, one session per invitation, no orphan account, cancellation is final.
* **Authentication and tokens.** Password reset, logout, refresh, suspension and login race; a token is
  revoked and replaced in two statements, and claimed in a transaction some awaits after it was found
  usable. Correct means: who is signed in knows the password, a closed session stays closed, a
  suspension leaves nothing for a reactivation to bring back, a link acts once.
* **User administration.** Count-then-update guards. Correct means: an active super admin remains, and
  an employer admin has an organisation; the questions are which paths the guards miss.
* **Organisation access.** A review and a conversion race, the conversion's mail comes after its
  transaction, links are replaced, two links of one contact are accepted at once. Correct means: one
  organisation per request, one acceptance per contact, no pending invitation without a link.
* **Item review.** Three services write the same items and mappings without transactions, one of them
  by id without any check. Correct means: an active item has a place in a form, the end of a section
  is the end, a form that is locked for a pilot changes only as its lock allows.
* **Analytics exports.** Approve, decline and generate race. Correct means: the status graph has no
  illegal edge, and a file exists exactly when the status says so.
* **Web client.** Saves in flight, a countdown re-synchronised with the server, a submit fired by the
  timer. Correct means: the last answer typed is the one stored.

`PROJECT.json` lists each of these hazards at its line.

## 2. Modules

| Module | Contents |
|---|---|
| `SessionLifecycle` | one session: delivery, start, autosave, completion, scoring, notification |
| `SessionContract` | what the API documents promise of a session, without requests or time |
| `SessionLifecycleProofs` | TLAPS proofs about `SessionLifecycle` |
| `MCSession` | small instances of `SessionLifecycle` |
| `InvitationAdmission` | the invitations of one campaign to one address; registration; admission |
| `InvitationAdmissionProofs` | TLAPS proofs about `InvitationAdmission` |
| `InvitationContract` | what invitations promise an employer and a candidate, without requests or dates |
| `InvitationContractProofs` | TLAPS proof that `InvitationAdmission` with requests that do not overlap implements it |
| `SessionContractProofs` | TLAPS proof that `SessionLifecycle` with requests that do not overlap implements `SessionContract` |
| `AccountAccess`, `MCAccountAccess` | one account: everything that opens or closes it, its login sessions and its links |
| `AccountContract` | what an account promises its owner, however requests overlap and die |
| `AccountAccessProofs` | TLAPS proofs about `AccountAccess`, and that it implements `AccountContract` |
| `AdminGuard`, `MCAdminGuard` | roles, statuses and organisations of users, and the guards of those who change them |
| `AdminGuardProofs` | TLAPS proofs about `AdminGuard` |
| `OrganisationAccess`, `MCOrganisationAccess` | requests for access of one contact, from asking to the accepted invitation |
| `OrganisationAccessProofs` | TLAPS proofs about `OrganisationAccess` |
| `ItemReview`, `MCItemReview` | items on their way into one section of one form, and the form's pilot status and lock |
| `ItemReviewProofs` | TLAPS proofs about `ItemReview` |

The three contracts are what the rest of the system may rely on. `SessionContract` and
`InvitationContract` have no requests and no clock, and the code implements them as long as requests
do not overlap: one open invitation at a time unless an expired one is reopened beside it, held by an
account or by one applicant who sits the assessment, once; a cancelled one is over. `AccountContract`
is weaker and holds under any overlap: a login session is opened once and ends for good, a password is
given and the sessions of others end in one step, a link is good for one step, and an account that
was barred opens again only while staff have ordered it or through a link that was still good
(`orders` are the standings that requests of staff are about to write). Each refinement mapping stands at
the end of its detailed module, as `Contract`; `ImplementsContract` is what the runs check and the
theorems state.

### Conventions

* `Requests` is a set of slots; a slot serves one HTTP request after another. `req[r].at` is the await
  the request is suspended at, the other fields are the local variables it still needs. A step of a
  request is the code between two awaits that matter: awaits with no visible effect between two reads
  or after the last write are merged with their neighbour (audit records, lookups of rows that never
  change). A Prisma transaction is one step when all its statements read and write by key; a Prisma
  read with `include` is one read.
* Steps that follow a database read use the local value; `where: { id }` updates have no guard,
  `updateMany` with a status condition has that condition as its guard.
* History variables record what the program does not, for the properties only; their comment says so.
* Refusals that leave everything unchanged (401, 404, 409 before any write) are not steps.
* A comment starting with "Mutant:" marks an alternative form of the next definition, with a
  plausible bug. `PROJECT.json` pairs each with a property that must notice it. Mutants are never
  part of `Next`.

### SessionLifecycle and the code

| Action(s) | Code |
|---|---|
| `startSessionForActor`, `FindSessionItems`, `SelectSessionItems`, `FindFirstSection`, `BeginSection` | `sessions.service.ts` `startSessionForActor`, `ensureSessionItemsSelected` |
| `resumeSessionForActor`, `getCandidateAssessmentSessionPayload` | the same file; both notice a deadline that has passed |
| `saveItemResponse`, `FindSessionItem`, `CommitResponse` | `responses.service.ts` `saveItemResponse`: check, lookup, transaction |
| `finaliseResponseSet`, `finaliseResponseSetInternal` | `responses.service.ts`: check, transaction |
| `finaliseSessionForActor`, `CompleteSession` | `finaliseSessionForActor`, `completeTimedOutSession` |
| `scoreCompletedSessionBestEffort`, `scoreSession`, `buildForSession`, `upsertSessionScore`, `ScoringFails` | best-effort wrapper, operator's route, request builder, persistence |
| `sendCandidateResultNotification`, `revokeActiveTokens`, `createResultToken`, the two mails, `NotificationFails` | notification in `sessions.service.ts`; the two statements of `createToken` in `verification-tokens.service.ts` |
| `updateCandidateResultVisibility` | `campaigns.service.ts` |
| `Crash`, `Tick` | the process dies inside a request; time passes |

Data is abstracted as follows. An answer is a normalised value; saving one is an upsert. The score row
is represented by the answers it was computed from, so that "the score is right" is an equation and
not a formula of the scorer (the scorer is a function of the request, see `apps/psychometrics`).

*Delivery.* A load of a session that finds no items selects some of the form's, by quotas, difficulty
bands and a shuffle, from the mappings and items that are `ACTIVE` when it reads them. Which ones
comes out is the constant `Selections`: each gives the selected items the positions 1, 2, ... and the
others none, and the runs take *every* one, the empty one included, so two loads may differ in order,
in the items, and in how many there are. `createMany` with `skipDuplicates` drops the rows whose item
or position is taken (`Fits`) and inserts the rest. A start whose session has no item by then takes
the form's first section, or is refused if the form has none (`FindFirstSection`); `startedEmpty` is
history and says that a start has done so and no load has inserted anything since.

*Scoring.* The request builder takes the answers to the items whose mapping is `ACTIVE` when it reads
(`Mappings`: what that can be), and refuses when there are none, on every retry until the form is
mapped again. `unscored` is history: a handler that completed the session went on without its score
(the build was refused, the scorer failed, the request died, or the response set was finalised on a
route that does not score), and there is none since.

`submittedAt` is always written together with `completedAt` and is left out; so are access-token
rotation, the participant row and the mails' delivery records, which no modelled decision reads.
`EXPIRED` and `ABANDONED` are in the enum and tested by guards, but no code sets them.
`lateWrite` is a history variable: an answer was committed after `completedAt` was set.

### InvitationAdmission and the code

`createInvitation`/`InsertInvitation`, `extendInvitation`/`UpdateExpiry`,
`cancelInvitation`/`MarkCancelled` and `validateInvitation`/`MarkExpired` are the two halves (check,
write) of the methods of `invitations.service.ts`. `registerCandidate`/`ClaimInvitation` is
`auth.service.ts` `registerCandidate`, whose transaction creates the account and claims the invitation
with a guarded `updateMany`. `createSessionFromInvitation`, `FindInvitationSession`,
`AcceptInvitation` and `CreateSession` are the four phases of the method of that name in
`sessions.service.ts`. The route `POST sessions/invitation` passes no user id, so the branches for a
signed-in candidate are unreachable and not modelled; `acceptInvitation` has no caller either. The
campaign and its form are active throughout. When an existing session's timer has run out, the method
closes it like a finalisation does; that step belongs to `SessionLifecycle`.

### AccountAccess and the code

The row of one e-mail address, from nothing to purged and back. In `auth.service.ts` the pairs
`register`/`CreateRegisteredUser`, `invitePlatformAdmin`/`CreateInvitedUser`,
`verifyEmail`/`ClaimVerification`, `acceptPlatformAdminInvitation`/`ClaimInvitedAccount`,
`resetPassword`/`ClaimReset`, `changePassword`/`SetPassword` and `refresh`/`TouchSession` or
`ExpireSession` are the checks and the write (a transaction where the code has one) of one method;
`login` continues with `LinkLocalAccount` and `createAuthenticatedSession`. `revokeActiveTokens` and
`createToken` are the two statements of `verification-tokens.service.ts` `createToken`, which
`register`, `resendEmailVerification`, `forgotPassword` and `invitePlatformAdmin` go through.
`canActivate` is the guard in front of every signed-in route. `revokeAuthSession`,
`revokeOtherAuthSessions` and `deleteAccount` are `account.service.ts`; `updateUserStatus`/`SetStatus`/
`SignOut`, `revokeAdminSessions` and `permanentlyDeleteUser`/`PurgeUser` are `users.service.ts`.

`SUSPENDED` and `DISABLED` are one status, `INACTIVE`: no check here tells them apart. `LAPSED` is a
row whose status still says active but whose `expiresAt` has passed. A deleted user takes his
sessions and tokens along (the schema's cascades), and requests under way for that row fail on their
next write, so they end. `session[s].known` is history: the password the holder of the session has
proved to know, empty for a login that something overtook. `token[t].acted` counts how often a link
had its effect; `lost` says a suspension died between its two statements.

### AdminGuard and the code

`users.service.ts`, one action per method and one per await that matters: a change of role or status
or a purge reads its target, counts the other super admins
(`assertNotRemovingLastActiveSuperAdmin`), counts the other administrators and writes by `id`.
`attachEmployerAdminToOrganisation` is `organisations.service.ts`, `deleteAccount` is
`account.service.ts`, and `createFirstSuperAdmin` and `resetSuperAdminPassword` are
`prisma/scripts/super-admin.ts`. `bootstrapPlatformAdmin`/`BootstrapPlatformAdmin` is
`prisma/bootstrap-platform-admin.ts`: it counts the active platform admins and then upserts the user
of an address as one, whoever he was; it does not ask whether he is the last super admin. The development
seed (`prisma/seed.ts`) also upserts users of fixed addresses; it fills an
empty database and is left out. The guard's read of the actor and the method's first read of the
target are one step: an actor whose powers are taken away in between is as good as one that acted a
moment earlier, since none of his reads is used against another. `register` is the whole way to an
active consumer, which no guard looks at. `counted` is history: whom the guard counted. Roles without
powers over users are one role, `CONSUMER`.

### OrganisationAccess and the code

`create`, `review`, `convert` and `resendAdminInvitationEmail` are
`organisation-access-requests.service.ts`, each with its write (`InsertAccessRequest`, `WriteReview`,
`ConvertRequest`, `ProlongInvitation`); conversion and resend go on through `revokeActiveTokens` and
`createToken`. `getOrganisationAdminInvitationByToken`/`ExpireInvitation` and
`acceptOrganisationAdminInvitation`/`ClaimInvitation` are the contact's part in `auth.service.ts`. All
requests name the same contact, because only then do they meet: at the unique user row and in the
purge, which deletes by e-mail address. Whether a mail was delivered is recorded for display only.

### ItemReview and the code

`assessments.service.ts`: creation and submission by a researcher, the four decisions of a reviewer
(`reviewAssignedSectionItem` stands for the four methods, which share their lookup and differ in the
statuses they accept and write), and the placement that follows an approval
(`upsertApprovedItemFormMapping`: `FindPosition`, then `UpdateMapping` or `InsertMapping`).
`internal-tooling.service.ts`: creation and edit of drafts, activation, retirement, attachment to a
form and the pilot status of the form. `item-bank.service.ts`: `createItem`, `activateItem` and
`retireItem`, which ask for nothing but the item's existence. Items are not versioned here and their
text plays no part; edits of the text alone, in all three services, are no actions.

A row keeps the three statuses that guards read. `NEEDS_REVISION` counts as `NOT_REVIEWED`, and of
`psychometricStatus` only `PILOT_READY` is told apart. A form has its `pilotStatus` (`OPEN` stands for
the four that do not lock) and its `isLocked`, and is locked if either says so: it may be *created* in
a locking status with `isLocked` false (`createInternalAssessmentForm`), which `Init` allows. A locked
form takes an item from `attachInternalItemToForm` only with an override and if it is pilot-ready and
approved for the pilot, and changes its pilot status only with an override; the routes of
`assessments.service.ts` place items without asking for the lock. An override is the role and the reason
that `assertLockedFormOverrideAllowed` demands. The blueprint a form must meet to be locked is reduced
to having an active mapping, and the metadata a pilot-ready item needs to its approval. History:
`after`, the items whose positions the choice of this one saw; `seen`, the row that was checked as the
form was found locked; `lost`, the active items that have no place because the request that was to
give it died or because the item bank asked for none.

## 3. Runs

| Run | Instance | Shows |
|---|---|---|
| `session_concurrent` | 2 overlapping requests, 2 items, all 5 selections, one item actively mapped at each scoring, 1 answer, section of 1 tick, 2 clock values, 1 fault | every safety property below, and that `IndInv` is an invariant |
| `session_serial` | 1 request at a time, 2 items, all selections, any mapping, 2 answers, section of 2 ticks, 5 clock values, 2 faults | without overlap the code implements `SessionContract` and notifies at most once |
| `session_liveness` | 2 requests, 1 item that may be selected and mapped or not, 2 clock values, 1 fault, `FairSpec` | deadlines are enforced while the page polls; a completion by a route of the session is followed by its score unless that scoring failed, died or found no mapped item |
| `session_late_answer` | as `session_concurrent`, no fault | **violated**: answers of a closed session change |
| `session_duplicate_notice` | as `session_concurrent`, no fault | **violated**: the candidate is notified twice |
| `invitation_concurrent` | 2 requests, 2 invitations, 3 clock values, 1 crash | acceptance precedes admission, accounts hold their invitation, acceptance is guarded |
| `invitation_serial` | 1 request at a time, 2 invitations, 4 clock values, 2 crashes | one session per invitation, token-only or account, cancellation is final, a second open invitation is an extended one; the code implements `InvitationContract` |
| `invitation_registered` | 1 request, 1 invitation, 2 clock values, `FairSpec` | **violated**: a registered candidate never gets the session |
| `account_access` | 2 overlapping requests, 2 login sessions, 2 tokens, 2 passwords, 1 fault | sessions know the password, inactive accounts are signed out, links act once, closed sessions stay closed; every step is one `AccountContract` allows |
| `admin_guard` | 2 users, 2 overlapping requests | what the guards of the last super admin and of employer admins miss, and nothing else |
| `organisation_access` | 2 requests for access of one contact, 2 links, 2 overlapping API requests, 1 fault | one organisation per request, one acceptance, pending invitations have a link, conversions are undone by stale reviews only |
| `item_review` | 2 items, one of a section assignment, the other of internal staff, 2 overlapping requests; position 0, `APPROVED_FOR_PILOT`, `PILOT_READY` and two pilot statuses entered by hand | active items are placed unless the item bank activated them, the end of the section is the end, a locked form is governed |

Properties of `session_concurrent`: `AnsweredItemsHaveResponses`, `RunningSessionsAreDelivered`,
`CompletionIsNotInTheFuture`, `ScoredSessionsWereCompleted`, `UndisturbedScoreIsFinal`,
`NotificationsAreTrue`, and of steps `DeliveryIsFixed` and `AnswersAreKept`. They hold *although* the
session can be reopened by a late start, answered late and completed several times. The run checks
what survives that: for instance a scoring that was reading while the session was reopened still
writes a score of the answers the session ended with, unless `lateWrite` says an answer came in.

Three of them need a word on what they do not say. `UndisturbedScoreIsFinal` is about the answers to
the items that were actively mapped when the score was built; answers to others were never sent, and
whether the form's mappings are still those of the delivery nobody checks. `DeliveryIsFixed` lets a
load append: one that found nothing but reads a form that has grown inserts the rows whose positions
the first load left free. That the *set* stays the same needs that the loads select equally many
(theorem `DeliveryOfOneSize`). `RunningSessionsAreDelivered` excepts a start that found nothing to
deliver: the code runs such a session, with a clock and without a form.

`CompletedSessionsGetScored` makes no promise about the response set's route, and none after a failed
scoring: nobody is bound to score a session again, and a form without an active mapping refuses for ever.

Several properties of the last four runs name the one way in which the code does let something
happen, and claim there is no other. A super admin who is the last goes only through a request that was
*overtaken* (what it read, or everybody its guard counted, has changed since), by deleting his own
account or by the script that makes a platform admin of him; a conversion is undone only by a review
that read an earlier status; a locked form is opened without a reason only by a request that read
another form, and gets an item unfit for the pilot only after a stale check or from routes that do not
ask for the lock; two open invitations come only of an extension. Each is the
precise extent of a check-then-write gap, and breaks when a guard is dropped or a column is
written that should not be.

**Why the bounds are enough.** Every hazard of the session needs two requests: one suspended between
its read and its write, the other one passing it. A third adds no new relation between a local value
and the row, and the proofs cover every number. Two items give selections that differ in order, in
the items and in number. `OneMapped` lets the set of mapped items change from one scoring to the next;
that it may be empty is left to the serial and the liveness run. A section of one tick and two clock
values give times before and at the deadline of a section started at 0, and a start at 1 moves the
deadline beyond the clock; the serial run goes past it. One fault is
enough to lose any one step and retry. `Many` saturates at two because the properties only tell 0, 1
and more apart. In `InvitationAdmission` two rows allow an open invitation beside an expired one;
creation is enabled only while a row is left for every pending insertion, so an insertion
that has passed its checks always finds a row. In `AccountAccess` two sessions are the one that acts
and the one that should be signed out, two tokens are a link and its replacement, two passwords are
the old and the new. In `AdminGuard` two users are the two super admins who demote each other. In
`OrganisationAccess` two requests for access and two links give two invitations competing for one
address, and a link with its replacement. In `ItemReview` two items are enough to compete for a
position, and both origins of an item occur; `Handled` keeps the edits by hand to the first, which goes
through the review as well. `APPROVED_FOR_PILOT` and `PILOT_READY` are the values entered by hand that
open a way past the lock, one pilot status locks and one does not, and `GivenPositions = {0}` collides
with the first position of a section. Rows, slots, users
and passwords are interchangeable, which the `MC` modules declare as symmetries (no liveness is
checked with them).

A run may stop in the ordinary course where rows are bounded: once every row is cancelled, spent or
given away and the clock has stopped, nothing is left to do. The invitation runs, `account_access`,
`organisation_access` and `item_review` switch the deadlock check off for that reason; the session
runs and `admin_guard` keep it.

**Fairness.** `WF(Continue(r))`: Node's event loop resumes a request whose await has settled; a
request that dies instead takes `Crash`, and faults are finitely many. `WF(Tick)`: time passes.
`SF` on `resumeSessionForActor`: the assessment page synchronises with the server every 15 seconds
while it is open (`apps/web/src/features/assessment/hooks/use-backend-synced-timer.ts`), so a resume
gets in although the slots may be busy in between. That is an assumption about a user of the API, and
`NoSessionRunsPastItsDeadline` is only as strong as it is. Nothing is assumed of operators: no
background job scores a session again, and the model does not pretend there is one. `SF` on
`createSessionFromInvitation`: a candidate keeps trying.

## 4. Findings

1. **Answers of a closed session change** (`session_late_answer`). `saveItemResponse` checks the
   status it read and commits after two more awaits, without repeating the check. A response that is
   being saved when the session is finalised is written after completion - and after scoring, so the
   score need not stand for the stored answers. `docs/api/phase-6-api-contract.md` says "closed
   sessions cannot be changed".
2. **A candidate is notified twice** (`session_duplicate_notice`). `finaliseSessionForActor` completes
   by `id`; two overlapping submits both complete, score and notify, and the second token revokes the
   link of the first mail. `docs/phase-7-candidate-flow-qa.md` says "Duplicate submission attempt is
   prevented".
3. **A registered candidate cannot sit the test** (`invitation_registered`). Registration sets
   `candidateUserId` on the invitation; the route that creates the session never passes a user id, and
   the service then refuses an assigned invitation. `docs/phase-6-completion-checklist.md` says
   "candidate can create session from invitation".

Seen while modelling, of the same nature, without a run of their own: a start that overlaps a
finalisation reopens a completed session (`ClosedSessionsStayClosed` is the property it breaks); two
requests create two sessions of one invitation when the second reads `ACCEPTED` before the first has
created its session; an extension writes back the status it read, which undoes an acceptance or a
cancellation made meanwhile; extending an expired invitation beside a newer one leaves two open;
`validateInvitation` expires an accepted invitation whose session is running; answers are accepted
past the deadline until some request closes the session; completion through the response set's route
neither scores nor notifies.

Seen in the other modules, again where the code allows what one would not expect. They are the
exceptions that the properties name, or actions of the models:

* *Accounts.* `verifyEmail` sets the account to `ACTIVE` whatever its status is by then, which undoes a
  suspension made since the link was checked (`auth.service.ts:888`); what remains true is that the
  link was still good (`AccountContract`). A suspension that dies
  between `users.service.ts:374` and `:387` leaves the sessions active. A login that checked the old
  password creates its session after a reset. A refresh may turn `REVOKED` into `EXPIRED`.
* *Sessions.* A start whose form has nothing to deliver begins all the same, in the form's first section
  (`sessions.service.ts:955-961`): the clock runs and the candidate sees no item. A completed session
  whose form has no active mapping is refused its score on every attempt
  (`psychometric-scoring-request-builder.service.ts:59-63`).
* *Administrators.* `deleteAccount` refuses platform admins only (`account.service.ts:280`), so the last
  super admin can delete himself, and `bootstrap-platform-admin.ts:172` makes a platform admin of him
  while there is no active one, both against "At least one active super admin must remain."
  (`users.service.ts:1067`). Two super admins can demote each other. `updateUserRole` beside
  `updateUserOrganisation` leaves an employer admin without an organisation, and
  `attachEmployerAdminToOrganisation` writes back the role it read.
* *Organisation access.* A review overwrites `CONVERTED` (and a conversion a `DECLINED` written
  meanwhile). Opening an older link after its own expiry marks an invitation `EXPIRED` although a resend
  has prolonged it (`auth.service.ts:484`), and `EXPIRED` is a dead end: a resend refuses it. An expiry
  written by `id` can overwrite `ACCEPTED`.
* *Items.* An item retired by internal staff while under review keeps its review status, so an
  approval makes it `ACTIVE` again, against "Retired items cannot be reactivated silently."
  (`internal-tooling.service.ts:1097`); the item bank activates any item, retired or without a place
  (`item-bank.service.ts:122`). The placement after an approval and `attachItemToForm` do not
  look at the form's lock, against `internal-tooling.service.ts:1304`. A stale change of pilot status
  unlocks a form, and a form created in a locking status has no `isLocked` to keep
  (`internal-tooling.service.ts:440`): one change of its status, with a reason, opens it for good. Two
  edits of one item, each checked against the row it read, leave a `PILOT_READY` item without its
  approval for the pilot. Two approvals may take the same position.

## 5. Proofs

All theorems hold for every value of the constants, in particular for any number of overlapping
requests, under the assumptions stated in the modules: `NoAnswer` is not an answer
(`AnswersAssumption`), a selection numbers the items it selects from 1 without gaps
(`SelectionsAssumption`; it may be empty), mappings are sets of items (`MappingsAssumption`), what
administrators enter are statuses and positions (`ReviewsAssumption` and its like in `ItemReview`), and
the bounds are natural numbers (`BoundsAssumption`). TLC evaluates these
assumptions on every run.

* `SessionLifecycleProofs`. Hardly any of the safety properties is inductive alone: most are
  preserved only if the requests that are half-way hold something true. `IndInv` adds what a request may still rely
  on at each await (`IsSound`) - a closure carries a time that has come, a start that is about to
  begin has items or found none, a save names a delivered item, a scoring in flight holds the answers of a
  completed session unless a late write happened, a mail in preparation has a score - together with
  "`COMPLETED` has a `completedAt`" and the shape of the delivered rows (`RowsAreSound`): no two share a
  position, and the first load's fill the positions from 1 on without a gap, which is why whatever
  another load adds comes after them. The point of the argument is that each of these facts is stable:
  `completedAt` is never reset, items are never removed, a score is never deleted, the clock does not
  go back. What is *not* stable (the status) is not in it, which is why the findings are possible.
  `Inductive` proves `Spec => []IndInv`, `TypeCorrect`, `SessionSafety` and `ScoreIsOfFinalAnswers`
  follow, and `DeliveryFixed` and `AnswersKept` are proved from `IndInv` step by step.
  `DeliveryOfOneSize` proves the stronger statement, that the set of items never changes, from the
  assumption `OneSize` that the loads which select anything select equally many: then every row of a
  later load finds its position taken (`NothingFits`).
* `InvitationAdmissionProofs`. `IndInv` adds that a request that goes on to create a session, or that
  read `ACCEPTED`, refers to a row whose `usedAt` is set, which nothing unsets. `AdmissionIsAccepted`
  and `RegistrationsAreClaims` follow; `AcceptanceIsGuarded` is the action property. What holds only
  when requests do not overlap (`SerialSessions`, `SerialCandidates`, `SerialCancellation`,
  `SerialDuplicates`) is proved under `OneSlot`, that there is a single slot: then everything the
  one request has checked is still so when it writes (`StillSo`), whatever died before it. These
  theorems and the findings between them say that overlap, and nothing else, breaks these properties.
* `SessionContractProofs` uses the same argument for `SessionLifecycle`: with one slot the notification
  is sent at most once (`SerialNotification`) and the code implements the contract
  (`SerialRefinement`): initial states map to initial states, every step of a handler to a step of
  the contract or to none, for any number of items, answers, clock values and faults.
* `AccountAccessProofs`. `IndInv` adds to the three invariants which states of the account the request
  of each await presupposes (`LocalsAreSound`), and two facts that tie them together: an account has a
  session only once its login method is linked, and links belong to an existing account. Without the
  first an invited administrator's acceptance, which sets a password without signing anybody out,
  would break `SessionsKnowThePassword`; what excludes it in the code is the unique row of the login
  method. `ClosedForGood` is proved step by step. `Refinement` shows, without assuming anything about
  overlap, that every step maps to one step of `AccountContract` or to none, one lemma per kind of
  step. A date that passes maps to none: a lapsed session or link is closed by the request that finds
  out, so in the contract it is still signed in or good.
* `InvitationContractProofs` proves the refinement of `InvitationContract` with one slot
  (`SerialContract`), from the same `SerialInv` as the serial theorems of `InvitationAdmissionProofs`.
* `AdminGuardProofs`. `ChangesAreCounted`: a change that has passed its guard keeps its super admin in
  office or has counted somebody else; `EmployersComeAttached`: nobody is about to leave an employer
  admin without organisation knowingly. From these the two action properties follow by going
  through the writes.
* `OrganisationAccessProofs`. `IndInv` adds that links and requests refer to existing invitations and how
  `accepted` and the status go together. The hard part is `OneAcceptance` over the claim: the unique
  address and the guarded claims of link and invitation exclude a second winner.
* `ItemReviewProofs`. `IndInv` adds that what a request is about to insert comes after all it saw
  (`LocalsAreSound`), that mappings are never deleted, that an activation by internal staff had a
  mapping, that an insertion into a form found locked was of a pilot-ready item, and that a change of a
  locked form's status carries its override. `LockedFormGoverned` goes through every step that can change
  the form or add a mapping.

**What overlap alone breaks.** Many properties of the runs name the stale or overtaken request as
their exception. In each proof module the exception is then removed under `OneSlot`, with an invariant
`SerialInv`: `IndInv`, and of every request that what it has read is still so (`StillSo`). It is
preserved because with one slot only the request itself writes, and because what a dead request left
behind is never read as a promise. What is proved, and what remains true of the code even then:

| Theorem | Without overlap | Hole that remains |
|---|---|---|
| `AdminGuardProofs!SerialSuperAdmin` | a super admin remains in office | the last one deletes his own account; the script makes a platform admin of him while there is no active one |
| `AdminGuardProofs!SerialEmployers` | every employer admin has an organisation, in every state | none |
| `AccountAccessProofs!SerialSessions` | who is signed in knows the present password, and the account is active | a suspension has still to sign him out, or died before it could |
| `AccountAccessProofs!SerialLinks` | one outstanding link of a kind | none |
| `OrganisationAccessProofs!SerialRequests` | one pending request of the contact; what has an organisation is `CONVERTED`; one usable link of an invitation | none |
| `OrganisationAccessProofs!SerialConversion` | `CONVERTED` is final | none |
| `OrganisationAccessProofs!SerialAcceptance` | an accepted invitation stays accepted | the purge of the contact deletes it |
| `ItemReviewProofs!SerialLock` | `isLocked` is never lost, and a locked form's status changes only with a reason | a form created in a locking status has no `isLocked` |
| `ItemReviewProofs!SerialReadiness` | a `PILOT_READY` item is `APPROVED_FOR_PILOT` | none |
| `ItemReviewProofs!SerialRetirement` | an item that is retired and not under review never changes | the item bank activates it; or it was retired while under review |

No induction over data was needed: the modules have no recursive definition.

Only model-checked: the two liveness properties, since fairness is outside the prover's reach. Every
other property of a passing run is also a theorem.

## 6. Not modelled, and the plan

Left out for good: the Python scorer's arithmetic on real numbers, e-mail rendering and delivery,
dashboards and their queries, the development seed (`prisma/seed.ts`) and import scripts, audit and diagnostics (write-only records),
contact forms and plain CRUD without concurrent rules, the legacy scoring and reports that the
current flow does not call. Most of the source by volume is of this kind: the web application's pages
and the queries that feed them.

Left out of the modelled components:

* *Authentication*: the throttle, which counts attempts of the last minutes and then records one (two
  attempts at once may both be let in); the signing and hashing of tokens; the login session that a
  candidate's registration opens, which is a `createAuthenticatedSession` on a new account; and
  `prisma/bootstrap-platform-admin.ts` as far as it sets a password and, in a later statement, revokes
  the account's sessions (what it does to roles is in `AdminGuard`), so `SessionsKnowThePassword`
  says nothing of an account while operators run it.
* *Sessions*: result summaries and the exchange of result tokens, which change no state a modelled
  decision reads; the creation of consumer sessions, whose check for an active session of the form and
  insertion are apart like those of invitations.
* *Campaigns*: status transitions and thresholds. `InvitationAdmission` keeps the campaign active.
* *Items and forms*: the content of items and its edits (`assessments.service.ts:955-1063`), section
  assignments, the publication of forms (`isActive`, which `setFormActive` and `updatePilotFormStatus`
  both write, and `formStatus`), the counts of the blueprint, and more than one form or section.
* *Analytics exports*: request, review, generation and download share no state with the rest. The
  overlap of two reviews and the generation that dies half-way are listed as hazards.
* *Web client*: the order in which the page issues its saves. `SessionLifecycle` accepts every overlap
  of requests the page can produce, but no property says the last answer typed is the one stored.

Next, if the project is taken further:

1. `AnalyticsExport`: review, generation (which cannot be resumed after a crash) and download.
2. The campaign's status in `InvitationAdmission` and `SessionLifecycle`, and `createConsumerSession`.
3. `AssessmentClient`: autosave, timer and submit of the page composed with an abstract server.
4. Pure parts as operators against reference definitions: item selection by quotas, score bands,
   campaign transitions.
5. The exceptions of section 4 as checked disagreements with the comments and messages they contradict.
