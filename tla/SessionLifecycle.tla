-------------------------- MODULE SessionLifecycle --------------------------
(***************************************************************************)
(* One assessment session of the NestJS API, from the moment its row       *)
(* exists: item delivery, start, autosaved responses, completion (by the   *)
(* candidate, by the section timer, or through the response set),          *)
(* psychometric scoring and the candidate's result mail.                   *)
(*                                                                         *)
(* Every HTTP request runs in a slot of Requests.  A handler is cut where  *)
(* the code awaits the database, the scoring service or the mail server:   *)
(* between two such points other requests run, the clock advances, and the *)
(* process may die.  What a handler read before an await and uses after it *)
(* is a field of its slot's record, as it is a local variable in the code. *)
(* The updates of the session row are `where: { id }`, so no action below  *)
(* re-checks what its handler read.                                        *)
(***************************************************************************)
EXTENDS Integers, FiniteSets

CONSTANTS
    Requests,     \* slots for requests the API serves at the same time
    Items,        \* items that are or were mapped to the session's form
    Answers,      \* normalised answers a candidate can give
    NoAnswer,     \* there is no response row for the item
    Selections,   \* what a load can select from the form, see below
    Mappings,     \* the sets of items whose mapping can be ACTIVE
    SectionLimit, \* time limit of the first section, in clock ticks
    MaxTime,      \* bound: the clock stops here
    MaxFaults     \* bound: crashed requests, failed scorings and failed mails

ASSUME AnswersAssumption == NoAnswer \notin Answers
(* A selection gives each selected item its position, counted from 1, and  *)
(* 0 to the others.  Which ones are possible depends on the mappings,      *)
(* items, quotas and order of the form as a load reads them; a selection   *)
(* may be empty.                                                           *)
ASSUME SelectionsAssumption ==
    /\ Selections \subseteq [Items -> Nat]
    /\ \A s \in Selections : \A i \in Items :
          /\ \A j \in Items : s[i] = s[j] /\ s[i] # 0 => i = j
          /\ \A n \in 1 .. s[i] : \E j \in Items : s[j] = n
ASSUME MappingsAssumption == Mappings \subseteq SUBSET Items
ASSUME BoundsAssumption ==
    SectionLimit \in Nat \ {0} /\ MaxTime \in Nat /\ MaxFaults \in Nat

VARIABLES
    status,        \* Session.status
    sectionEndsAt, \* Session.sectionEndsAt
    completedAt,   \* Session.completedAt
    itemStatus,    \* SessionItem.status per item, "NONE" when there is no row
    position,      \* SessionItem.position per item, 0 when there is no row
    answers,       \* Response.answer per item
    scored,        \* a PsychometricScoreResult row exists
    scoredAnswers, \* the answers that row was computed from, per item scored
    visibility,    \* Campaign.candidateResultVisibility, "NO_CAMPAIGN" for consumers
    resultLink,    \* a CANDIDATE_RESULT_ACCESS token is active
    resultMails,   \* result-available mails sent (2 stands for two or more)
    hiddenMails,   \* completion-only mails sent (2 stands for two or more)
    now,           \* the clock
    faults,        \* faults so far
    lateWrite,     \* history: an answer was committed after completedAt was set
    startedEmpty,  \* history: a start found nothing to deliver, nor has a load since
    firstLoad,     \* history: the items that the first load delivered
    unscored,      \* history: a completion was not followed by its score, nor has it one
    req            \* per slot: where its request is, and its local variables

rowVars   == <<status, sectionEndsAt, completedAt>>
itemVars  == <<itemStatus, position, answers, lateWrite, firstLoad>>
scoreVars == <<scored, scoredAnswers>>
mailVars  == <<resultLink, resultMails, hiddenMails>>
envVars   == <<visibility, now>>
pastVars  == <<startedEmpty, unscored>>
vars == <<rowVars, itemVars, scoreVars, mailVars, envVars, pastVars, faults, req>>

Never  == -1       \* a null timestamp
Times  == {Never} \cup 0 .. (MaxTime + SectionLimit)
AnswerSheet == [Items -> Answers \cup {NoAnswer}]
Blank  == [i \in Items |-> NoAnswer]
(* The part of a sheet that concerns some of the items.                    *)
Part(sheet, items) == [i \in items |-> sheet[i]]
ScoredSheet == UNION {[items -> Answers \cup {NoAnswer}] : items \in SUBSET Items}
SessionStatus ==
    {"NOT_STARTED", "IN_PROGRESS", "COMPLETED", "EXPIRED", "ABANDONED"}
Closed == {"COMPLETED", "EXPIRED", "ABANDONED"}
SessionItemStatus == {"NONE", "SELECTED", "ANSWERED", "OMITTED"}
Visibilities == {"SUMMARY_ONLY", "COMPLETION_ONLY", "NO_CAMPAIGN"}

Idle == [at |-> "idle"]
(* What a request goes on with after the closing, scoring and notifying it *)
(* is in the middle of; "silent" closes nothing and notifies nobody.       *)
Thens == {"end", "payload", "items"}
Request ==
    [at : {"idle", "payload", "section", "begin"}]
    \cup [at : {"items", "select"}, then : {"start", "reply"}]
    \cup [at : {"close"}, completedAt : Times, then : Thens]
    \cup [at : {"scoreCheck", "scoreBuild"}, then : Thens \cup {"silent"}]
    \cup [at : {"scoreCall"}, basis : ScoredSheet, then : Thens \cup {"silent"}]
    \cup [at : {"notify", "revoke", "token", "resultMail", "hiddenMail"}, then : Thens]
    \cup [at : {"saveItem", "save"}, item : Items, answer : Answers]
    \cup [at : {"submit"}, completedAt : Times]

TypeOK ==
    /\ status \in SessionStatus
    /\ sectionEndsAt \in Times /\ completedAt \in Times
    /\ itemStatus \in [Items -> SessionItemStatus]
    /\ position \in [Items -> Nat]
    /\ answers \in AnswerSheet
    /\ scored \in BOOLEAN /\ scoredAnswers \in ScoredSheet
    /\ visibility \in Visibilities
    /\ resultLink \in BOOLEAN
    /\ resultMails \in 0 .. 2 /\ hiddenMails \in 0 .. 2
    /\ now \in 0 .. MaxTime /\ faults \in 0 .. MaxFaults
    /\ lateWrite \in BOOLEAN /\ startedEmpty \in BOOLEAN /\ unscored \in BOOLEAN
    /\ firstLoad \subseteq Items
    /\ req \in [Requests -> Request]

(* A session as createSessionFromInvitation and createConsumerSession      *)
(* leave it.  A campaign starts as SUMMARY_ONLY and may have been changed. *)
Init ==
    /\ status = "NOT_STARTED" /\ sectionEndsAt = Never /\ completedAt = Never
    /\ itemStatus = [i \in Items |-> "NONE"] /\ position = [i \in Items |-> 0]
    /\ answers = Blank
    /\ scored = FALSE /\ scoredAnswers = Part(Blank, {})
    /\ visibility \in Visibilities
    /\ resultLink = FALSE /\ resultMails = 0 /\ hiddenMails = 0
    /\ now = 0 /\ faults = 0
    /\ lateWrite = FALSE /\ startedEmpty = FALSE /\ unscored = FALSE /\ firstLoad = {}
    /\ req = [r \in Requests |-> Idle]

-----------------------------------------------------------------------------
(* Helpers of the handlers.                                                *)

At(r, place) == req[r].at = place
Goto(r, next) == req' = [req EXCEPT ![r] = next]
Many(n) == IF n < 2 THEN n + 1 ELSE 2

Delivered == {i \in Items : itemStatus[i] # "NONE"}

(* Mutant: the deadline is not compared with the clock.                    *)
TimedOutOnceStarted == status = "IN_PROGRESS" /\ sectionEndsAt # Never

(* Mutant: the comparison with the clock is the wrong way round.           *)
TimedOutBeforeDeadline ==
    status = "IN_PROGRESS" /\ sectionEndsAt # Never /\ sectionEndsAt > now

isTimedOutSession ==
    /\ status = "IN_PROGRESS"
    /\ sectionEndsAt # Never
    /\ sectionEndsAt <= now

(* Mutant: the closed statuses are not refused.                            *)
AlwaysOpen == TRUE

assertSessionOpenForResponseWrite == status \notin Closed

(* A start goes on with the section of the first item, if there is one.    *)
AfterItems(then, delivered) ==
    IF then = "start"
    THEN [at |-> IF delivered # {} THEN "begin" ELSE "section"]
    ELSE Idle

AfterNotification(then) ==
    CASE then = "payload" -> [at |-> "payload"]
      [] then = "items"   -> [at |-> "items", then |-> "reply"]
      [] then = "end"     -> Idle

AfterScoring(then) ==
    IF then = "silent" THEN Idle ELSE [at |-> "notify", then |-> then]

(* A handler that completed the session goes on without having scored it.  *)
LeaveUnscored(r) == unscored' = (unscored \/ (req[r].then # "silent" /\ ~scored))

Close(at, then) == [at |-> "close", completedAt |-> at, then |-> then]

-----------------------------------------------------------------------------
(* Item delivery and start.                                                *)

(* Mutant: the item selection is left to the first load.                   *)
StartWithoutItems(r) ==
    /\ At(r, "idle")
    /\ status = "NOT_STARTED" /\ Goto(r, [at |-> "begin"])
    /\ UNCHANGED <<rowVars, itemVars, scoreVars, mailVars, envVars, pastVars, faults>>

(* POST sessions/:id/start up to its first write: an in-progress session   *)
(* is only answered, a closed one is refused (no state change).            *)
startSessionForActor(r) ==
    /\ At(r, "idle")
    /\ \/ status = "IN_PROGRESS" /\ Goto(r, [at |-> "payload"])
       \/ status = "NOT_STARTED" /\ Goto(r, [at |-> "items", then |-> "start"])
    /\ UNCHANGED <<rowVars, itemVars, scoreVars, mailVars, envVars, pastVars, faults>>

(* ensureSessionItemsSelected reads the session's items.                   *)
FindSessionItems(r) ==
    /\ At(r, "items")
    /\ Goto(r, IF Delivered # {}
               THEN AfterItems(req[r].then, Delivered)
               ELSE [at |-> "select", then |-> req[r].then])
    /\ UNCHANGED <<rowVars, itemVars, scoreVars, mailVars, envVars, pastVars, faults>>

(* Mutant: the position is not part of the unique key.                     *)
FitsBesideAny(selection, i) == selection[i] # 0 /\ itemStatus[i] = "NONE"

(* The unique keys of a session's items are the item and the position.     *)
Fits(selection, i) ==
    /\ selection[i] # 0 /\ itemStatus[i] = "NONE"
    /\ \A j \in Items : position[j] # selection[i]

(* ... and, having found none, reads the form, selects and inserts.  What  *)
(* another load has inserted meanwhile stays: skipDuplicates drops each    *)
(* row whose item or position is taken, and inserts the others.            *)
SelectSessionItems(r, selection) ==
    /\ At(r, "select")
    /\ LET inserted == {i \in Items : Fits(selection, i)} IN
       /\ itemStatus' = [i \in Items |-> IF i \in inserted THEN "SELECTED" ELSE itemStatus[i]]
       /\ position' = [i \in Items |-> IF i \in inserted THEN selection[i] ELSE position[i]]
       /\ firstLoad' = IF Delivered = {} THEN inserted ELSE firstLoad
       /\ startedEmpty' = (startedEmpty /\ inserted = {})
       /\ Goto(r, AfterItems(req[r].then, Delivered \cup inserted))
    /\ UNCHANGED <<answers, lateWrite, unscored, rowVars, scoreVars, mailVars, envVars, faults>>

(* A start without any item takes the form's first section, or is refused  *)
(* when the form has none by now.                                          *)
FindFirstSection(r, found) ==
    /\ At(r, "section")
    /\ startedEmpty' = (startedEmpty \/ (found /\ Delivered = {}))
    /\ Goto(r, IF found THEN [at |-> "begin"] ELSE Idle)
    /\ UNCHANGED <<unscored, rowVars, itemVars, scoreVars, mailVars, envVars, faults>>

(* The update of startSessionForActor: `where: { id }`, whatever the row's *)
(* status has become since it was read.                                    *)
BeginSection(r) ==
    /\ At(r, "begin")
    /\ status' = "IN_PROGRESS"
    /\ sectionEndsAt' = now + SectionLimit
    /\ Goto(r, [at |-> "payload"])
    /\ UNCHANGED <<completedAt, itemVars, scoreVars, mailVars, envVars, pastVars, faults>>

(* getCandidateAssessmentSessionPayload: close the session when its timer  *)
(* has run out, then make sure it has items, then answer.                  *)
getCandidateAssessmentSessionPayload(r) ==
    /\ At(r, "payload")
    /\ Goto(r, IF isTimedOutSession THEN Close(sectionEndsAt, "items")
               ELSE [at |-> "items", then |-> "reply"])
    /\ UNCHANGED <<rowVars, itemVars, scoreVars, mailVars, envVars, pastVars, faults>>

(* POST sessions/:id/resume, which the client also polls.                  *)
resumeSessionForActor(r) ==
    /\ At(r, "idle")
    /\ \/ isTimedOutSession /\ Goto(r, Close(sectionEndsAt, "payload"))
       \/ /\ ~isTimedOutSession
          /\ status \in {"NOT_STARTED", "IN_PROGRESS", "COMPLETED"}
          /\ Goto(r, [at |-> "payload"])
    /\ UNCHANGED <<rowVars, itemVars, scoreVars, mailVars, envVars, pastVars, faults>>

-----------------------------------------------------------------------------
(* Responses.                                                              *)

(* PUT of one response: the session is read and found open ...             *)
saveItemResponse(r, i, a) ==
    /\ At(r, "idle")
    /\ assertSessionOpenForResponseWrite
    /\ Goto(r, [at |-> "saveItem", item |-> i, answer |-> a])
    /\ UNCHANGED <<rowVars, itemVars, scoreVars, mailVars, envVars, pastVars, faults>>

(* Mutant: an item that was not delivered is saved as well.                *)
FindAnyItem(r) ==
    /\ At(r, "saveItem")
    /\ Goto(r, [req[r] EXCEPT !.at = "save"])
    /\ UNCHANGED <<rowVars, itemVars, scoreVars, mailVars, envVars, pastVars, faults>>

(* ... the item is found among the session's items, or the save is refused *)
FindSessionItem(r) ==
    /\ At(r, "saveItem")
    /\ Goto(r, IF req[r].item \in Delivered
               THEN [req[r] EXCEPT !.at = "save"] ELSE Idle)
    /\ UNCHANGED <<rowVars, itemVars, scoreVars, mailVars, envVars, pastVars, faults>>

(* ... and one transaction upserts the response and marks the item.        *)
CommitResponse(r) ==
    /\ At(r, "save")
    /\ answers' = [answers EXCEPT ![req[r].item] = req[r].answer]
    /\ itemStatus' = [itemStatus EXCEPT ![req[r].item] = "ANSWERED"]
    /\ lateWrite' = (lateWrite \/ completedAt # Never)
    /\ Goto(r, Idle)
    /\ UNCHANGED <<position, firstLoad, rowVars, scoreVars, mailVars, envVars, pastVars, faults>>

(* Finalising the response set: the session is read and found open ...     *)
finaliseResponseSet(r) ==
    /\ At(r, "idle")
    /\ assertSessionOpenForResponseWrite
    /\ Goto(r, [at |-> "submit", completedAt |-> now])
    /\ UNCHANGED <<rowVars, itemVars, scoreVars, mailVars, envVars, pastVars, faults>>

(* Mutant: every item is omitted, the answered ones too.                   *)
OmitAllItems(r) ==
    /\ At(r, "submit")
    /\ itemStatus' = [i \in Items |->
            IF itemStatus[i] = "NONE" THEN "NONE" ELSE "OMITTED"]
    /\ status' = "COMPLETED"
    /\ completedAt' = req[r].completedAt
    /\ unscored' = ~scored
    /\ Goto(r, Idle)
    /\ UNCHANGED <<startedEmpty, sectionEndsAt, position, answers, lateWrite, firstLoad,
                   scoreVars, mailVars, envVars, faults>>

(* ... and one transaction omits the untouched items and completes the     *)
(* session.  Nothing is scored and nobody is notified on this path.        *)
finaliseResponseSetInternal(r) ==
    /\ At(r, "submit")
    /\ itemStatus' = [i \in Items |->
            IF itemStatus[i] = "SELECTED" THEN "OMITTED" ELSE itemStatus[i]]
    /\ status' = "COMPLETED"
    /\ completedAt' = req[r].completedAt
    /\ unscored' = ~scored
    /\ Goto(r, Idle)
    /\ UNCHANGED <<startedEmpty, sectionEndsAt, position, answers, lateWrite, firstLoad,
                   scoreVars, mailVars, envVars, faults>>

-----------------------------------------------------------------------------
(* Completion.                                                             *)

(* Mutant: a completed session is closed and announced again.              *)
FinaliseAgain(r) ==
    /\ At(r, "idle")
    /\ status # "ABANDONED"
    /\ Goto(r, Close(IF isTimedOutSession THEN sectionEndsAt ELSE now, "end"))
    /\ UNCHANGED <<rowVars, itemVars, scoreVars, mailVars, envVars, pastVars, faults>>

(* POST sessions/:id/finalise: a completed session is only scored if it is *)
(* not yet; any other (but an abandoned one) is closed, at the deadline    *)
(* when the timer has run out.                                             *)
finaliseSessionForActor(r) ==
    /\ At(r, "idle")
    /\ \/ /\ status = "COMPLETED"
          /\ Goto(r, [at |-> "scoreCheck", then |-> "silent"])
       \/ /\ status \notin {"COMPLETED", "ABANDONED"}
          /\ Goto(r, Close(IF isTimedOutSession THEN sectionEndsAt ELSE now, "end"))
    /\ UNCHANGED <<rowVars, itemVars, scoreVars, mailVars, envVars, pastVars, faults>>

(* The update that finaliseSessionForActor and completeTimedOutSession     *)
(* make, and the audit record after it.                                    *)
CompleteSession(r) ==
    /\ At(r, "close")
    /\ status' = "COMPLETED"
    /\ completedAt' = req[r].completedAt
    /\ Goto(r, [at |-> "scoreCheck", then |-> req[r].then])
    /\ UNCHANGED <<sectionEndsAt, itemVars, scoreVars, mailVars, envVars, pastVars, faults>>

-----------------------------------------------------------------------------
(* Psychometric scoring.                                                   *)

(* scoreCompletedSessionBestEffort: an existing score is left alone.       *)
scoreCompletedSessionBestEffort(r) ==
    /\ At(r, "scoreCheck")
    /\ Goto(r, IF scored THEN AfterScoring(req[r].then)
               ELSE [at |-> "scoreBuild", then |-> req[r].then])
    /\ UNCHANGED <<rowVars, itemVars, scoreVars, mailVars, envVars, pastVars, faults>>

(* POST psychometrics/sessions/:id/score: an operator (re-)scores.         *)
scoreSession(r) ==
    /\ At(r, "idle")
    /\ Goto(r, [at |-> "scoreBuild", then |-> "silent"])
    /\ UNCHANGED <<rowVars, itemVars, scoreVars, mailVars, envVars, pastVars, faults>>

(* What the scoring service is asked: the responses to the items whose     *)
(* mapping is ACTIVE; it is asked nothing without such items.              *)
Build(r, mapped) ==
    /\ At(r, "scoreBuild") /\ completedAt # Never /\ mapped # {}
    /\ Goto(r, [at |-> "scoreCall", basis |-> Part(answers, mapped), then |-> req[r].then])
    /\ UNCHANGED <<rowVars, itemVars, scoreVars, mailVars, envVars, pastVars, faults>>

RefuseBuild(r) ==
    /\ At(r, "scoreBuild")
    /\ Goto(r, AfterScoring(req[r].then))
    /\ UNCHANGED <<startedEmpty, rowVars, itemVars, scoreVars, mailVars, envVars, faults>>

(* Mutant: a session is scored before its completion.                      *)
BuildForOpenSession(r, mapped) ==
    /\ At(r, "scoreBuild") /\ mapped # {}
    /\ Goto(r, [at |-> "scoreCall", basis |-> Part(answers, mapped), then |-> req[r].then])
    /\ UNCHANGED <<rowVars, itemVars, scoreVars, mailVars, envVars, pastVars, faults>>

(* Mutant: the status is looked at, and a reopened session is refused.     *)
BuildForClosedSession(r, mapped) ==
    \/ status \in Closed /\ Build(r, mapped)
    \/ status \notin Closed /\ RefuseBuild(r) /\ UNCHANGED unscored
    \/ mapped = {} /\ RefuseBuild(r) /\ LeaveUnscored(r)

(* The request builder reads the session, its responses and the form's     *)
(* mappings; it looks at completedAt, not at the status.                   *)
buildForSession(r, mapped) ==
    \/ Build(r, mapped)
    \/ completedAt = Never /\ RefuseBuild(r) /\ UNCHANGED unscored
    \/ completedAt # Never /\ mapped = {} /\ RefuseBuild(r) /\ LeaveUnscored(r)

(* The scoring service answers and the result replaces any older one.      *)
upsertSessionScore(r) ==
    /\ At(r, "scoreCall")
    /\ scored' = TRUE
    /\ scoredAnswers' = req[r].basis
    /\ unscored' = FALSE
    /\ Goto(r, AfterScoring(req[r].then))
    /\ UNCHANGED <<startedEmpty, rowVars, itemVars, mailVars, envVars, faults>>

(* The service is unreachable, answers with an error, or the write fails:  *)
(* the best-effort wrapper audits the failure and goes on.                 *)
ScoringFails(r) ==
    /\ At(r, "scoreCall")
    /\ faults < MaxFaults
    /\ faults' = faults + 1
    /\ LeaveUnscored(r)
    /\ Goto(r, AfterScoring(req[r].then))
    /\ UNCHANGED <<startedEmpty, rowVars, itemVars, scoreVars, mailVars, envVars>>

-----------------------------------------------------------------------------
(* The candidate's notification.                                           *)

(* Mutant: the result mail does not wait for a score.                      *)
NotifyUnscored(r) ==
    /\ At(r, "notify")
    /\ Goto(r,
         IF visibility = "NO_CAMPAIGN" \/ status # "COMPLETED"
           THEN AfterNotification(req[r].then)
         ELSE IF visibility = "COMPLETION_ONLY"
           THEN [req[r] EXCEPT !.at = "hiddenMail"]
         ELSE [req[r] EXCEPT !.at = "revoke"])
    /\ UNCHANGED <<rowVars, itemVars, scoreVars, mailVars, envVars, pastVars, faults>>

(* sendCandidateResultNotification re-reads the session with its campaign  *)
(* and score, and decides which mail to send, if any.                      *)
sendCandidateResultNotification(r) ==
    /\ At(r, "notify")
    /\ Goto(r,
         IF visibility = "NO_CAMPAIGN" \/ status # "COMPLETED"
           THEN AfterNotification(req[r].then)
         ELSE IF visibility = "COMPLETION_ONLY"
           THEN [req[r] EXCEPT !.at = "hiddenMail"]
         ELSE IF scored THEN [req[r] EXCEPT !.at = "revoke"]
         ELSE AfterNotification(req[r].then))
    /\ UNCHANGED <<rowVars, itemVars, scoreVars, mailVars, envVars, pastVars, faults>>

(* The active CANDIDATE_RESULT_ACCESS tokens are revoked ...               *)
revokeActiveTokens(r) ==
    /\ At(r, "revoke")
    /\ resultLink' = FALSE
    /\ Goto(r, [req[r] EXCEPT !.at = "token"])
    /\ UNCHANGED <<resultMails, hiddenMails, rowVars, itemVars, scoreVars, envVars, pastVars,
                   faults>>

(* ... before the new one is created.                                      *)
createResultToken(r) ==
    /\ At(r, "token")
    /\ resultLink' = TRUE
    /\ Goto(r, [req[r] EXCEPT !.at = "resultMail"])
    /\ UNCHANGED <<resultMails, hiddenMails, rowVars, itemVars, scoreVars, envVars, pastVars, faults>>

sendCandidateResultAvailableEmail(r) ==
    /\ At(r, "resultMail")
    /\ resultMails' = Many(resultMails)
    /\ Goto(r, AfterNotification(req[r].then))
    /\ UNCHANGED <<resultLink, hiddenMails, rowVars, itemVars, scoreVars, envVars, pastVars, faults>>

sendCandidateResultHiddenEmail(r) ==
    /\ At(r, "hiddenMail")
    /\ hiddenMails' = Many(hiddenMails)
    /\ Goto(r, AfterNotification(req[r].then))
    /\ UNCHANGED <<resultLink, resultMails, rowVars, itemVars, scoreVars, envVars, pastVars, faults>>

(* The token or the mail fails: the best-effort wrapper swallows it.       *)
NotificationFails(r) ==
    /\ req[r].at \in {"revoke", "token", "resultMail", "hiddenMail"}
    /\ faults < MaxFaults
    /\ faults' = faults + 1
    /\ Goto(r, AfterNotification(req[r].then))
    /\ UNCHANGED <<rowVars, itemVars, scoreVars, mailVars, envVars, pastVars>>

-----------------------------------------------------------------------------
(* Environment.                                                            *)

(* The process or its database connection dies: the request never goes on. *)
Crash(r) ==
    /\ ~At(r, "idle")
    /\ faults < MaxFaults
    /\ faults' = faults + 1
    /\ IF req[r].at \in {"scoreCheck", "scoreBuild", "scoreCall"}
       THEN LeaveUnscored(r) ELSE UNCHANGED unscored
    /\ Goto(r, Idle)
    /\ UNCHANGED <<startedEmpty, rowVars, itemVars, scoreVars, mailVars, envVars>>

(* The employer changes what candidates of the campaign may see.           *)
updateCandidateResultVisibility(v) ==
    /\ visibility # "NO_CAMPAIGN"
    /\ visibility' = v
    /\ UNCHANGED <<rowVars, itemVars, scoreVars, mailVars, now, pastVars, faults, req>>

Tick ==
    /\ now < MaxTime
    /\ now' = now + 1
    /\ UNCHANGED <<rowVars, itemVars, scoreVars, mailVars, visibility, pastVars, faults, req>>

(* A request arrives at a free slot.                                       *)
Arrive(r) ==
    \/ startSessionForActor(r)
    \/ resumeSessionForActor(r)
    \/ \E i \in Items, a \in Answers : saveItemResponse(r, i, a)
    \/ finaliseResponseSet(r)
    \/ finaliseSessionForActor(r)
    \/ scoreSession(r)

(* A request's next step, which the event loop runs sooner or later.       *)
Continue(r) ==
    \/ FindSessionItems(r)
    \/ \E selection \in Selections : SelectSessionItems(r, selection)
    \/ \E found \in BOOLEAN : FindFirstSection(r, found)
    \/ BeginSection(r)
    \/ getCandidateAssessmentSessionPayload(r)
    \/ FindSessionItem(r)
    \/ CommitResponse(r)
    \/ finaliseResponseSetInternal(r)
    \/ CompleteSession(r)
    \/ scoreCompletedSessionBestEffort(r)
    \/ \E mapped \in Mappings : buildForSession(r, mapped)
    \/ upsertSessionScore(r)
    \/ sendCandidateResultNotification(r)
    \/ revokeActiveTokens(r)
    \/ createResultToken(r)
    \/ sendCandidateResultAvailableEmail(r)
    \/ sendCandidateResultHiddenEmail(r)

Fail(r) == ScoringFails(r) \/ NotificationFails(r) \/ Crash(r)

Next ==
    \/ \E r \in Requests : Arrive(r) \/ Continue(r) \/ Fail(r)
    \/ \E v \in {"SUMMARY_ONLY", "COMPLETION_ONLY"} : updateCandidateResultVisibility(v)
    \/ Tick

Spec == Init /\ [][Next]_vars

(* The API keeps serving: a request that is not killed takes its next step *)
(* (the event loop runs every resolved await), the candidate's open page   *)
(* polls resume, and time passes.  Faults are finitely many (MaxFaults).   *)
(* Nobody is relied upon to score a session again.                         *)
Fairness ==
    /\ \A r \in Requests : WF_vars(Continue(r))
    /\ SF_vars(\E r \in Requests : resumeSessionForActor(r))
    /\ WF_vars(Tick)
FairSpec == Spec /\ Fairness

-----------------------------------------------------------------------------
(* What holds however requests overlap, crash and repeat.                  *)

(* An item is ANSWERED exactly when its response row exists: the autosave  *)
(* and the submission of the response set never tear the two apart, and a  *)
(* response exists only for an item that was delivered.                    *)
AnsweredItemsHaveResponses ==
    \A i \in Items : itemStatus[i] = "ANSWERED" <=> answers[i] # NoAnswer

(* A running session has its timer, and has its items unless a start found *)
(* nothing to deliver and took the form's first section instead: no load   *)
(* or start that overlaps another one, and no crash of either, leaves a    *)
(* candidate with a running clock and an undelivered form.                 *)
RunningSessionsAreDelivered ==
    status = "IN_PROGRESS" =>
        sectionEndsAt # Never /\ (Delivered # {} \/ startedEmpty)

(* No completion is stamped with a time that has not come, whichever of    *)
(* the three completion paths wins (submittedAt and the scoring request's  *)
(* duration are computed from it).                                         *)
CompletionIsNotInTheFuture == completedAt <= now

(* A score exists only for a session that was completed, also through the  *)
(* operator's endpoint, which never looks at the status.                   *)
ScoredSessionsWereCompleted == scored => completedAt # Never

(* Unless an answer slipped in after the closure, the stored score was     *)
(* computed from the answers the session ended with (to the items that     *)
(* were mapped when it was scored), whichever of several concurrent,       *)
(* failed or repeated scorings wrote it.                                   *)
UndisturbedScoreIsFinal ==
    scored /\ ~lateWrite => scoredAnswers = Part(answers, DOMAIN scoredAnswers)

(* Nobody is sent to a result that does not exist: a result link or mail   *)
(* is issued only for a scored session, and the completion-only mail only  *)
(* for a completed one.                                                    *)
NotificationsAreTrue ==
    /\ resultLink \/ resultMails > 0 => scored
    /\ hiddenMails > 0 => completedAt # Never

(* The form that the first load delivers stays at the head of the session: *)
(* no later or overlapping load drops or moves an item, or puts another    *)
(* one before or between the first load's.  (It may append: a load that    *)
(* found nothing yet but selects more, because the form has changed since  *)
(* the first one read it, inserts the rows whose positions are free.)      *)
DeliveryIsFixed ==
    [][Delivered # {} =>
          /\ \A i \in Delivered : itemStatus'[i] # "NONE" /\ position'[i] = position[i]
          /\ \A i \in Delivered' \ Delivered, j \in firstLoad : position'[i] > position[j]]_vars

(* Once an answer is stored the item stays answered: neither submission    *)
(* nor anything else turns it into an omission.                            *)
AnswersAreKept ==
    [][\A i \in Items : answers[i] # NoAnswer =>
            answers'[i] # NoAnswer /\ itemStatus'[i] = "ANSWERED"]_vars

-----------------------------------------------------------------------------
(* Why the invariants hold: what a request in the middle of a handler may  *)
(* still rely on, whatever the others have done since it read the session. *)

IsSound(q) ==
    /\ q.at \in {"close", "submit"} => q.completedAt \in 0 .. now
    /\ q.at = "begin" => Delivered # {} \/ startedEmpty
    /\ q.at = "save" => q.item \in Delivered
    /\ q.at = "scoreCall" =>
          completedAt # Never /\ (~lateWrite => q.basis = Part(answers, DOMAIN q.basis))
    /\ q.at \in {"revoke", "token", "resultMail"} => scored
    /\ q.at = "hiddenMail" => completedAt # Never

(* The rows of the first load are still there, at positions without gaps,  *)
(* and no two rows share a position.                                       *)
RowsAreSound ==
    /\ \A i \in Items : itemStatus[i] = "NONE" <=> position[i] = 0
    /\ \A i, j \in Items : position[i] = position[j] /\ position[i] # 0 => i = j
    /\ \A i \in firstLoad :
          /\ i \in Delivered
          /\ \A n \in 1 .. position[i] : \E j \in firstLoad : position[j] = n

SessionIsSound ==
    /\ RowsAreSound
    /\ AnsweredItemsHaveResponses
    /\ RunningSessionsAreDelivered
    /\ status = "COMPLETED" => completedAt # Never
    /\ CompletionIsNotInTheFuture
    /\ ScoredSessionsWereCompleted
    /\ UndisturbedScoreIsFinal
    /\ NotificationsAreTrue

IndInv == TypeOK /\ SessionIsSound /\ \A r \in Requests : IsSound(req[r])

-----------------------------------------------------------------------------
(* What the documents promise of a closed session.  It holds as long as    *)
(* requests do not overlap (Requests is a singleton).                      *)

(* The lifecycle as an implementation of SessionContract.                  *)
Contract == INSTANCE SessionContract WITH
    phase <- status, told <- resultMails + hiddenMails > 0
ImplementsContract == Contract!Spec

(* docs/api/phase-6-api-contract.md: "closed sessions cannot be changed".  *)
ClosedAnswersAreFrozen == [][(status \in Closed) => answers' = answers]_vars

(* startSessionForActor: 'Only not-started sessions can be started'.       *)
ClosedSessionsStayClosed ==
    [][(status \in Closed) => status' = status /\ completedAt' = completedAt]_vars

(* docs/phase-7-candidate-flow-qa.md: "Duplicate submission attempt is     *)
(* prevented": a candidate hears of the outcome at most once.              *)
OneNotificationPerSession == resultMails + hiddenMails <= 1

-----------------------------------------------------------------------------
(* What eventually happens under FairSpec.                                 *)

(* A session is not left running past its deadline as long as its page     *)
(* polls: it is closed, or an overlapping start has reset its timer.       *)
PastDeadline ==
    status = "IN_PROGRESS" /\ sectionEndsAt # Never /\ sectionEndsAt <= now
NoSessionRunsPastItsDeadline == PastDeadline ~> ~PastDeadline

(* Every completion by a route of the session (finalise, or the timer at   *)
(* start and resume) is followed by the session's score, also when a late  *)
(* start reopens it meanwhile, unless that scoring failed, died or found   *)
(* no actively mapped item.  The route of the response set is no such      *)
(* route: what it completes nobody scores.                                 *)
CompletedSessionsGetScored == completedAt # Never ~> scored \/ unscored
=============================================================================
