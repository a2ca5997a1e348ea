----------------------- MODULE SessionLifecycleProofs -----------------------
(* Proofs about SessionLifecycle, for every number of overlapping requests, *)
(* every form, every set of answers and every bound.                        *)
EXTENDS SessionLifecycle, TLAPS

-----------------------------------------------------------------------------
(* Type correctness.                                                       *)

LEMMA AfterTypes ==
    /\ \A then \in {"start", "reply"} : \A delivered : AfterItems(then, delivered) \in Request
    /\ \A then \in Thens : AfterNotification(then) \in Request
    /\ \A then \in Thens \cup {"silent"} : AfterScoring(then) \in Request
    /\ \A t \in Times, then \in Thens : Close(t, then) \in Request
    /\ Idle \in Request
BY DEF AfterItems, AfterNotification, AfterScoring, Close, Thens, Request, Idle

LEMMA GotoType ==
    ASSUME TypeOK, NEW r \in Requests, NEW next \in Request, Goto(r, next)
    PROVE  req' \in [Requests -> Request]
BY DEF Goto, TypeOK

(* A step that only moves a request keeps the types when the request does, *)
(* whatever it notes of the past.                                          *)
LEMMA PastType ==
    ASSUME TypeOK, req' \in [Requests -> Request],
           UNCHANGED <<rowVars, itemVars, scoreVars, mailVars, envVars, faults>>,
           startedEmpty' \in BOOLEAN, unscored' \in BOOLEAN
    PROVE  TypeOK'
BY DEF TypeOK, rowVars, itemVars, scoreVars, mailVars, envVars

LEMMA QuietType ==
    ASSUME TypeOK, req' \in [Requests -> Request],
           UNCHANGED <<rowVars, itemVars, scoreVars, mailVars, envVars, pastVars, faults>>
    PROVE  TypeOK'
BY PastType DEF TypeOK, pastVars

(* What the score of some items is computed from.                          *)
LEMMA PartType ==
    ASSUME TypeOK, NEW items \in SUBSET Items
    PROVE  Part(answers, items) \in ScoredSheet /\ DOMAIN Part(answers, items) = items
<1>1. Part(answers, items) \in [items -> Answers \cup {NoAnswer}]
  BY DEF Part, TypeOK, AnswerSheet
<1> QED BY <1>1 DEF ScoredSheet, Part

LEMMA TimeTypes == TypeOK => now \in Times /\ now + SectionLimit \in Times
BY BoundsAssumption DEF TypeOK, Times

LEMMA InitType == Init => TypeOK
<1> SUFFICES ASSUME Init PROVE TypeOK
  OBVIOUS
<1>1. req \in [Requests -> Request]
  BY AfterTypes DEF Init
<1>2. answers \in AnswerSheet /\ scoredAnswers \in ScoredSheet
  <2>1. answers \in AnswerSheet
    BY DEF Init, AnswerSheet, Blank
  <2>2. scoredAnswers \in [{} -> Answers \cup {NoAnswer}]
    BY DEF Init, Part
  <2> QED BY <2>1, <2>2 DEF ScoredSheet
<1>3. /\ status \in SessionStatus /\ sectionEndsAt \in Times /\ completedAt \in Times
      /\ itemStatus \in [Items -> SessionItemStatus] /\ position \in [Items -> Nat]
      /\ firstLoad \subseteq Items
  BY DEF Init, SessionStatus, Times, Never, SessionItemStatus
<1>4. now \in 0 .. MaxTime /\ faults \in 0 .. MaxFaults
  BY BoundsAssumption DEF Init
<1>5. /\ scored \in BOOLEAN /\ resultLink \in BOOLEAN /\ lateWrite \in BOOLEAN
      /\ startedEmpty \in BOOLEAN /\ unscored \in BOOLEAN
      /\ visibility \in Visibilities
  BY Zenon DEF Init
<1>6. resultMails \in 0 .. 2 /\ hiddenMails \in 0 .. 2
  BY DEF Init
<1> QED
  BY <1>1, <1>2, <1>3, <1>4, <1>5, <1>6, Zenon DEF TypeOK

LEMMA ArriveType ==
    ASSUME TypeOK, NEW r \in Requests, Arrive(r)
    PROVE  TypeOK'
<1>1. CASE startSessionForActor(r)
  <2>1. [at |-> "payload"] \in Request /\ [at |-> "items", then |-> "start"] \in Request
    BY DEF Request
  <2> QED BY <1>1, <2>1, GotoType, QuietType DEF startSessionForActor
<1>2. CASE resumeSessionForActor(r)
  <2>1. [at |-> "payload"] \in Request /\ Close(sectionEndsAt, "payload") \in Request
    BY AfterTypes DEF Request, TypeOK, Thens
  <2> QED BY <1>2, <2>1, GotoType, QuietType DEF resumeSessionForActor
<1>3. ASSUME NEW i \in Items, NEW a \in Answers, saveItemResponse(r, i, a)
      PROVE  TypeOK'
  <2>1. [at |-> "saveItem", item |-> i, answer |-> a] \in Request
    BY DEF Request
  <2> QED BY <1>3, <2>1, GotoType, QuietType DEF saveItemResponse
<1>4. CASE finaliseResponseSet(r)
  <2>1. [at |-> "submit", completedAt |-> now] \in Request
    BY TimeTypes DEF Request
  <2> QED BY <1>4, <2>1, GotoType, QuietType DEF finaliseResponseSet
<1>5. CASE finaliseSessionForActor(r)
  <2>1. [at |-> "scoreCheck", then |-> "silent"] \in Request
    BY DEF Request
  <2>2. Close(IF isTimedOutSession THEN sectionEndsAt ELSE now, "end") \in Request
    BY TimeTypes, AfterTypes DEF TypeOK, Thens
  <2> QED BY <1>5, <2>1, <2>2, GotoType, QuietType DEF finaliseSessionForActor
<1>6. CASE scoreSession(r)
  <2>1. [at |-> "scoreBuild", then |-> "silent"] \in Request
    BY DEF Request
  <2> QED BY <1>6, <2>1, GotoType, QuietType DEF scoreSession
<1> QED BY <1>1, <1>2, <1>3, <1>4, <1>5, <1>6 DEF Arrive

LEMMA ContinueType ==
    ASSUME TypeOK, NEW r \in Requests, Continue(r)
    PROVE  TypeOK'
<1> USE DEF At
<1>1. CASE FindSessionItems(r)
  <2>1. req[r].then \in {"start", "reply"}
    BY <1>1 DEF FindSessionItems, TypeOK, Request
  <2>2. [at |-> "select", then |-> req[r].then] \in Request
    BY <2>1 DEF Request
  <2> QED BY <1>1, <2>1, <2>2, AfterTypes, GotoType, QuietType DEF FindSessionItems
<1>2. ASSUME NEW selection \in Selections, SelectSessionItems(r, selection)
      PROVE  TypeOK'
  <2>1. req[r].then \in {"start", "reply"}
    BY <1>2 DEF SelectSessionItems, TypeOK, Request
  <2>2. req' \in [Requests -> Request]
    BY <1>2, <2>1, AfterTypes, GotoType DEF SelectSessionItems
  <2>3. itemStatus' \in [Items -> SessionItemStatus]
    BY <1>2 DEF SelectSessionItems, TypeOK, SessionItemStatus
  <2>4. position' \in [Items -> Nat]
    <3>1. selection \in [Items -> Nat]
      BY SelectionsAssumption
    <3> QED BY <1>2, <3>1 DEF SelectSessionItems, TypeOK
  <2>5. firstLoad' \subseteq Items
    BY <1>2 DEF SelectSessionItems, TypeOK
  <2>6. startedEmpty' \in BOOLEAN
    BY <1>2, Zenon DEF SelectSessionItems
  <2> QED BY <1>2, <2>2, <2>3, <2>4, <2>5, <2>6
    DEF SelectSessionItems, TypeOK, rowVars, scoreVars, mailVars, envVars
<1>3. CASE BeginSection(r)
  <2>1. req' \in [Requests -> Request]
    BY <1>3, GotoType DEF BeginSection, Request
  <2>2. sectionEndsAt' \in Times /\ status' \in SessionStatus
    BY <1>3, TimeTypes DEF BeginSection, SessionStatus
  <2> QED BY <1>3, <2>1, <2>2
    DEF BeginSection, TypeOK, itemVars, scoreVars, mailVars, envVars, pastVars
<1>4. CASE getCandidateAssessmentSessionPayload(r)
  <2>1. /\ Close(sectionEndsAt, "items") \in Request
        /\ [at |-> "items", then |-> "reply"] \in Request
    BY AfterTypes DEF Request, TypeOK, Thens
  <2> QED BY <1>4, <2>1, GotoType, QuietType DEF getCandidateAssessmentSessionPayload
<1>5. CASE FindSessionItem(r)
  <2>1. [req[r] EXCEPT !.at = "save"] \in Request
    BY <1>5 DEF FindSessionItem, TypeOK, Request
  <2> QED BY <1>5, <2>1, AfterTypes, GotoType, QuietType DEF FindSessionItem
<1>6. CASE CommitResponse(r)
  <2>1. req[r].item \in Items /\ req[r].answer \in Answers
    BY <1>6 DEF CommitResponse, TypeOK, Request
  <2>2. req' \in [Requests -> Request]
    BY <1>6, AfterTypes, GotoType DEF CommitResponse
  <2>3. /\ answers' \in AnswerSheet
        /\ itemStatus' \in [Items -> SessionItemStatus]
        /\ lateWrite' \in BOOLEAN
    BY <1>6, <2>1 DEF CommitResponse, TypeOK, AnswerSheet, SessionItemStatus
  <2> QED BY <1>6, <2>2, <2>3
    DEF CommitResponse, TypeOK, rowVars, scoreVars, mailVars, envVars, pastVars
<1>7. CASE finaliseResponseSetInternal(r)
  <2>1. req[r].completedAt \in Times
    BY <1>7 DEF finaliseResponseSetInternal, TypeOK, Request
  <2>2. req' \in [Requests -> Request]
    BY <1>7, AfterTypes, GotoType DEF finaliseResponseSetInternal
  <2>3. itemStatus' \in [Items -> SessionItemStatus] /\ status' \in SessionStatus
    BY <1>7 DEF finaliseResponseSetInternal, TypeOK, SessionItemStatus, SessionStatus
  <2>4. unscored' \in BOOLEAN
    BY <1>7, Zenon DEF finaliseResponseSetInternal
  <2> QED BY <1>7, <2>1, <2>2, <2>3, <2>4
    DEF finaliseResponseSetInternal, TypeOK, scoreVars, mailVars, envVars
<1>8. CASE CompleteSession(r)
  <2>1. req[r].completedAt \in Times /\ req[r].then \in Thens
    BY <1>8 DEF CompleteSession, TypeOK, Request
  <2>2. [at |-> "scoreCheck", then |-> req[r].then] \in Request
    BY <2>1 DEF Request
  <2>3. req' \in [Requests -> Request]
    BY <1>8, <2>2, GotoType DEF CompleteSession
  <2> QED BY <1>8, <2>1, <2>3
    DEF CompleteSession, TypeOK, SessionStatus, itemVars, scoreVars, mailVars, envVars,
        pastVars
<1>9. CASE scoreCompletedSessionBestEffort(r)
  <2>1. req[r].then \in Thens \cup {"silent"}
    BY <1>9 DEF scoreCompletedSessionBestEffort, TypeOK, Request
  <2>2. [at |-> "scoreBuild", then |-> req[r].then] \in Request
    BY <2>1 DEF Request
  <2> QED BY <1>9, <2>1, <2>2, AfterTypes, GotoType, QuietType
    DEF scoreCompletedSessionBestEffort
<1>10. ASSUME NEW mapped \in Mappings, buildForSession(r, mapped)
       PROVE  TypeOK'
  <2>1. req[r].then \in Thens \cup {"silent"}
    BY <1>10 DEF buildForSession, Build, RefuseBuild, TypeOK, Request
  <2>2. CASE Build(r, mapped)
    <3>1. Part(answers, mapped) \in ScoredSheet
      BY PartType, MappingsAssumption
    <3>2. [at |-> "scoreCall", basis |-> Part(answers, mapped), then |-> req[r].then] \in Request
      BY <2>1, <3>1 DEF Request
    <3> QED BY <2>2, <3>2, GotoType, QuietType DEF Build
  <2>3. CASE RefuseBuild(r) /\ (UNCHANGED unscored \/ LeaveUnscored(r))
    <3>1. req' \in [Requests -> Request]
      BY <2>1, <2>3, AfterTypes, GotoType DEF RefuseBuild
    <3>2. unscored' \in BOOLEAN /\ startedEmpty' \in BOOLEAN
      BY <2>3, Zenon DEF RefuseBuild, LeaveUnscored, TypeOK
    <3> QED BY <2>3, <3>1, <3>2, PastType DEF RefuseBuild
  <2> QED BY <1>10, <2>2, <2>3 DEF buildForSession
<1>11. CASE upsertSessionScore(r)
  <2>1. req[r].then \in Thens \cup {"silent"} /\ req[r].basis \in ScoredSheet
    BY <1>11 DEF upsertSessionScore, TypeOK, Request
  <2>2. req' \in [Requests -> Request]
    BY <1>11, <2>1, AfterTypes, GotoType DEF upsertSessionScore
  <2> QED BY <1>11, <2>1, <2>2
    DEF upsertSessionScore, TypeOK, rowVars, itemVars, mailVars, envVars
<1>12. CASE sendCandidateResultNotification(r)
  <2>1. /\ req[r].then \in Thens
        /\ [req[r] EXCEPT !.at = "hiddenMail"] \in Request
        /\ [req[r] EXCEPT !.at = "revoke"] \in Request
    BY <1>12 DEF sendCandidateResultNotification, TypeOK, Request
  <2> QED BY <1>12, <2>1, AfterTypes, GotoType, QuietType
    DEF sendCandidateResultNotification
<1>13. CASE createResultToken(r)
  <2>1. [req[r] EXCEPT !.at = "resultMail"] \in Request
    BY <1>13 DEF createResultToken, TypeOK, Request
  <2>2. req' \in [Requests -> Request]
    BY <1>13, <2>1, GotoType DEF createResultToken
  <2> QED BY <1>13, <2>2
    DEF createResultToken, TypeOK, rowVars, itemVars, scoreVars, envVars, pastVars
<1>14. CASE sendCandidateResultAvailableEmail(r)
  <2>1. req[r].then \in Thens
    BY <1>14 DEF sendCandidateResultAvailableEmail, TypeOK, Request
  <2>2. req' \in [Requests -> Request]
    BY <1>14, <2>1, AfterTypes, GotoType DEF sendCandidateResultAvailableEmail
  <2> QED BY <1>14, <2>2
    DEF sendCandidateResultAvailableEmail, Many, TypeOK, rowVars, itemVars, scoreVars, envVars,
        pastVars
<1>15. CASE sendCandidateResultHiddenEmail(r)
  <2>1. req[r].then \in Thens
    BY <1>15 DEF sendCandidateResultHiddenEmail, TypeOK, Request
  <2>2. req' \in [Requests -> Request]
    BY <1>15, <2>1, AfterTypes, GotoType DEF sendCandidateResultHiddenEmail
  <2> QED BY <1>15, <2>2
    DEF sendCandidateResultHiddenEmail, Many, TypeOK, rowVars, itemVars, scoreVars, envVars,
        pastVars
<1>16. CASE revokeActiveTokens(r)
  <2>1. [req[r] EXCEPT !.at = "token"] \in Request
    BY <1>16 DEF revokeActiveTokens, TypeOK, Request
  <2>2. req' \in [Requests -> Request]
    BY <1>16, <2>1, GotoType DEF revokeActiveTokens
  <2> QED BY <1>16, <2>2
    DEF revokeActiveTokens, TypeOK, rowVars, itemVars, scoreVars, envVars, pastVars
<1>17. ASSUME NEW found \in BOOLEAN, FindFirstSection(r, found)
       PROVE  TypeOK'
  <2>1. req' \in [Requests -> Request]
    <3>1. [at |-> "begin"] \in Request
      BY DEF Request
    <3> QED BY <1>17, <3>1, AfterTypes, GotoType DEF FindFirstSection
  <2>2. startedEmpty' \in BOOLEAN /\ unscored' \in BOOLEAN
    BY <1>17, Zenon DEF FindFirstSection, TypeOK
  <2> QED BY <1>17, <2>1, <2>2, PastType DEF FindFirstSection
<1> QED BY <1>1, <1>2, <1>3, <1>4, <1>5, <1>6, <1>7, <1>8, <1>9, <1>10, <1>11,
           <1>12, <1>13, <1>14, <1>15, <1>16, <1>17 DEF Continue

LEMMA FailType ==
    ASSUME TypeOK, NEW r \in Requests, Fail(r)
    PROVE  TypeOK'
<1>1. faults' \in 0 .. MaxFaults
  BY BoundsAssumption DEF Fail, ScoringFails, NotificationFails, Crash, TypeOK
<1>2. unscored' \in BOOLEAN /\ startedEmpty' \in BOOLEAN
  BY Zenon DEF Fail, ScoringFails, NotificationFails, Crash, LeaveUnscored, TypeOK, pastVars
<1>3. req' \in [Requests -> Request]
  <2>1. CASE ScoringFails(r)
    <3>1. req[r].then \in Thens \cup {"silent"}
      BY <2>1 DEF ScoringFails, At, TypeOK, Request
    <3> QED BY <2>1, <3>1, AfterTypes, GotoType DEF ScoringFails
  <2>2. CASE NotificationFails(r)
    <3>1. req[r].then \in Thens
      BY <2>2 DEF NotificationFails, TypeOK, Request
    <3> QED BY <2>2, <3>1, AfterTypes, GotoType DEF NotificationFails
  <2>3. CASE Crash(r)
    BY <2>3, AfterTypes, GotoType DEF Crash
  <2> QED BY <2>1, <2>2, <2>3 DEF Fail
<1>4. UNCHANGED <<rowVars, itemVars, scoreVars, mailVars, envVars>>
  BY DEF Fail, ScoringFails, NotificationFails, Crash
<1> QED BY <1>1, <1>2, <1>3, <1>4
  DEF TypeOK, rowVars, itemVars, scoreVars, mailVars, envVars

LEMMA NextType == TypeOK /\ [Next]_vars => TypeOK'
<1> SUFFICES ASSUME TypeOK, [Next]_vars PROVE TypeOK'
  OBVIOUS
<1>1. ASSUME NEW r \in Requests, Arrive(r) \/ Continue(r) \/ Fail(r)
      PROVE  TypeOK'
  BY <1>1, ArriveType, ContinueType, FailType
<1>2. ASSUME NEW v \in {"SUMMARY_ONLY", "COMPLETION_ONLY"},
             updateCandidateResultVisibility(v)
      PROVE  TypeOK'
  BY <1>2 DEF updateCandidateResultVisibility, Visibilities, TypeOK,
     rowVars, itemVars, scoreVars, mailVars, pastVars
<1>3. CASE Tick
  BY <1>3, BoundsAssumption DEF Tick, TypeOK, rowVars, itemVars, scoreVars, mailVars, pastVars
<1>4. CASE UNCHANGED vars
  BY <1>4 DEF vars, TypeOK, rowVars, itemVars, scoreVars, mailVars, envVars, pastVars
<1> QED BY <1>1, <1>2, <1>3, <1>4 DEF Next

(* Every reachable state is well typed: in particular no handler goes on   *)
(* from an await without the local values its next step uses.              *)
THEOREM TypeCorrect == Spec => []TypeOK
BY InitType, NextType, PTL DEF Spec

-----------------------------------------------------------------------------
(* The inductive invariant.  A step of one request must not pull the rug   *)
(* from under another one that is waiting at an await: Progress is what    *)
(* every step guarantees the others.                                       *)

Progress ==
    /\ now <= now'
    /\ Delivered \subseteq Delivered'
    /\ Delivered # {} \/ startedEmpty => Delivered' # {} \/ startedEmpty'
    /\ completedAt # Never => completedAt' # Never
    /\ scored => scored'
    /\ completedAt # Never /\ ~lateWrite' => ~lateWrite /\ answers' = answers

LEMMA OthersStaySound ==
    ASSUME TypeOK, TypeOK', Progress, NEW q \in Request, IsSound(q)
    PROVE  IsSound(q)'
BY DEF TypeOK, Progress, IsSound, Part

(* A step of r that goes on to `next` keeps the invariant.                 *)
LEMMA StepSound ==
    ASSUME IndInv, TypeOK', Progress, SessionIsSound',
           NEW r \in Requests, NEW next, Goto(r, next), IsSound(next)'
    PROVE  IndInv'
<1> SUFFICES ASSUME NEW q \in Requests PROVE IsSound(req[q])'
  BY DEF IndInv
<1>1. CASE q = r
  BY <1>1 DEF Goto, IndInv, TypeOK, IsSound
<1>2. CASE q # r
  <2>1. req'[q] = req[q] /\ req[q] \in Request /\ IsSound(req[q])
    BY <1>2 DEF Goto, IndInv, TypeOK
  <2> QED BY <2>1, OthersStaySound DEF IndInv, IsSound
<1> QED BY <1>1, <1>2

(* A step of r that writes nothing but its own locals, and perhaps notes   *)
(* that a start found nothing or that a completion was not scored.         *)
LEMMA PastSound ==
    ASSUME IndInv, TypeOK', startedEmpty => startedEmpty',
           UNCHANGED <<rowVars, itemVars, scoreVars, mailVars, envVars>>,
           NEW r \in Requests, NEW next, Goto(r, next), IsSound(next)'
    PROVE  IndInv'
<1> USE DEF rowVars, itemVars, scoreVars, mailVars, envVars
<1>1. Progress
  BY DEF Progress, Delivered, IndInv, TypeOK
<1>2. SessionIsSound'
  BY DEF IndInv, SessionIsSound, RowsAreSound, AnsweredItemsHaveResponses,
     RunningSessionsAreDelivered, CompletionIsNotInTheFuture,
     ScoredSessionsWereCompleted, UndisturbedScoreIsFinal, NotificationsAreTrue,
     Delivered, Part
<1> QED BY <1>1, <1>2, StepSound

LEMMA QuietSound ==
    ASSUME IndInv, TypeOK',
           UNCHANGED <<rowVars, itemVars, scoreVars, mailVars, envVars, pastVars>>,
           NEW r \in Requests, NEW next, Goto(r, next), IsSound(next)
    PROVE  IndInv'
<1>1. IsSound(next)'
  BY DEF IsSound, Delivered, Part, rowVars, itemVars, scoreVars, mailVars, envVars, pastVars
<1>2. UNCHANGED startedEmpty
  BY DEF pastVars
<1> QED BY <1>1, <1>2, PastSound

LEMMA InitSound == Init => IndInv
<1> SUFFICES ASSUME Init PROVE IndInv
  OBVIOUS
<1>1. TypeOK
  BY InitType
<1>2. SessionIsSound
  BY <1>1 DEF Init, Blank, Never, TypeOK, SessionIsSound, RowsAreSound,
     AnsweredItemsHaveResponses,
     RunningSessionsAreDelivered, CompletionIsNotInTheFuture,
     ScoredSessionsWereCompleted, UndisturbedScoreIsFinal, NotificationsAreTrue
<1>3. \A r \in Requests : IsSound(req[r])
  BY DEF Init, Idle, IsSound
<1> QED BY <1>1, <1>2, <1>3 DEF IndInv

(* A timer that has run out is a time that has come.                       *)
LEMMA ClosingTimes ==
    TypeOK => /\ now \in 0 .. now
              /\ isTimedOutSession => sectionEndsAt \in 0 .. now
BY BoundsAssumption DEF TypeOK, Times, Never, isTimedOutSession

LEMMA ArriveSound ==
    ASSUME IndInv, TypeOK', NEW r \in Requests, Arrive(r)
    PROVE  IndInv'
<1>1. CASE startSessionForActor(r)
  <2>1. /\ IsSound([at |-> "payload"])
        /\ IsSound([at |-> "items", then |-> "start"])
    BY DEF IsSound
  <2> QED BY <1>1, <2>1, QuietSound DEF startSessionForActor
<1>2. CASE resumeSessionForActor(r)
  <2>1. /\ IsSound([at |-> "payload"])
        /\ isTimedOutSession => IsSound(Close(sectionEndsAt, "payload"))
    BY ClosingTimes DEF IndInv, IsSound, Close
  <2> QED BY <1>2, <2>1, QuietSound DEF resumeSessionForActor
<1>3. ASSUME NEW i \in Items, NEW a \in Answers, saveItemResponse(r, i, a)
      PROVE  IndInv'
  <2>1. IsSound([at |-> "saveItem", item |-> i, answer |-> a])
    BY DEF IsSound
  <2> QED BY <1>3, <2>1, QuietSound DEF saveItemResponse
<1>4. CASE finaliseResponseSet(r)
  <2>1. IsSound([at |-> "submit", completedAt |-> now])
    BY ClosingTimes DEF IndInv, IsSound
  <2> QED BY <1>4, <2>1, QuietSound DEF finaliseResponseSet
<1>5. CASE finaliseSessionForActor(r)
  <2>1. IsSound([at |-> "scoreCheck", then |-> "silent"])
    BY DEF IsSound
  <2>2. IsSound(Close(IF isTimedOutSession THEN sectionEndsAt ELSE now, "end"))
    BY ClosingTimes DEF IndInv, IsSound, Close
  <2> QED BY <1>5, <2>1, <2>2, QuietSound DEF finaliseSessionForActor
<1>6. CASE scoreSession(r)
  <2>1. IsSound([at |-> "scoreBuild", then |-> "silent"])
    BY DEF IsSound
  <2> QED BY <1>6, <2>1, QuietSound DEF scoreSession
<1> QED BY <1>1, <1>2, <1>3, <1>4, <1>5, <1>6 DEF Arrive

LEMMA AfterSound ==
    /\ \A then \in {"start", "reply"} : IsSound(AfterItems(then, Delivered))
    /\ \A then \in Thens : IsSound(AfterNotification(then))
    /\ \A then \in Thens \cup {"silent"} : IsSound(AfterScoring(then))
    /\ IsSound(Idle)
BY DEF AfterItems, AfterNotification, AfterScoring, Thens, IsSound, Idle

(* The same after a step, wherever it takes the session.                   *)
LEMMA AfterSoundNext ==
    /\ \A then \in Thens \cup {"silent"} : IsSound(AfterScoring(then))'
    /\ IsSound(Idle)'
BY DEF AfterScoring, Thens, IsSound, Idle

(* The places a handler goes to without writing the session.               *)
LEMMA ContinueQuietSound ==
    ASSUME IndInv, TypeOK', NEW r \in Requests,
           \/ FindSessionItems(r) \/ getCandidateAssessmentSessionPayload(r)
           \/ FindSessionItem(r) \/ scoreCompletedSessionBestEffort(r)
           \/ \E mapped \in Mappings : buildForSession(r, mapped)
           \/ \E found \in BOOLEAN : FindFirstSection(r, found)
           \/ sendCandidateResultNotification(r)
    PROVE  IndInv'
<1> USE DEF At
<1>1. CASE FindSessionItems(r)
  <2>1. req[r].then \in {"start", "reply"}
    BY <1>1 DEF FindSessionItems, IndInv, TypeOK, Request
  <2>2. IsSound([at |-> "select", then |-> req[r].then])
    BY DEF IsSound
  <2> QED BY <1>1, <2>1, <2>2, AfterSound, QuietSound DEF FindSessionItems
<1>2. CASE getCandidateAssessmentSessionPayload(r)
  <2>1. /\ IsSound([at |-> "items", then |-> "reply"])
        /\ isTimedOutSession => IsSound(Close(sectionEndsAt, "items"))
    BY ClosingTimes DEF IndInv, IsSound, Close
  <2> QED BY <1>2, <2>1, QuietSound DEF getCandidateAssessmentSessionPayload
<1>3. CASE FindSessionItem(r)
  <2>1. req[r].item \in Delivered => IsSound([req[r] EXCEPT !.at = "save"])
    BY <1>3 DEF FindSessionItem, IndInv, TypeOK, Request, IsSound
  <2> QED BY <1>3, <2>1, AfterSound, QuietSound DEF FindSessionItem
<1>4. CASE scoreCompletedSessionBestEffort(r)
  <2>1. req[r].then \in Thens \cup {"silent"}
    BY <1>4 DEF scoreCompletedSessionBestEffort, IndInv, TypeOK, Request
  <2>2. IsSound([at |-> "scoreBuild", then |-> req[r].then])
    BY DEF IsSound
  <2> QED BY <1>4, <2>1, <2>2, AfterSound, QuietSound
    DEF scoreCompletedSessionBestEffort
<1>5. ASSUME NEW mapped \in Mappings, buildForSession(r, mapped)
      PROVE  IndInv'
  <2>1. req[r].then \in Thens \cup {"silent"}
    BY <1>5 DEF buildForSession, Build, RefuseBuild, IndInv, TypeOK, Request
  <2>2. CASE Build(r, mapped)
    <3>1. DOMAIN Part(answers, mapped) = mapped
      BY DEF Part
    <3>2. IsSound([at |-> "scoreCall", basis |-> Part(answers, mapped), then |-> req[r].then])
      BY <2>2, <3>1 DEF Build, IsSound
    <3> QED BY <2>2, <3>2, QuietSound DEF Build
  <2>3. CASE RefuseBuild(r)
    BY <2>1, <2>3, AfterSoundNext, PastSound DEF RefuseBuild
  <2> QED BY <1>5, <2>2, <2>3 DEF buildForSession
<1>6. CASE sendCandidateResultNotification(r)
  <2>1. req[r].then \in Thens
    BY <1>6 DEF sendCandidateResultNotification, IndInv, TypeOK, Request
  <2>2. /\ status = "COMPLETED" => IsSound([req[r] EXCEPT !.at = "hiddenMail"])
        /\ scored => IsSound([req[r] EXCEPT !.at = "revoke"])
    BY <1>6 DEF sendCandidateResultNotification, IndInv, SessionIsSound, TypeOK,
       Request, IsSound
  <2> QED BY <1>6, <2>1, <2>2, AfterSound, QuietSound
    DEF sendCandidateResultNotification
<1>7. ASSUME NEW found \in BOOLEAN, FindFirstSection(r, found)
      PROVE  IndInv'
  <2>1. CASE ~found
    BY <1>7, <2>1, AfterSoundNext, PastSound DEF FindFirstSection
  <2>2. CASE found
    <3>1. startedEmpty => startedEmpty'
      BY <1>7 DEF FindFirstSection, IndInv, TypeOK
    <3>2. Delivered' # {} \/ startedEmpty'
      BY <1>7, <2>2 DEF FindFirstSection, Delivered, itemVars
    <3>3. IsSound([at |-> "begin"])'
      BY <3>2 DEF IsSound
    <3> QED BY <1>7, <2>2, <3>1, <3>3, PastSound DEF FindFirstSection
  <2> QED BY <2>1, <2>2
<1> QED BY <1>1, <1>2, <1>3, <1>4, <1>5, <1>6, <1>7

LEMMA FailSound ==
    ASSUME IndInv, TypeOK', NEW r \in Requests, Fail(r)
    PROVE  IndInv'
<1>1. CASE ScoringFails(r)
  <2>1. req[r].then \in Thens \cup {"silent"}
    BY <1>1 DEF ScoringFails, At, IndInv, TypeOK, Request
  <2> QED BY <1>1, <2>1, AfterSoundNext, PastSound DEF ScoringFails
<1>2. CASE NotificationFails(r)
  <2>1. req[r].then \in Thens
    BY <1>2 DEF NotificationFails, IndInv, TypeOK, Request
  <2> QED BY <1>2, <2>1, AfterSound, QuietSound DEF NotificationFails
<1>3. CASE Crash(r)
  BY <1>3, AfterSoundNext, PastSound DEF Crash
<1> QED BY <1>1, <1>2, <1>3 DEF Fail

(* What an insert does to the rows, stated once for the proofs about it:   *)
(* what was there stays, and what is added takes free positions.           *)
Inserted(selection) == {i \in Items : Fits(selection, i)}

LEMMA InsertedRows ==
    ASSUME TypeOK, NEW r \in Requests, NEW selection \in Selections,
           SelectSessionItems(r, selection)
    PROVE  /\ Delivered' = Delivered \cup Inserted(selection)
           /\ \A i \in Inserted(selection) :
                 /\ i \notin Delivered
                 /\ itemStatus'[i] = "SELECTED"
                 /\ position'[i] = selection[i] /\ selection[i] \in Nat \ {0}
                 /\ \A j \in Items : position[j] # selection[i]
           /\ \A i \in Items \ Inserted(selection) :
                 itemStatus'[i] = itemStatus[i] /\ position'[i] = position[i]
           /\ firstLoad' = IF Delivered = {} THEN Inserted(selection) ELSE firstLoad
           /\ startedEmpty' = (startedEmpty /\ Inserted(selection) = {})
           /\ Goto(r, AfterItems(req[r].then, Delivered \cup Inserted(selection)))
<1>1. selection \in [Items -> Nat]
  BY SelectionsAssumption
<1>2. /\ itemStatus' = [i \in Items |->
              IF i \in Inserted(selection) THEN "SELECTED" ELSE itemStatus[i]]
      /\ position' = [i \in Items |->
              IF i \in Inserted(selection) THEN selection[i] ELSE position[i]]
      /\ firstLoad' = IF Delivered = {} THEN Inserted(selection) ELSE firstLoad
      /\ startedEmpty' = (startedEmpty /\ Inserted(selection) = {})
      /\ Goto(r, AfterItems(req[r].then, Delivered \cup Inserted(selection)))
  BY Zenon DEF SelectSessionItems, Inserted
<1>3. \A i \in Inserted(selection) :
         /\ i \in Items /\ itemStatus[i] = "NONE" /\ selection[i] # 0
         /\ \A j \in Items : position[j] # selection[i]
  BY DEF Inserted, Fits
<1>4. Delivered' = Delivered \cup Inserted(selection)
  BY <1>2, <1>3 DEF Delivered
<1>5. ASSUME NEW i \in Inserted(selection)
      PROVE  /\ i \notin Delivered
             /\ itemStatus'[i] = "SELECTED"
             /\ position'[i] = selection[i] /\ selection[i] \in Nat \ {0}
             /\ \A j \in Items : position[j] # selection[i]
  BY <1>1, <1>2, <1>3 DEF Delivered
<1>6. \A i \in Items \ Inserted(selection) :
         itemStatus'[i] = itemStatus[i] /\ position'[i] = position[i]
  BY <1>2
<1> QED BY <1>2, <1>4, <1>5, <1>6

(* The insert of a selection keeps the rows in order: the first one fills  *)
(* the positions from 1, the others take what is free.                     *)
LEMMA InsertSound ==
    ASSUME TypeOK, RowsAreSound, NEW r \in Requests, NEW selection \in Selections,
           SelectSessionItems(r, selection)
    PROVE  RowsAreSound'
<1>0. /\ \A i \in Inserted(selection) :
            /\ itemStatus'[i] = "SELECTED"
            /\ position'[i] = selection[i] /\ selection[i] \in Nat \ {0}
            /\ \A j \in Items : position[j] # selection[i]
      /\ \A i \in Items \ Inserted(selection) :
            itemStatus'[i] = itemStatus[i] /\ position'[i] = position[i]
      /\ firstLoad' = IF Delivered = {} THEN Inserted(selection) ELSE firstLoad
      /\ Delivered' = Delivered \cup Inserted(selection)
      /\ \A i \in Inserted(selection) : i \notin Delivered
  BY InsertedRows
<1>1. /\ selection \in [Items -> Nat]
      /\ \A i, j \in Items : selection[i] = selection[j] /\ selection[i] # 0 => i = j
      /\ \A i \in Items : \A n \in 1 .. selection[i] : \E j \in Items : selection[j] = n
  BY SelectionsAssumption
<1>2. Inserted(selection) \subseteq Items /\ firstLoad \subseteq Items
  BY DEF Inserted, TypeOK
<1>3. /\ \A i \in Items : itemStatus[i] = "NONE" <=> position[i] = 0
      /\ \A i, j \in Items : position[i] = position[j] /\ position[i] # 0 => i = j
  BY DEF RowsAreSound
<1>4. \A i \in Items : itemStatus'[i] = "NONE" <=> position'[i] = 0
  BY <1>0, <1>2, <1>3
<1>5. ASSUME NEW i \in Items, NEW j \in Items, position'[i] = position'[j], position'[i] # 0
      PROVE  i = j
  <2>1. CASE i \in Inserted(selection) /\ j \in Inserted(selection)
    <3>1. position'[i] = selection[i] /\ position'[j] = selection[j]
      BY <1>0, <2>1
    <3>2. selection[i] = selection[j] /\ selection[i] # 0
      BY <1>5, <3>1
    <3> QED BY <1>1, <3>2
  <2>2. CASE i \in Inserted(selection) <=> j \notin Inserted(selection)
    BY <1>0, <1>5, <2>2
  <2>3. CASE i \notin Inserted(selection) /\ j \notin Inserted(selection)
    <3>1. position'[i] = position[i] /\ position'[j] = position[j]
      BY <1>0, <2>3
    <3>2. position[i] = position[j] /\ position[i] # 0
      BY <1>5, <3>1
    <3> QED BY <1>3, <3>2
  <2> QED BY <2>1, <2>2, <2>3
<1>6. ASSUME NEW i \in firstLoad'
      PROVE  /\ i \in Delivered'
             /\ \A n \in 1 .. position'[i] : \E j \in firstLoad' : position'[j] = n
  <2>1. CASE Delivered = {}
    <3>1. \A j \in Items : itemStatus[j] = "NONE" /\ position[j] = 0
      BY <1>3, <2>1 DEF Delivered
    <3>2. \A j \in Items : selection[j] # 0 => j \in Inserted(selection)
      BY <1>1, <3>1 DEF Inserted, Fits
    <3>3. firstLoad' = Inserted(selection)
      BY <1>0, <2>1
    <3>4. i \in Inserted(selection) /\ i \in Items /\ position'[i] = selection[i]
      BY <1>0, <1>2, <1>6, <3>3
    <3>5. ASSUME NEW n \in 1 .. position'[i]
          PROVE  \E j \in firstLoad' : position'[j] = n
      <4>1. PICK j \in Items : selection[j] = n
        BY <1>1, <3>4, <3>5
      <4>2. j \in Inserted(selection)
        BY <1>1, <3>2, <3>4, <4>1
      <4> QED BY <1>0, <3>3, <4>1, <4>2
    <3> QED BY <1>0, <3>3, <3>4, <3>5
  <2>2. CASE Delivered # {}
    <3>1. firstLoad' = firstLoad
      BY <1>0, <2>2
    <3>2. \A j \in firstLoad : j \in Delivered /\ position'[j] = position[j]
      BY <1>0, <1>2 DEF RowsAreSound
    <3>3. \A n \in 1 .. position[i] : \E j \in firstLoad : position[j] = n
      BY <1>6, <3>1 DEF RowsAreSound
    <3> QED BY <1>0, <1>6, <3>1, <3>2, <3>3
  <2> QED BY <2>1, <2>2
<1> QED BY <1>4, <1>5, <1>6 DEF RowsAreSound

LEMMA SelectSound ==
    ASSUME IndInv, TypeOK', NEW r \in Requests, NEW selection \in Selections,
           SelectSessionItems(r, selection)
    PROVE  IndInv'
<1> PICK next : next = AfterItems(req[r].then, Delivered \cup Inserted(selection))
  OBVIOUS
<1>1. TypeOK /\ RowsAreSound /\ AnsweredItemsHaveResponses /\ RunningSessionsAreDelivered
  BY DEF IndInv, SessionIsSound
<1>2. req[r].then \in {"start", "reply"}
  BY <1>1 DEF SelectSessionItems, At, TypeOK, Request
<1>3. /\ Delivered \subseteq Delivered'
      /\ Delivered # {} \/ startedEmpty => Delivered' # {} \/ startedEmpty'
  BY <1>1, InsertedRows DEF TypeOK
<1>4. UNCHANGED <<status, sectionEndsAt, completedAt, answers, lateWrite, scored,
                  scoredAnswers, resultLink, resultMails, hiddenMails, now>>
  BY DEF SelectSessionItems, rowVars, scoreVars, mailVars, envVars
<1>5. Progress
  BY <1>1, <1>3, <1>4 DEF Progress, TypeOK
<1>6. AnsweredItemsHaveResponses'
  <2>1. \A i \in Items : itemStatus'[i] = "ANSWERED" <=> itemStatus[i] = "ANSWERED"
    BY <1>1, InsertedRows DEF Delivered
  <2> QED BY <1>1, <1>4, <2>1 DEF AnsweredItemsHaveResponses
<1>7. RowsAreSound'
  BY <1>1, InsertSound
<1>8. SessionIsSound'
  BY <1>3, <1>4, <1>6, <1>7 DEF IndInv, SessionIsSound, RunningSessionsAreDelivered,
     CompletionIsNotInTheFuture, ScoredSessionsWereCompleted,
     UndisturbedScoreIsFinal, NotificationsAreTrue, Part
<1>9. IsSound(next)'
  BY <1>1, <1>2, InsertedRows DEF IsSound, AfterItems, Idle
<1>10. Goto(r, next)
  BY <1>1, InsertedRows
<1> QED BY <1>5, <1>8, <1>9, <1>10, StepSound

(* A start has found the items delivered, or nothing to deliver, and sets  *)
(* the timer it starts.                                                    *)
LEMMA BeginSound ==
    ASSUME IndInv, TypeOK', NEW r \in Requests, BeginSection(r)
    PROVE  IndInv'
<1>1. UNCHANGED <<completedAt, itemStatus, position, firstLoad, answers, lateWrite, scored,
                  scoredAnswers, resultLink, resultMails, hiddenMails, now, startedEmpty>>
  BY DEF BeginSection, itemVars, scoreVars, mailVars, envVars, pastVars
<1>2. Progress
  BY <1>1 DEF Progress, Delivered, IndInv, TypeOK
<1>3. RunningSessionsAreDelivered'
  <2>1. Delivered # {} \/ startedEmpty
    BY DEF BeginSection, At, IndInv, IsSound
  <2>2. sectionEndsAt' # Never
    BY BoundsAssumption DEF BeginSection, Never, IndInv, TypeOK
  <2> QED BY <1>1, <2>1, <2>2 DEF RunningSessionsAreDelivered, Delivered
<1>4. SessionIsSound'
  BY <1>1, <1>3 DEF BeginSection, IndInv, SessionIsSound, RowsAreSound, Delivered,
     AnsweredItemsHaveResponses, CompletionIsNotInTheFuture,
     ScoredSessionsWereCompleted, UndisturbedScoreIsFinal, NotificationsAreTrue, Part
<1>5. IsSound([at |-> "payload"])'
  BY DEF IsSound
<1> QED BY <1>2, <1>4, <1>5, StepSound DEF BeginSection

(* A committed answer marks its item; once the session was completed it is *)
(* a late write, and the score no longer counts as undisturbed.            *)
LEMMA CommitSound ==
    ASSUME IndInv, TypeOK', NEW r \in Requests, CommitResponse(r)
    PROVE  IndInv'
<1>1. /\ req[r].item \in Items /\ req[r].answer \in Answers
      /\ req[r].item \in Delivered
  BY DEF CommitResponse, At, IndInv, TypeOK, Request, IsSound
<1>2. UNCHANGED <<status, sectionEndsAt, completedAt, position, firstLoad, scored,
                  scoredAnswers, resultLink, resultMails, hiddenMails, now, startedEmpty>>
  BY DEF CommitResponse, rowVars, scoreVars, mailVars, envVars, pastVars
<1>3. /\ Delivered' = Delivered
      /\ \A i \in Items : itemStatus'[i] = "NONE" <=> itemStatus[i] = "NONE"
  BY <1>1 DEF CommitResponse, Delivered, IndInv, TypeOK
<1>4. completedAt # Never => lateWrite'
  BY Zenon DEF CommitResponse
<1>5. Progress
  BY <1>2, <1>3, <1>4 DEF Progress, IndInv, TypeOK
<1>6. AnsweredItemsHaveResponses'
  BY <1>1, AnswersAssumption DEF CommitResponse, IndInv, TypeOK, AnswerSheet,
     SessionIsSound, AnsweredItemsHaveResponses
<1>7. UndisturbedScoreIsFinal'
  BY <1>2, <1>4 DEF IndInv, SessionIsSound, UndisturbedScoreIsFinal,
     ScoredSessionsWereCompleted
<1>8. SessionIsSound'
  BY <1>2, <1>3, <1>6, <1>7 DEF IndInv, SessionIsSound, RowsAreSound,
     RunningSessionsAreDelivered, CompletionIsNotInTheFuture,
     ScoredSessionsWereCompleted, NotificationsAreTrue
<1>9. IsSound(Idle)'
  BY DEF IsSound, Idle
<1> QED BY <1>5, <1>8, <1>9, StepSound DEF CommitResponse

(* Both completions stamp the session with a time that has come; the       *)
(* response set's omits only items without an answer.                      *)
LEMMA CompletionSound ==
    ASSUME IndInv, TypeOK', NEW r \in Requests,
           finaliseResponseSetInternal(r) \/ CompleteSession(r)
    PROVE  IndInv'
<1> PICK next : next = IF finaliseResponseSetInternal(r) THEN Idle
                       ELSE [at |-> "scoreCheck", then |-> req[r].then]
  OBVIOUS
<1>1. /\ status' = "COMPLETED"
      /\ completedAt' = req[r].completedAt /\ completedAt' \in 0 .. now
  BY DEF finaliseResponseSetInternal, CompleteSession, At, IndInv, IsSound
<1>2. UNCHANGED <<position, firstLoad, answers, lateWrite, scored, scoredAnswers,
                  resultLink, resultMails, hiddenMails, now, startedEmpty>>
  BY DEF finaliseResponseSetInternal, CompleteSession, itemVars, scoreVars,
     mailVars, envVars, pastVars
<1>3. /\ Delivered' = Delivered
      /\ \A i \in Items : /\ itemStatus'[i] = "ANSWERED" <=> itemStatus[i] = "ANSWERED"
                          /\ itemStatus'[i] = "NONE" <=> itemStatus[i] = "NONE"
  BY DEF finaliseResponseSetInternal, CompleteSession, itemVars, Delivered
<1>4. completedAt' # Never
  BY <1>1 DEF Never
<1>5. Progress
  BY <1>2, <1>3, <1>4 DEF Progress, IndInv, TypeOK
<1>6. CompletionIsNotInTheFuture'
  BY <1>1, <1>2 DEF CompletionIsNotInTheFuture
<1>7. SessionIsSound'
  BY <1>1, <1>2, <1>3, <1>4, <1>6 DEF IndInv, SessionIsSound, RowsAreSound,
     AnsweredItemsHaveResponses, RunningSessionsAreDelivered,
     ScoredSessionsWereCompleted, UndisturbedScoreIsFinal, NotificationsAreTrue, Part
<1>8. IsSound(next)' /\ Goto(r, next)
  BY DEF IsSound, Idle, finaliseResponseSetInternal, CompleteSession
<1> QED BY <1>5, <1>7, <1>8, StepSound

(* A score is computed from the answers of a completed session, and stays  *)
(* true of them until an answer is written late.                           *)
LEMMA UpsertSound ==
    ASSUME IndInv, TypeOK', NEW r \in Requests, upsertSessionScore(r)
    PROVE  IndInv'
<1> PICK next : next = AfterScoring(req[r].then)
  OBVIOUS
<1>1. UNCHANGED <<status, sectionEndsAt, completedAt, itemStatus, position, firstLoad, answers,
                  lateWrite, resultLink, resultMails, hiddenMails, now, startedEmpty>>
  BY DEF upsertSessionScore, rowVars, itemVars, mailVars, envVars
<1>2. /\ completedAt # Never
      /\ ~lateWrite => req[r].basis = Part(answers, DOMAIN req[r].basis)
      /\ req[r].then \in Thens \cup {"silent"}
  BY DEF upsertSessionScore, At, IndInv, IsSound, TypeOK, Request
<1>3. Progress
  BY <1>1 DEF Progress, Delivered, upsertSessionScore, IndInv, TypeOK
<1>4. SessionIsSound'
  BY <1>1, <1>2 DEF upsertSessionScore, IndInv, SessionIsSound, RowsAreSound, Delivered,
     AnsweredItemsHaveResponses, RunningSessionsAreDelivered,
     CompletionIsNotInTheFuture, ScoredSessionsWereCompleted,
     UndisturbedScoreIsFinal, NotificationsAreTrue, Part
<1>5. IsSound(next)'
  BY <1>2 DEF IsSound, AfterScoring, Idle, Thens
<1> QED BY <1>3, <1>4, <1>5, StepSound DEF upsertSessionScore

(* The steps that issue a link or send a mail were let through by the      *)
(* score, or by the completion, that the request had seen; neither goes    *)
(* away.                                                                   *)
LEMMA MailSound ==
    ASSUME IndInv, TypeOK', NEW r \in Requests,
           \/ revokeActiveTokens(r)
           \/ createResultToken(r)
           \/ sendCandidateResultAvailableEmail(r)
           \/ sendCandidateResultHiddenEmail(r)
    PROVE  IndInv'
<1> PICK next : next = IF revokeActiveTokens(r) THEN [req[r] EXCEPT !.at = "token"]
                       ELSE IF createResultToken(r) THEN [req[r] EXCEPT !.at = "resultMail"]
                       ELSE AfterNotification(req[r].then)
  OBVIOUS
<1> USE DEF revokeActiveTokens, createResultToken, sendCandidateResultAvailableEmail,
            sendCandidateResultHiddenEmail
<1>1. UNCHANGED <<status, sectionEndsAt, completedAt, itemStatus, position, firstLoad, answers,
                  lateWrite, scored, scoredAnswers, now, startedEmpty>>
  BY DEF rowVars, itemVars, scoreVars, envVars, pastVars
<1>2. Progress
  BY <1>1 DEF Progress, Delivered, IndInv, TypeOK
<1>3. NotificationsAreTrue'
  BY <1>1 DEF At, IndInv, IsSound, SessionIsSound, NotificationsAreTrue
<1>4. SessionIsSound'
  BY <1>1, <1>3 DEF IndInv, SessionIsSound, RowsAreSound, Delivered,
     AnsweredItemsHaveResponses, RunningSessionsAreDelivered,
     CompletionIsNotInTheFuture, ScoredSessionsWereCompleted,
     UndisturbedScoreIsFinal, Part
<1>5. IsSound(next)'
  <2>1. CASE revokeActiveTokens(r) \/ createResultToken(r)
    BY <1>1, <2>1 DEF At, IndInv, TypeOK, Request, IsSound
  <2>2. CASE ~revokeActiveTokens(r) /\ ~createResultToken(r)
    <3>1. req[r].then \in Thens
      BY <2>2 DEF At, IndInv, TypeOK, Request
    <3> QED BY <2>2, <3>1 DEF AfterNotification, Thens, Idle, IsSound
  <2> QED BY <2>1, <2>2
<1>6. Goto(r, next)
  BY DEF At
<1> QED BY <1>2, <1>4, <1>5, <1>6, StepSound

LEMMA ContinueSound ==
    ASSUME IndInv, TypeOK', NEW r \in Requests, Continue(r)
    PROVE  IndInv'
BY ContinueQuietSound, SelectSound, BeginSound, CommitSound, CompletionSound,
   UpsertSound, MailSound DEF Continue

(* The clock and the employer move no request.                             *)
LEMMA EnvironmentSound ==
    ASSUME IndInv, TypeOK',
           UNCHANGED <<rowVars, itemVars, scoreVars, mailVars, pastVars, req>>, now <= now'
    PROVE  IndInv'
<1> USE DEF rowVars, itemVars, scoreVars, mailVars, pastVars
<1>1. Progress
  BY DEF Progress, Delivered, IndInv, TypeOK
<1>2. CompletionIsNotInTheFuture'
  BY DEF IndInv, SessionIsSound, CompletionIsNotInTheFuture, TypeOK, Times, Never
<1>3. SessionIsSound'
  BY <1>2 DEF IndInv, SessionIsSound, RowsAreSound, Delivered, AnsweredItemsHaveResponses,
     RunningSessionsAreDelivered, ScoredSessionsWereCompleted,
     UndisturbedScoreIsFinal, NotificationsAreTrue, Part
<1>4. ASSUME NEW r \in Requests PROVE IsSound(req[r])'
  <2> PICK q : q = req[r]
    OBVIOUS
  <2>1. q \in Request /\ IsSound(q)
    BY DEF IndInv, TypeOK
  <2>2. IsSound(q)'
    BY <1>1, <2>1, OthersStaySound DEF IndInv
  <2> QED BY <2>2 DEF IsSound
<1> QED BY <1>3, <1>4 DEF IndInv

LEMMA NextSound == IndInv /\ [Next]_vars => IndInv'
<1> SUFFICES ASSUME IndInv, [Next]_vars PROVE IndInv'
  OBVIOUS
<1>1. TypeOK'
  BY NextType DEF IndInv
<1>2. ASSUME NEW r \in Requests, Arrive(r) \/ Continue(r) \/ Fail(r)
      PROVE  IndInv'
  BY <1>1, <1>2, ArriveSound, ContinueSound, FailSound
<1>3. ASSUME NEW v \in {"SUMMARY_ONLY", "COMPLETION_ONLY"},
             updateCandidateResultVisibility(v)
      PROVE  IndInv'
  BY <1>1, <1>3, EnvironmentSound DEF updateCandidateResultVisibility, IndInv, TypeOK
<1>4. CASE Tick
  BY <1>1, <1>4, EnvironmentSound DEF Tick, IndInv, TypeOK
<1>5. CASE UNCHANGED vars
  BY <1>1, <1>5, EnvironmentSound DEF vars, envVars, IndInv, TypeOK
<1> QED BY <1>2, <1>3, <1>4, <1>5 DEF Next

(* What the requests under way rely on, and what the session's rows say of  *)
(* one another, holds throughout, for any number of overlapping requests    *)
(* and any crashes.                                                         *)
THEOREM Inductive == Spec => []IndInv
BY InitSound, NextSound, PTL DEF Spec

(* The theorem a reader should know: the invariants that the bounded runs  *)
(* check hold for any number of requests on one session at the same time.  *)
THEOREM SessionSafety ==
    Spec => [](/\ AnsweredItemsHaveResponses
               /\ RunningSessionsAreDelivered
               /\ CompletionIsNotInTheFuture
               /\ ScoredSessionsWereCompleted
               /\ NotificationsAreTrue)
<1>1. IndInv => /\ AnsweredItemsHaveResponses
                /\ RunningSessionsAreDelivered
                /\ CompletionIsNotInTheFuture
                /\ ScoredSessionsWereCompleted
                /\ NotificationsAreTrue
  BY DEF IndInv, SessionIsSound
<1> QED BY <1>1, Inductive, PTL

(* An item counts as answered only with its response: no overlap of a save  *)
(* with the submission that omits untouched items separates the two.        *)
THEOREM AnswersBacked == Spec => []AnsweredItemsHaveResponses
<1>1. IndInv => AnsweredItemsHaveResponses
  BY DEF IndInv, SessionIsSound
<1> QED BY <1>1, Inductive, PTL

(* No session runs without its items, whichever request selected them,      *)
(* unless a start found nothing to deliver.                                 *)
THEOREM RunningDelivered == Spec => []RunningSessionsAreDelivered
<1>1. IndInv => RunningSessionsAreDelivered
  BY DEF IndInv, SessionIsSound
<1> QED BY <1>1, Inductive, PTL

(* Submission and timer closure stamp completions of the past.              *)
THEOREM CompletionPast == Spec => []CompletionIsNotInTheFuture
<1>1. IndInv => CompletionIsNotInTheFuture
  BY DEF IndInv, SessionIsSound
<1> QED BY <1>1, Inductive, PTL

(* A score is only ever written for a session that had been completed.      *)
THEOREM ScoredAfterCompletion == Spec => []ScoredSessionsWereCompleted
<1>1. IndInv => ScoredSessionsWereCompleted
  BY DEF IndInv, SessionIsSound
<1> QED BY <1>1, Inductive, PTL

(* The stored score is the score of the final answers, unless an answer    *)
(* was committed after the completion.                                     *)
THEOREM ScoreIsOfFinalAnswers == Spec => []UndisturbedScoreIsFinal
<1>1. IndInv => UndisturbedScoreIsFinal
  BY DEF IndInv, SessionIsSound
<1> QED BY <1>1, Inductive, PTL

-----------------------------------------------------------------------------
(* What no step may do to the delivered items and the stored answers.      *)

WritesItems(r) ==
    \/ \E selection \in Selections : SelectSessionItems(r, selection)
    \/ CommitResponse(r)
    \/ finaliseResponseSetInternal(r)

(* Only three steps write the session's items or its answers.              *)
LEMMA ItemWriters ==
    ASSUME [Next]_vars
    PROVE  \/ UNCHANGED <<itemStatus, position, firstLoad, answers>>
           \/ \E r \in Requests : WritesItems(r)
<1> DEFINE Kept == UNCHANGED <<itemStatus, position, firstLoad, answers>>
<1> USE DEF itemVars
<1>1. ASSUME NEW r \in Requests, Arrive(r) PROVE Kept
  BY <1>1 DEF Arrive, startSessionForActor, resumeSessionForActor,
     saveItemResponse, finaliseResponseSet, finaliseSessionForActor, scoreSession
<1>2. ASSUME NEW r \in Requests, Continue(r) PROVE Kept \/ WritesItems(r)
  <2>1. ASSUME NEW mapped \in Mappings, buildForSession(r, mapped) PROVE Kept
    BY <2>1 DEF buildForSession, Build, RefuseBuild
  <2>2. ASSUME NEW found \in BOOLEAN, FindFirstSection(r, found) PROVE Kept
    BY <2>2 DEF FindFirstSection
  <2> QED BY <1>2, <2>1, <2>2 DEF Continue, WritesItems, FindSessionItems, BeginSection,
     getCandidateAssessmentSessionPayload, FindSessionItem, CompleteSession,
     scoreCompletedSessionBestEffort, upsertSessionScore,
     sendCandidateResultNotification, revokeActiveTokens, createResultToken,
     sendCandidateResultAvailableEmail, sendCandidateResultHiddenEmail
<1>3. ASSUME NEW r \in Requests, Fail(r) PROVE Kept
  BY <1>3 DEF Fail, ScoringFails, NotificationFails, Crash
<1>4. ASSUME NEW v \in {"SUMMARY_ONLY", "COMPLETION_ONLY"},
             updateCandidateResultVisibility(v)
      PROVE  Kept
  BY <1>4 DEF updateCandidateResultVisibility
<1>5. CASE Tick
  BY <1>5 DEF Tick
<1>6. CASE UNCHANGED vars
  BY <1>6 DEF vars
<1> QED BY <1>1, <1>2, <1>3, <1>4, <1>5, <1>6 DEF Next

(* A save and a submission leave the rows where they are.                  *)
LEMMA OtherWriters ==
    ASSUME IndInv, NEW r \in Requests, CommitResponse(r) \/ finaliseResponseSetInternal(r)
    PROVE  Delivered' = Delivered /\ UNCHANGED <<position, firstLoad>>
<1>1. CASE CommitResponse(r)
  <2>1. req[r].item \in Delivered
    BY <1>1 DEF CommitResponse, At, IndInv, IsSound
  <2> QED BY <1>1, <2>1 DEF CommitResponse, Delivered, IndInv, TypeOK
<1>2. CASE finaliseResponseSetInternal(r)
  BY <1>2 DEF finaliseResponseSetInternal, Delivered
<1> QED BY <1>1, <1>2

DeliveryKept ==
    Delivered # {} =>
        /\ \A i \in Delivered : itemStatus'[i] # "NONE" /\ position'[i] = position[i]
        /\ \A i \in Delivered' \ Delivered, j \in firstLoad : position'[i] > position[j]

LEMMA DeliveryStep == IndInv /\ [Next]_vars => DeliveryKept
<1> SUFFICES ASSUME IndInv, [Next]_vars, Delivered # {} PROVE DeliveryKept
  BY DEF DeliveryKept
<1>1. CASE Delivered' = Delivered /\ UNCHANGED position
  BY <1>1 DEF Delivered, DeliveryKept
<1>2. ASSUME NEW r \in Requests, NEW selection \in Selections,
             SelectSessionItems(r, selection)
      PROVE  DeliveryKept
  <2>1. TypeOK /\ RowsAreSound
    BY DEF IndInv, SessionIsSound
  <2>2. \A i \in Delivered : itemStatus'[i] # "NONE" /\ position'[i] = position[i]
    BY <1>2, <2>1, InsertedRows DEF Delivered
  <2>3. ASSUME NEW i \in Delivered' \ Delivered, NEW j \in firstLoad
        PROVE  position'[i] > position[j]
    <3>1. /\ position'[i] \in Nat \ {0}
          /\ \A k \in Items : position[k] # position'[i]
      BY <1>2, <2>1, <2>3, InsertedRows
    <3>2. /\ position[j] \in Nat /\ firstLoad \subseteq Items
          /\ \A n \in 1 .. position[j] : \E k \in firstLoad : position[k] = n
      BY <2>1 DEF TypeOK, RowsAreSound
    <3>3. position'[i] \notin 1 .. position[j]
      BY <3>1, <3>2
    <3> QED BY <3>1, <3>2, <3>3
  <2> QED BY <2>2, <2>3 DEF DeliveryKept
<1>3. CASE UNCHANGED <<itemStatus, position, firstLoad, answers>>
  BY <1>1, <1>3 DEF Delivered
<1> QED BY <1>1, <1>2, <1>3, ItemWriters, OtherWriters DEF WritesItems

LEMMA AnswerStep ==
    IndInv /\ [Next]_vars =>
        \A i \in Items : answers[i] # NoAnswer =>
            answers'[i] # NoAnswer /\ itemStatus'[i] = "ANSWERED"
<1> SUFFICES ASSUME IndInv, [Next]_vars, NEW i \in Items, answers[i] # NoAnswer
             PROVE  answers'[i] # NoAnswer /\ itemStatus'[i] = "ANSWERED"
  OBVIOUS
<1>1. itemStatus[i] = "ANSWERED" /\ i \in Delivered
  BY DEF IndInv, SessionIsSound, AnsweredItemsHaveResponses, Delivered
<1>2. CASE UNCHANGED <<itemStatus, position, firstLoad, answers>>
  BY <1>1, <1>2
<1>3. ASSUME NEW r \in Requests, WritesItems(r)
      PROVE  answers'[i] # NoAnswer /\ itemStatus'[i] = "ANSWERED"
  <2>1. ASSUME NEW selection \in Selections, SelectSessionItems(r, selection)
        PROVE  answers'[i] # NoAnswer /\ itemStatus'[i] = "ANSWERED"
    BY <1>1, <2>1, InsertedRows DEF SelectSessionItems, IndInv
  <2>2. CASE CommitResponse(r)
    <3>1. req[r].answer \in Answers
      BY <2>2 DEF CommitResponse, At, IndInv, TypeOK, Request
    <3> QED BY <1>1, <2>2, <3>1, AnswersAssumption
        DEF CommitResponse, IndInv, TypeOK, AnswerSheet
  <2>3. CASE finaliseResponseSetInternal(r)
    BY <1>1, <2>3 DEF finaliseResponseSetInternal
  <2> QED BY <1>3, <2>1, <2>2, <2>3 DEF WritesItems
<1> QED BY <1>2, <1>3, ItemWriters

(* What the first load delivers stays at the head of the session, however  *)
(* many loads and starts overlap and whatever each of them selects.        *)
THEOREM DeliveryFixed == Spec => DeliveryIsFixed
<1>1. IndInv /\ [Next]_vars => [DeliveryKept]_vars
  BY DeliveryStep
<1> QED BY <1>1, Inductive, PTL DEF Spec, DeliveryIsFixed, DeliveryKept

(* A stored answer is never lost and its item never becomes an omission.   *)
THEOREM AnswersKept == Spec => AnswersAreKept
<1>1. IndInv /\ [Next]_vars =>
        [\A i \in Items : answers[i] # NoAnswer =>
            answers'[i] # NoAnswer /\ itemStatus'[i] = "ANSWERED"]_vars
  BY AnswerStep
<1> QED BY <1>1, Inductive, PTL DEF Spec, AnswersAreKept

-----------------------------------------------------------------------------
(* A form whose loads all select the same number of items: its mappings,   *)
(* and so the size of the selection, do not change between two loads of    *)
(* one session.                                                            *)

Positions(selection) == {selection[i] : i \in Items} \ {0}
OneSize == \A s, t \in Selections : Positions(s) # {} => Positions(t) \subseteq Positions(s)

(* Then the first load takes every position another one could want.        *)
NothingFits ==
    Delivered # {} =>
        \A s \in Selections, i \in Items : s[i] # 0 => \E j \in Items : position[j] = s[i]

LEMMA NothingFitsInit == Init => NothingFits
BY DEF Init, NothingFits, Delivered

LEMMA NothingFitsStep ==
    ASSUME OneSize, IndInv, NothingFits, [Next]_vars
    PROVE  NothingFits' /\ (Delivered # {} => Delivered' = Delivered)
<1>1. CASE Delivered' = Delivered /\ UNCHANGED position
  BY <1>1 DEF NothingFits
<1>2. ASSUME NEW r \in Requests, NEW selection \in Selections,
             SelectSessionItems(r, selection)
      PROVE  NothingFits' /\ (Delivered # {} => Delivered' = Delivered)
  <2>1. TypeOK /\ RowsAreSound
    BY DEF IndInv, SessionIsSound
  <2>2. Inserted(selection) \subseteq Items
    BY DEF Inserted
  <2>3. CASE Delivered # {}
    <3>1. Inserted(selection) = {}
      BY <2>3 DEF NothingFits, Inserted, Fits
    <3>2. Delivered' = Delivered
      BY <1>2, <2>1, <3>1, InsertedRows
    <3>3. \A i \in Items : position'[i] = position[i]
      BY <1>2, <2>1, <3>1, InsertedRows
    <3> QED BY <3>2, <3>3 DEF NothingFits
  <2>4. CASE Delivered = {}
    <3>1. \A i \in Items : itemStatus[i] = "NONE" /\ position[i] = 0
      BY <2>1, <2>4 DEF Delivered, RowsAreSound
    <3>2. \A i \in Items : i \in Inserted(selection) <=> selection[i] # 0
      BY <3>1 DEF Inserted, Fits
    <3>3. ASSUME Delivered' # {}, NEW s \in Selections, NEW i \in Items, s[i] # 0
          PROVE  \E j \in Items : position'[j] = s[i]
      <4>1. PICK k \in Items : selection[k] # 0
        BY <1>2, <2>1, <2>2, <2>4, <3>2, <3>3, InsertedRows
      <4>2. Positions(selection) # {}
        BY <4>1 DEF Positions
      <4>3. s[i] \in Positions(selection)
        BY <3>3, <4>2 DEF OneSize, Positions
      <4>4. PICK j \in Items : selection[j] = s[i] /\ selection[j] # 0
        BY <4>3 DEF Positions
      <4> QED BY <1>2, <2>1, <3>2, <4>4, InsertedRows
    <3> QED BY <2>4, <3>3 DEF NothingFits
  <2> QED BY <2>3, <2>4
<1>3. CASE UNCHANGED <<itemStatus, position, firstLoad, answers>>
  BY <1>1, <1>3 DEF Delivered
<1> QED BY <1>1, <1>2, <1>3, ItemWriters, OtherWriters DEF WritesItems

(* For such a form the first load fixes the set of delivered items: the    *)
(* rows of a load that overlaps it collide on the unique key of session    *)
(* and position, and are all dropped.                                      *)
THEOREM DeliveryOfOneSize ==
    ASSUME OneSize
    PROVE  Spec => [][Delivered # {} => Delivered' = Delivered]_vars
<1>1. IndInv /\ NothingFits /\ [Next]_vars =>
          NothingFits' /\ [Delivered # {} => Delivered' = Delivered]_vars
  BY NothingFitsStep
<1> QED BY <1>1, NothingFitsInit, Inductive, PTL DEF Spec
=============================================================================
