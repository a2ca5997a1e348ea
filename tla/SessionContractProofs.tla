----------------------- MODULE SessionContractProofs -----------------------
(* SessionLifecycle implements SessionContract as long as requests do not  *)
(* overlap: through crashes, failed scorings, failed mails and repeated    *)
(* requests, each step of a handler is a step of the contract or none.     *)
EXTENDS SessionLifecycleProofs

OneSlot == \A q, r \in Requests : q = r

(* What the rows look like between any two steps ...                       *)
SessionSerial ==
    /\ ~lateWrite
    /\ status \in {"NOT_STARTED", "IN_PROGRESS", "COMPLETED"}
    /\ status = "COMPLETED" <=> completedAt # Never
    /\ OneNotificationPerSession
    /\ resultMails + hiddenMails > 0 => status = "COMPLETED"

(* ... and what the one request under way has checked, which is still so.  *)
StillSo(q) ==
    /\ q.at \in {"saveItem", "save", "submit", "close"} => status # "COMPLETED"
    /\ q.at \in {"items", "select"} => (q.then = "start" => status = "NOT_STARTED")
    /\ q.at \in {"section", "begin"} => status = "NOT_STARTED"
    /\ q.at \in {"scoreCheck", "scoreBuild", "scoreCall",
                 "notify", "revoke", "token", "resultMail", "hiddenMail"} =>
          (q.then # "silent" => status = "COMPLETED" /\ resultMails + hiddenMails = 0)
    /\ q.at = "scoreCall" => DOMAIN q.basis \in (SUBSET Items) \ {{}}

SerialInv == IndInv /\ SessionSerial /\ \A r \in Requests : StillSo(req[r])

-----------------------------------------------------------------------------
LEMMA SlotSerial ==
    ASSUME OneSlot, IndInv', SessionSerial', req \in [Requests -> Request],
           NEW r \in Requests, NEW next, Goto(r, next), StillSo(next)'
    PROVE  SerialInv'
<1>1. ASSUME NEW q \in Requests PROVE StillSo(req[q])'
  <2>1. req'[q] = next
    BY DEF OneSlot, Goto
  <2> QED BY <2>1 DEF StillSo
<1> QED BY <1>1 DEF SerialInv

(* A step that writes no row.                                              *)
LEMMA QuietSerial ==
    ASSUME OneSlot, SerialInv, IndInv',
           UNCHANGED <<rowVars, itemVars, scoreVars, mailVars>>,
           NEW r \in Requests, NEW next, Goto(r, next), StillSo(next)
    PROVE  SerialInv' /\ UNCHANGED Contract!vars
<1> USE DEF rowVars, itemVars, scoreVars, mailVars
<1>1. req \in [Requests -> Request]
  BY DEF SerialInv, IndInv, TypeOK
<1>2. SessionSerial' /\ StillSo(next)'
  BY DEF SerialInv, SessionSerial, StillSo, OneNotificationPerSession
<1>3. UNCHANGED Contract!vars
  BY DEF Contract!vars
<1> QED BY <1>1, <1>2, <1>3, SlotSerial

LEMMA ArriveSerial ==
    ASSUME OneSlot, SerialInv, IndInv', NEW r \in Requests, Arrive(r)
    PROVE  SerialInv' /\ UNCHANGED Contract!vars
<1>0. SessionSerial
  BY DEF SerialInv
<1>1. CASE startSessionForActor(r)
  <2>1. /\ StillSo([at |-> "payload"])
        /\ status = "NOT_STARTED" => StillSo([at |-> "items", then |-> "start"])
    BY DEF StillSo
  <2> QED BY <1>1, <2>1, QuietSerial DEF startSessionForActor
<1>2. CASE resumeSessionForActor(r)
  <2>1. /\ StillSo([at |-> "payload"])
        /\ isTimedOutSession => StillSo(Close(sectionEndsAt, "payload"))
    BY DEF StillSo, Close, isTimedOutSession
  <2> QED BY <1>2, <2>1, QuietSerial DEF resumeSessionForActor
<1>3. ASSUME NEW i \in Items, NEW a \in Answers, saveItemResponse(r, i, a)
      PROVE  SerialInv' /\ UNCHANGED Contract!vars
  <2>1. StillSo([at |-> "saveItem", item |-> i, answer |-> a])
    BY <1>3 DEF StillSo, saveItemResponse, assertSessionOpenForResponseWrite, Closed
  <2> QED BY <1>3, <2>1, QuietSerial DEF saveItemResponse
<1>4. CASE finaliseResponseSet(r)
  <2>1. StillSo([at |-> "submit", completedAt |-> now])
    BY <1>4 DEF StillSo, finaliseResponseSet, assertSessionOpenForResponseWrite, Closed
  <2> QED BY <1>4, <2>1, QuietSerial DEF finaliseResponseSet
<1>5. CASE finaliseSessionForActor(r)
  <2>1. StillSo([at |-> "scoreCheck", then |-> "silent"])
    BY DEF StillSo
  <2>2. status # "COMPLETED" =>
            StillSo(Close(IF isTimedOutSession THEN sectionEndsAt ELSE now, "end"))
    BY DEF StillSo, Close
  <2> QED BY <1>5, <2>1, <2>2, QuietSerial DEF finaliseSessionForActor
<1>6. CASE scoreSession(r)
  <2>1. StillSo([at |-> "scoreBuild", then |-> "silent"])
    BY DEF StillSo
  <2> QED BY <1>6, <2>1, QuietSerial DEF scoreSession
<1> QED BY <1>1, <1>2, <1>3, <1>4, <1>5, <1>6 DEF Arrive

(* Where a handler goes when it is done with a part of its work.           *)
LEMMA AfterSerial ==
    /\ StillSo(Idle)
    /\ \A then \in Thens : StillSo(AfterNotification(then))
    /\ \A then \in {"start", "reply"} :
          (then = "start" => status = "NOT_STARTED") =>
              \A delivered : StillSo(AfterItems(then, delivered))
    /\ \A then \in Thens \cup {"silent"} :
          (then # "silent" => status = "COMPLETED" /\ resultMails + hiddenMails = 0) =>
              StillSo(AfterScoring(then))
BY DEF StillSo, Idle, AfterNotification, AfterItems, AfterScoring, Thens

LEMMA ContinueQuietSerial ==
    ASSUME OneSlot, SerialInv, IndInv', NEW r \in Requests,
           \/ FindSessionItems(r) \/ getCandidateAssessmentSessionPayload(r)
           \/ FindSessionItem(r) \/ scoreCompletedSessionBestEffort(r)
           \/ \E mapped \in Mappings : buildForSession(r, mapped)
           \/ \E found \in BOOLEAN : FindFirstSection(r, found)
           \/ sendCandidateResultNotification(r)
    PROVE  SerialInv' /\ UNCHANGED Contract!vars
<1> USE DEF At
<1>0. /\ SessionSerial /\ StillSo(req[r]) /\ req[r] \in Request
  BY DEF SerialInv, IndInv, TypeOK
<1>1. CASE FindSessionItems(r)
  <2>1. /\ req[r].then \in {"start", "reply"}
        /\ req[r].then = "start" => status = "NOT_STARTED"
    BY <1>0, <1>1 DEF FindSessionItems, Request, StillSo
  <2>2. StillSo([at |-> "select", then |-> req[r].then])
    BY <2>1 DEF StillSo
  <2> QED BY <1>1, <2>1, <2>2, AfterSerial, QuietSerial DEF FindSessionItems
<1>2. CASE getCandidateAssessmentSessionPayload(r)
  <2>1. /\ StillSo([at |-> "items", then |-> "reply"])
        /\ isTimedOutSession => StillSo(Close(sectionEndsAt, "items"))
    BY DEF StillSo, Close, isTimedOutSession
  <2> QED BY <1>2, <2>1, QuietSerial DEF getCandidateAssessmentSessionPayload
<1>3. CASE FindSessionItem(r)
  <2> PICK next : next = [req[r] EXCEPT !.at = "save"]
    OBVIOUS
  <2>1. next.at = "save" /\ status # "COMPLETED"
    BY <1>0, <1>3 DEF FindSessionItem, Request, StillSo
  <2>2. StillSo(next)
    BY <2>1 DEF StillSo
  <2> QED BY <1>3, <2>2, AfterSerial, QuietSerial DEF FindSessionItem
<1>4. CASE scoreCompletedSessionBestEffort(r)
  <2>1. /\ req[r].then \in Thens \cup {"silent"}
        /\ req[r].then # "silent" => status = "COMPLETED" /\ resultMails + hiddenMails = 0
    BY <1>0, <1>4 DEF scoreCompletedSessionBestEffort, Request, StillSo
  <2>2. StillSo([at |-> "scoreBuild", then |-> req[r].then])
    BY <2>1 DEF StillSo
  <2> QED BY <1>4, <2>1, <2>2, AfterSerial, QuietSerial
    DEF scoreCompletedSessionBestEffort
<1>5. ASSUME NEW mapped \in Mappings, buildForSession(r, mapped)
      PROVE  SerialInv' /\ UNCHANGED Contract!vars
  <2>1. /\ req[r].then \in Thens \cup {"silent"}
        /\ req[r].then # "silent" => status = "COMPLETED" /\ resultMails + hiddenMails = 0
    BY <1>0, <1>5 DEF buildForSession, Build, RefuseBuild, Request, StillSo
  <2>2. CASE Build(r, mapped)
    <3>1. DOMAIN Part(answers, mapped) = mapped /\ mapped \in (SUBSET Items) \ {{}}
      BY <2>2, MappingsAssumption DEF Part, Build
    <3>2. StillSo([at |-> "scoreCall", basis |-> Part(answers, mapped), then |-> req[r].then])
      BY <2>1, <3>1 DEF StillSo
    <3> QED BY <2>2, <3>2, QuietSerial DEF Build
  <2>3. CASE RefuseBuild(r)
    BY <2>1, <2>3, AfterSerial, QuietSerial DEF RefuseBuild
  <2> QED BY <1>5, <2>2, <2>3 DEF buildForSession
<1>6. CASE sendCandidateResultNotification(r)
  <2> PICK hidden, revoke : /\ hidden = [req[r] EXCEPT !.at = "hiddenMail"]
                            /\ revoke = [req[r] EXCEPT !.at = "revoke"]
    OBVIOUS
  <2>1. /\ req[r].then \in Thens /\ status = "COMPLETED" /\ resultMails + hiddenMails = 0
        /\ hidden.at = "hiddenMail" /\ revoke.at = "revoke"
    BY <1>0, <1>6 DEF sendCandidateResultNotification, Request, StillSo, Thens
  <2>2. StillSo(hidden) /\ StillSo(revoke)
    BY <2>1 DEF StillSo
  <2> QED BY <1>6, <2>1, <2>2, AfterSerial, QuietSerial
    DEF sendCandidateResultNotification
<1>7. ASSUME NEW found \in BOOLEAN, FindFirstSection(r, found)
      PROVE  SerialInv' /\ UNCHANGED Contract!vars
  <2>1. StillSo([at |-> "begin"])
    BY <1>0, <1>7 DEF FindFirstSection, StillSo
  <2> QED BY <1>7, <2>1, AfterSerial, QuietSerial DEF FindFirstSection
<1> QED BY <1>1, <1>2, <1>3, <1>4, <1>5, <1>6, <1>7

LEMMA FailSerial ==
    ASSUME OneSlot, SerialInv, IndInv', NEW r \in Requests, Fail(r)
    PROVE  SerialInv' /\ UNCHANGED Contract!vars
<1>0. StillSo(req[r]) /\ req[r] \in Request
  BY DEF SerialInv, IndInv, TypeOK
<1>1. CASE ScoringFails(r)
  <2>1. /\ req[r].then \in Thens \cup {"silent"}
        /\ req[r].then # "silent" => status = "COMPLETED" /\ resultMails + hiddenMails = 0
    BY <1>0, <1>1 DEF ScoringFails, At, Request, StillSo
  <2> QED BY <1>1, <2>1, AfterSerial, QuietSerial DEF ScoringFails
<1>2. CASE NotificationFails(r)
  <2>1. req[r].then \in Thens
    BY <1>0, <1>2 DEF NotificationFails, Request
  <2> QED BY <1>2, <2>1, AfterSerial, QuietSerial DEF NotificationFails
<1>3. CASE Crash(r)
  BY <1>3, AfterSerial, QuietSerial DEF Crash
<1> QED BY <1>1, <1>2, <1>3 DEF Fail

-----------------------------------------------------------------------------
(* The steps that write rows.                                              *)

LEMMA Writer ==
    ASSUME SerialInv, NEW r \in Requests
    PROVE  /\ TypeOK /\ SessionSerial /\ StillSo(req[r]) /\ IsSound(req[r])
           /\ req[r] \in Request /\ req \in [Requests -> Request]
           /\ ScoredSessionsWereCompleted
BY DEF SerialInv, IndInv, TypeOK, SessionIsSound

(* Selecting the items is invisible in the contract, and so is the token.  *)
LEMMA SelectSerial ==
    ASSUME OneSlot, SerialInv, IndInv', NEW r \in Requests, NEW selection \in Selections,
           SelectSessionItems(r, selection)
    PROVE  SerialInv' /\ UNCHANGED Contract!vars
<1> PICK next : next = AfterItems(req[r].then, Delivered \cup Inserted(selection))
  OBVIOUS
<1>1. UNCHANGED <<status, completedAt, answers, lateWrite, scored, scoredAnswers,
                  resultMails, hiddenMails>>
  BY DEF SelectSessionItems, rowVars, scoreVars, mailVars
<1>2. /\ req[r].then \in {"start", "reply"}
      /\ req[r].then = "start" => status = "NOT_STARTED"
  BY Writer DEF SelectSessionItems, At, Request, StillSo
<1>3. StillSo(next)'
  BY <1>1, <1>2 DEF StillSo, AfterItems, Idle
<1>4. SessionSerial'
  BY <1>1, Writer DEF SessionSerial, OneNotificationPerSession
<1>5. Goto(r, next)
  BY Writer, InsertedRows
<1>6. UNCHANGED Contract!vars
  BY <1>1 DEF Contract!vars
<1> QED BY <1>3, <1>4, <1>5, <1>6, Writer, SlotSerial

LEMMA BeginSerial ==
    ASSUME OneSlot, SerialInv, IndInv', NEW r \in Requests, BeginSection(r)
    PROVE  SerialInv' /\ Contract!Start
<1>1. UNCHANGED <<completedAt, answers, lateWrite, scored, scoredAnswers,
                  resultMails, hiddenMails>>
  BY DEF BeginSection, itemVars, scoreVars, mailVars
<1>2. status = "NOT_STARTED" /\ status' = "IN_PROGRESS"
  BY Writer DEF BeginSection, At, StillSo
<1>3. SessionSerial'
  BY <1>1, <1>2, Writer DEF SessionSerial, OneNotificationPerSession
<1>4. StillSo([at |-> "payload"])'
  BY DEF StillSo
<1>5. SerialInv'
  BY <1>3, <1>4, Writer, SlotSerial DEF BeginSection
<1>6. Contract!Start
  BY <1>1, <1>2 DEF Contract!Start
<1> QED BY <1>5, <1>6

LEMMA CommitSerial ==
    ASSUME OneSlot, SerialInv, IndInv', NEW r \in Requests, CommitResponse(r)
    PROVE  SerialInv' /\ \E i \in Items, a \in Answers : Contract!Answer(i, a)
<1>1. UNCHANGED <<status, completedAt, scored, scoredAnswers, resultMails, hiddenMails>>
  BY DEF CommitResponse, rowVars, scoreVars, mailVars
<1>2. /\ req[r].item \in Items /\ req[r].answer \in Answers
      /\ status # "COMPLETED"
      /\ answers' = [answers EXCEPT ![req[r].item] = req[r].answer]
  BY Writer DEF CommitResponse, At, Request, StillSo
<1>3. completedAt = Never /\ ~lateWrite
  BY <1>2, Writer DEF SessionSerial
<1>4. ~lateWrite'
  BY <1>3 DEF CommitResponse
<1>5. SessionSerial'
  BY <1>1, <1>4, Writer DEF SessionSerial, OneNotificationPerSession
<1>6. SerialInv'
  <2>1. StillSo(Idle)'
    BY DEF StillSo, Idle
  <2> QED BY <1>5, <2>1, Writer, SlotSerial DEF CommitResponse
<1>7. Contract!Answer(req[r].item, req[r].answer)
  BY <1>1, <1>2 DEF Contract!Answer
<1> QED BY <1>2, <1>6, <1>7

LEMMA CompletionSerial ==
    ASSUME OneSlot, SerialInv, IndInv', NEW r \in Requests,
           finaliseResponseSetInternal(r) \/ CompleteSession(r)
    PROVE  SerialInv' /\ Contract!Complete
<1> PICK next : next = IF finaliseResponseSetInternal(r) THEN Idle
                       ELSE [at |-> "scoreCheck", then |-> req[r].then]
  OBVIOUS
<1>1. /\ UNCHANGED <<answers, lateWrite, scored, scoredAnswers, resultMails, hiddenMails>>
      /\ status # "COMPLETED" /\ status' = "COMPLETED"
  BY Writer DEF finaliseResponseSetInternal, CompleteSession, itemVars, scoreVars, mailVars,
     At, StillSo
<1>2. completedAt' # Never
  BY Writer DEF finaliseResponseSetInternal, CompleteSession, At, IsSound, Never
<1>3. resultMails + hiddenMails = 0
  BY <1>1, Writer DEF SessionSerial, TypeOK
<1>4. SessionSerial'
  BY <1>1, <1>2, <1>3, Writer DEF SessionSerial, OneNotificationPerSession
<1>5. StillSo(next)' /\ Goto(r, next)
  BY <1>1, <1>3 DEF StillSo, Idle, finaliseResponseSetInternal, CompleteSession
<1>6. Contract!Complete
  BY <1>1 DEF Contract!Complete
<1> QED BY <1>4, <1>5, <1>6, Writer, SlotSerial

LEMMA UpsertSerial ==
    ASSUME OneSlot, SerialInv, IndInv', NEW r \in Requests, upsertSessionScore(r)
    PROVE  SerialInv' /\ \E items \in (SUBSET Items) \ {{}} : Contract!Score(items)
<1> PICK next : next = AfterScoring(req[r].then)
  OBVIOUS
<1>1. /\ UNCHANGED <<status, completedAt, answers, lateWrite, resultMails, hiddenMails>>
      /\ scored' = TRUE /\ scoredAnswers' = req[r].basis
  BY DEF upsertSessionScore, rowVars, itemVars, mailVars
<1>2. /\ req[r].then \in Thens \cup {"silent"}
      /\ req[r].then # "silent" => status = "COMPLETED" /\ resultMails + hiddenMails = 0
  BY Writer DEF upsertSessionScore, At, Request, StillSo
<1>3. /\ status = "COMPLETED"
      /\ DOMAIN req[r].basis \in (SUBSET Items) \ {{}}
      /\ req[r].basis = [i \in DOMAIN req[r].basis |-> answers[i]]
  BY Writer DEF upsertSessionScore, At, IsSound, SessionSerial, StillSo, Part
<1>4. SessionSerial'
  BY <1>1, Writer DEF SessionSerial, OneNotificationPerSession
<1>5. StillSo(next)' /\ Goto(r, next)
  BY <1>1, <1>2 DEF StillSo, AfterScoring, Idle, Thens, upsertSessionScore
<1>6. Contract!Score(DOMAIN req[r].basis)
  BY <1>1, <1>3 DEF Contract!Score
<1> QED BY <1>3, <1>4, <1>5, <1>6, Writer, SlotSerial

LEMMA TokenSerial ==
    ASSUME OneSlot, SerialInv, IndInv', NEW r \in Requests,
           revokeActiveTokens(r) \/ createResultToken(r)
    PROVE  SerialInv' /\ UNCHANGED Contract!vars
<1> PICK next : next = [req[r] EXCEPT !.at = IF revokeActiveTokens(r) THEN "token"
                                              ELSE "resultMail"]
  OBVIOUS
<1> USE DEF revokeActiveTokens, createResultToken
<1>1. UNCHANGED <<status, completedAt, answers, lateWrite, scored, scoredAnswers,
                  resultMails, hiddenMails>>
  BY DEF rowVars, itemVars, scoreVars
<1>2. /\ next.at \in {"token", "resultMail"}
      /\ status = "COMPLETED" /\ resultMails + hiddenMails = 0
  BY Writer DEF At, Request, StillSo, Thens
<1>3. StillSo(next)' /\ Goto(r, next)
  BY <1>1, <1>2 DEF StillSo, At
<1>4. SessionSerial'
  BY <1>1, Writer DEF SessionSerial, OneNotificationPerSession
<1>5. UNCHANGED Contract!vars
  BY <1>1 DEF Contract!vars
<1> QED BY <1>3, <1>4, <1>5, Writer, SlotSerial

LEMMA MailSerial ==
    ASSUME OneSlot, SerialInv, IndInv', NEW r \in Requests,
           \/ sendCandidateResultAvailableEmail(r)
           \/ sendCandidateResultHiddenEmail(r)
    PROVE  SerialInv' /\ Contract!Tell
<1> PICK next : next = AfterNotification(req[r].then)
  OBVIOUS
<1> USE DEF sendCandidateResultAvailableEmail, sendCandidateResultHiddenEmail
<1>1. UNCHANGED <<status, completedAt, answers, lateWrite, scored, scoredAnswers>>
  BY DEF rowVars, itemVars, scoreVars
<1>2. /\ req[r].then \in Thens
      /\ status = "COMPLETED" /\ resultMails + hiddenMails = 0
  BY Writer DEF At, Request, StillSo, Thens
<1>3. resultMails = 0 /\ hiddenMails = 0 /\ resultMails' + hiddenMails' = 1
  BY <1>2, Writer DEF TypeOK, Many
<1>4. SessionSerial'
  BY <1>1, <1>2, <1>3, Writer DEF SessionSerial, OneNotificationPerSession
<1>5. StillSo(next)' /\ Goto(r, next)
  BY <1>2 DEF StillSo, AfterNotification, Thens, Idle
<1>6. ~(resultMails + hiddenMails > 0) /\ (resultMails + hiddenMails > 0)' = TRUE
  BY <1>3
<1>7. Contract!Tell
  BY <1>1, <1>2, <1>6 DEF Contract!Tell
<1> QED BY <1>4, <1>5, <1>7, Writer, SlotSerial

(* Only time passes, or the employer changes the visibility.               *)
LEMMA EnvironmentSerial ==
    ASSUME SerialInv, IndInv', UNCHANGED <<rowVars, itemVars, scoreVars, mailVars, req>>
    PROVE  SerialInv' /\ UNCHANGED Contract!vars
<1> USE DEF rowVars, itemVars, scoreVars, mailVars
<1>1. SessionSerial'
  BY DEF SerialInv, SessionSerial, OneNotificationPerSession
<1>2. ASSUME NEW r \in Requests PROVE StillSo(req[r])'
  BY DEF SerialInv, StillSo
<1>3. UNCHANGED Contract!vars
  BY DEF Contract!vars
<1> QED BY <1>1, <1>2, <1>3 DEF SerialInv

LEMMA SerialStep ==
    ASSUME OneSlot, SerialInv, [Next]_vars
    PROVE  SerialInv' /\ [Contract!Next]_(Contract!vars)
<1>1. IndInv'
  BY NextSound DEF SerialInv
<1>2. ASSUME NEW r \in Requests, Arrive(r) \/ Fail(r)
      PROVE  SerialInv' /\ [Contract!Next]_(Contract!vars)
  BY <1>1, <1>2, ArriveSerial, FailSerial
<1>3. ASSUME NEW r \in Requests, Continue(r)
      PROVE  SerialInv' /\ [Contract!Next]_(Contract!vars)
  <2>1. CASE \/ \E selection \in Selections : SelectSessionItems(r, selection)
             \/ revokeActiveTokens(r) \/ createResultToken(r)
    BY <1>1, <2>1, SelectSerial, TokenSerial
  <2>2. CASE BeginSection(r)
    BY <1>1, <2>2, BeginSerial DEF Contract!Next
  <2>3. CASE CommitResponse(r)
    BY <1>1, <2>3, CommitSerial DEF Contract!Next
  <2>4. CASE finaliseResponseSetInternal(r) \/ CompleteSession(r)
    BY <1>1, <2>4, CompletionSerial DEF Contract!Next
  <2>5. CASE upsertSessionScore(r)
    BY <1>1, <2>5, UpsertSerial DEF Contract!Next
  <2>6. CASE sendCandidateResultAvailableEmail(r) \/ sendCandidateResultHiddenEmail(r)
    BY <1>1, <2>6, MailSerial DEF Contract!Next
  <2>7. CASE \/ FindSessionItems(r) \/ getCandidateAssessmentSessionPayload(r)
             \/ FindSessionItem(r) \/ scoreCompletedSessionBestEffort(r)
             \/ \E mapped \in Mappings : buildForSession(r, mapped)
             \/ \E found \in BOOLEAN : FindFirstSection(r, found)
             \/ sendCandidateResultNotification(r)
    BY <1>1, <2>7, ContinueQuietSerial
  <2> QED BY <1>3, <2>1, <2>2, <2>3, <2>4, <2>5, <2>6, <2>7 DEF Continue
<1>4. CASE \/ UNCHANGED vars \/ Tick
           \/ \E v \in {"SUMMARY_ONLY", "COMPLETION_ONLY"} : updateCandidateResultVisibility(v)
  BY <1>1, <1>4, EnvironmentSerial DEF vars, Tick, updateCandidateResultVisibility
<1> QED BY <1>2, <1>3, <1>4 DEF Next

LEMMA SerialInit == Init => SerialInv /\ Contract!Init
<1> SUFFICES ASSUME Init PROVE SerialInv /\ Contract!Init
  OBVIOUS
<1>1. IndInv
  BY InitSound
<1>2. SessionSerial
  BY DEF Init, SessionSerial, OneNotificationPerSession
<1>3. \A r \in Requests : StillSo(req[r])
  BY DEF Init, StillSo, Idle
<1>4. Contract!Init
  BY DEF Init, Contract!Init, Blank, Part
<1> QED BY <1>1, <1>2, <1>3, <1>4 DEF SerialInv

(* One request at a time, which may die or fail at any await and be made   *)
(* again, notifies the candidate at most once (finaliseSessionForActor).   *)
THEOREM SerialNotification ==
    ASSUME OneSlot
    PROVE  Spec => []OneNotificationPerSession
<1>1. SerialInv /\ [Next]_vars => SerialInv'
  BY SerialStep
<1>2. SerialInv => OneNotificationPerSession
  BY DEF SerialInv, SessionSerial
<1> QED BY <1>1, <1>2, SerialInit, PTL DEF Spec

(* And it keeps what the documents promise of a session: the handlers of   *)
(* sessions, responses and psychometrics implement SessionContract.        *)
THEOREM SerialRefinement ==
    ASSUME OneSlot
    PROVE  Spec => ImplementsContract
<1>1. SerialInv /\ [Next]_vars => SerialInv' /\ [Contract!Next]_(Contract!vars)
  BY SerialStep
<1>2. Init => SerialInv /\ Contract!Init
  BY SerialInit
<1> QED BY <1>1, <1>2, PTL DEF Spec, ImplementsContract, Contract!Spec
=============================================================================
