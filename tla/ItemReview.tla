----------------------------- MODULE ItemReview -----------------------------
(***************************************************************************)
(* How an item gets into an assessment form.  Three services write the     *)
(* same rows: assessments (a researcher submits, a reviewer decides, an    *)
(* approval gives the item a position in the form), internal-tooling       *)
(* (items are edited, activated, retired and attached, the pilot form is   *)
(* locked) and item-bank (items are created, activated and retired by id,  *)
(* with no check but that they exist).  None uses a transaction; each      *)
(* reads, checks, awaits and writes by id.                                 *)
(*                                                                         *)
(* One form with one section, which is there from the start.  A request    *)
(* waits in its slot of Requests between its awaits.                       *)
(***************************************************************************)
EXTENDS Naturals

CONSTANTS
    Items,          \* bound: the Item rows there can ever be
    Assigned,       \* those of them that are written for a section assignment
    Handled,        \* bound: those whose row is edited or whose status is given
    GivenPositions, \* the orderIndex values that administrators enter
    EnteredReviews, \* bound: the reviewStatus values entered for drafts
    EnteredPsychometrics, \* bound: the psychometricStatus values entered
    EnteredPilots,  \* bound: the pilotStatus values entered for the form
    Requests        \* slots for requests the API serves at the same time

ASSUME HandledAssumption == Handled \in SUBSET Items
ASSUME PositionsAssumption == GivenPositions \in SUBSET Nat

VARIABLES
    item,    \* per item its row, as far as the workflow reads it
    mapping, \* per item its FormItemMapping (unique for a form and an item)
    form,    \* the AssessmentForm: its pilotStatus and isLocked
    moved,   \* history: items whose position was changed
    lost,    \* history: active items without a place, as the request that
             \* was to give it died or item-bank asked for none
    req      \* per slot: where its request is, and its local variables

vars == <<item, mapping, form, moved, lost, req>>

ItemStatus == {"DRAFT", "UNDER_REVIEW", "ACTIVE", "RETIRED"}
(* NEEDS_REVISION counts as NOT_REVIEWED: no guard tells them apart.       *)
ItemReviewStatus ==
    {"NOT_REVIEWED", "SUBMITTED_FOR_REVIEW", "REVIEW_IN_PROGRESS", "APPROVED",
     "APPROVED_FOR_PILOT", "REJECTED"}
ASSUME ReviewsAssumption == EnteredReviews \in SUBSET ItemReviewStatus
UnderReview == {"SUBMITTED_FOR_REVIEW", "REVIEW_IN_PROGRESS"}

(* The guards ask only whether psychometricStatus is PILOT_READY.          *)
PsychometricItemStatus == {"PILOT_READY", "OTHER"}
ASSUME PsychometricsAssumption == EnteredPsychometrics \in SUBSET PsychometricItemStatus

NoItem == [status |-> "NONE"]
Item ==
    {NoItem}
    \cup [status : ItemStatus, review : ItemReviewStatus,
          psychometric : PsychometricItemStatus]
PilotReady(row) == row.psychometric = "PILOT_READY" /\ row.review = "APPROVED_FOR_PILOT"

(* DRAFT, READY_FOR_REVIEW, CLOSED and ARCHIVED count as OPEN.             *)
LockedPilotStatus == {"LOCKED_FOR_PILOT", "ACTIVE_PILOT"}
PilotFormStatus == {"OPEN"} \cup LockedPilotStatus
ASSUME PilotsAssumption == EnteredPilots \in SUBSET PilotFormStatus
Form == [status : PilotFormStatus, locked : BOOLEAN]
isLockedPilotForm(f) == f.locked \/ f.status \in LockedPilotStatus

(* `after`: history, the items whose positions the choice of this one saw. *)
NoMapping == [state |-> "NONE"]
Mapping ==
    {NoMapping} \cup
    [state : {"ACTIVE", "INACTIVE"}, order : Nat, after : SUBSET Items]

(* What a reviewer does; an approval may leave the item inactive.          *)
Decisions == {"START", "REQUEST_CHANGES", "REJECT", "APPROVE", "APPROVE_INACTIVE"}

(* `seen`: history, the row that was checked as the form was found locked; *)
(* NoItem when it was open or the lock is not asked for.  `override`: the  *)
(* request is a platform admin's and gives a reason.                       *)
Idle == [at |-> "idle"]
Request ==
    {Idle}
    \cup [at : {"submit", "place"}, of : Items]
    \cup [at : {"review"}, of : Items, decision : Decisions]
    \cup [at : {"insert"}, of : Items, state : {"ACTIVE", "INACTIVE"},
          order : Nat, after : SUBSET Items, seen : Item]
    \cup [at : {"replace"}, of : Items, order : Nat]
    \cup [at : {"status"}, of : Items, next : ItemStatus]
    \cup [at : {"edit"}, of : Items, review : ItemReviewStatus \cup {"SAME"},
          psychometric : PsychometricItemStatus \cup {"SAME"}]
    \cup [at : {"pilot"}, next : PilotFormStatus, read : Form, override : BOOLEAN]

TypeOK ==
    /\ item \in [Items -> Item]
    /\ mapping \in [Items -> Mapping]
    /\ form \in Form
    /\ moved \in SUBSET Items
    /\ lost \in SUBSET Items
    /\ req \in [Requests -> Request]

Init ==
    /\ item = [i \in Items |-> NoItem]
    /\ mapping = [i \in Items |-> NoMapping]
    /\ form \in [status : EnteredPilots, locked : {FALSE}]
    /\ moved = {}
    /\ lost = {}
    /\ req = [r \in Requests |-> Idle]

-----------------------------------------------------------------------------
(* Helpers.                                                                *)

rows == <<item, mapping, form, moved, lost>>
At(r, place) == req[r].at = place
Goto(r, next) == req' = [req EXCEPT ![r] = next]
Start(r, next) == At(r, "idle") /\ Goto(r, next) /\ UNCHANGED rows
SetItem(i, row) ==
    /\ item' = [item EXCEPT ![i] = row]
    /\ lost' = IF row.status = "ACTIVE" THEN lost ELSE lost \ {i}

Exists(i) == item[i].status # "NONE"
Mapped == {i \in Items : mapping[i].state # "NONE"}

Draft(review, psychometric) ==
    [status |-> "DRAFT", review |-> review, psychometric |-> psychometric]
Insertion(i, state, n, after, seen) ==
    [at |-> "insert", of |-> i, state |-> state, order |-> n, after |-> after, seen |-> seen]

-----------------------------------------------------------------------------
(* assessments.service: the researcher's part.                             *)

createItemForSectionAssignment(i) ==
    /\ i \in Assigned /\ ~Exists(i)
    /\ SetItem(i, Draft("NOT_REVIEWED", "OTHER"))
    /\ UNCHANGED <<mapping, form, moved, req>>

submitItemForReviewFromSectionAssignment(r, i) ==
    /\ Exists(i) /\ i \in Assigned
    /\ item[i].status = "DRAFT" /\ item[i].review = "NOT_REVIEWED"
    /\ Start(r, [at |-> "submit", of |-> i])

WriteSubmission(r) ==
    /\ At(r, "submit")
    /\ SetItem(req[r].of, [item[req[r].of] EXCEPT !.status = "UNDER_REVIEW",
           !.review = "SUBMITTED_FOR_REVIEW", !.psychometric = "OTHER"])
    /\ Goto(r, Idle)
    /\ UNCHANGED <<mapping, form, moved>>

-----------------------------------------------------------------------------
(* assessments.service: the reviewer's part.                               *)

reviewAssignedSectionItem(r, i, decision) ==
    /\ Exists(i) /\ i \in Assigned
    /\ item[i].review \in IF decision = "START" THEN {"SUBMITTED_FOR_REVIEW"} ELSE UnderReview
    /\ Start(r, [at |-> "review", of |-> i, decision |-> decision])

(* One update by id, whatever has become of the item.                      *)
Closed(row, status, review) ==
    [row EXCEPT !.status = status, !.review = review, !.psychometric = "OTHER"]
Decided(row, decision) ==
    CASE decision = "START"            -> [row EXCEPT !.review = "REVIEW_IN_PROGRESS"]
      [] decision = "REQUEST_CHANGES"  -> Closed(row, "DRAFT", "NOT_REVIEWED")
      [] decision = "REJECT"           -> Closed(row, "RETIRED", "REJECTED")
      [] decision = "APPROVE"          -> Closed(row, "ACTIVE", "APPROVED")
      [] decision = "APPROVE_INACTIVE" -> Closed(row, "DRAFT", "APPROVED")

WriteDecision(r) ==
    /\ At(r, "review")
    /\ LET i == req[r].of IN
       /\ SetItem(i, Decided(item[i], req[r].decision))
       /\ Goto(r, IF req[r].decision = "APPROVE" THEN [at |-> "place", of |-> i] ELSE Idle)
    /\ UNCHANGED <<mapping, form, moved>>

(* Mutant: the next position counts the active mappings only.              *)
NextAfterActive(n) ==
    LET Active == {j \in Items : mapping[j].state = "ACTIVE"} IN
    /\ n \in {0} \cup {mapping[j].order + 1 : j \in Active}
    /\ \A j \in Active : mapping[j].order < n
    /\ n = 0 => Active = {}

(* One more than the highest position in the section, 0 if it has no item. *)
getNextFormSectionItemOrderIndex(n) ==
    /\ n \in {0} \cup {mapping[j].order + 1 : j \in Mapped}
    /\ \A j \in Mapped : mapping[j].order < n

(* The position: the one the reviewer gives, the one the item has, or the  *)
(* next.  (Whether there is a mapping and which position is next are two   *)
(* reads; that they are one step here changes nothing, as an insertion of  *)
(* the same item in between makes this one fail.)                          *)
FindPosition(r) ==
    /\ At(r, "place")
    /\ LET i == req[r].of IN
       \/ /\ i \in Mapped
          /\ \E n \in {mapping[i].order} \cup GivenPositions :
                Goto(r, [at |-> "replace", of |-> i, order |-> n])
       \/ /\ i \notin Mapped
          /\ \E n \in GivenPositions :
                Goto(r, Insertion(i, "ACTIVE", n, {}, NoItem))
       \/ /\ i \notin Mapped
          /\ \E n \in {0} \cup {mapping[j].order + 1 : j \in Mapped} :
                /\ getNextFormSectionItemOrderIndex(n)
                /\ Goto(r, Insertion(i, "ACTIVE", n, Mapped, NoItem))
    /\ UNCHANGED rows

(* A second mapping of the item violates the unique constraint.            *)
InsertMapping(r) ==
    /\ At(r, "insert")
    /\ LET i == req[r].of IN
       IF i \in Mapped THEN UNCHANGED <<mapping, lost>>
       ELSE /\ mapping' = [mapping EXCEPT ![i] = [state |-> req[r].state,
                                order |-> req[r].order, after |-> req[r].after]]
            /\ lost' = lost \ {i}
    /\ Goto(r, Idle)
    /\ UNCHANGED <<item, form, moved>>

UpdateMapping(r) ==
    /\ At(r, "replace")
    /\ LET i == req[r].of IN
       /\ mapping' = [mapping EXCEPT ![i].state = "ACTIVE", ![i].order = req[r].order]
       /\ moved' = IF req[r].order = mapping[i].order THEN moved ELSE moved \cup {i}
    /\ Goto(r, Idle)
    /\ UNCHANGED <<item, form, lost>>

attachItemToForm(r, i, n) ==
    /\ Exists(i) /\ item[i].status = "ACTIVE"
    /\ Start(r, Insertion(i, "ACTIVE", n, {}, NoItem))

updateFormItemMappingStatus(i, state) ==
    /\ i \in Mapped
    /\ mapping' = [mapping EXCEPT ![i].state = state]
    /\ UNCHANGED <<item, form, moved, lost, req>>

-----------------------------------------------------------------------------
(* internal-tooling.service: items.                                        *)

(* A PILOT_READY item must be approved for the pilot (and its metadata be  *)
(* complete, which they may be).                                           *)
assertPilotReady(psychometric, review) ==
    psychometric = "PILOT_READY" => review = "APPROVED_FOR_PILOT"

createInternalDraftItem(i, review, psychometric) ==
    /\ i \notin Assigned /\ ~Exists(i)
    /\ assertPilotReady(psychometric, review)
    /\ SetItem(i, Draft(review, psychometric))
    /\ UNCHANGED <<mapping, form, moved, req>>

(* An edit of a draft may set either status, or leave it the SAME; what is *)
(* checked is the row it would make of the one that was read.  (One that   *)
(* leaves both changes nothing here.  A lock guards the answer key and the *)
(* scoring rule only, which are content.)                                  *)
Entered(new, old) == IF new = "SAME" THEN old ELSE new
updateInternalDraftItem(r, i, review, psychometric) ==
    /\ Exists(i) /\ item[i].status = "DRAFT"
    /\ {review, psychometric} # {"SAME"}
    /\ assertPilotReady(Entered(psychometric, item[i].psychometric),
                        Entered(review, item[i].review))
    /\ Start(r, [at |-> "edit", of |-> i, review |-> review, psychometric |-> psychometric])

WriteEdit(r) ==
    /\ At(r, "edit")
    /\ SetItem(req[r].of, [item[req[r].of] EXCEPT !.review = Entered(req[r].review, @),
                               !.psychometric = Entered(req[r].psychometric, @)])
    /\ Goto(r, Idle)
    /\ UNCHANGED <<mapping, form, moved>>

(* Mutant: an item may be activated without a place in a form.             *)
ActivateUnplaced(r, i, next) ==
    /\ Exists(i) /\ item[i].status \notin {next, "RETIRED"}
    /\ ~(item[i].status = "ACTIVE" /\ next = "DRAFT")
    /\ Start(r, [at |-> "status", of |-> i, next |-> next])

updateInternalItemStatus(r, i, next) ==
    /\ Exists(i) /\ item[i].status \notin {next, "RETIRED"}
    /\ ~(item[i].status = "ACTIVE" /\ next = "DRAFT")
    /\ next = "ACTIVE" => mapping[i].state = "ACTIVE"
    /\ Start(r, [at |-> "status", of |-> i, next |-> next])

activateInternalItem(r, i) ==
    /\ Exists(i) /\ item[i].status \notin {"ACTIVE", "RETIRED"}
    /\ mapping[i].state = "ACTIVE"
    /\ Start(r, [at |-> "status", of |-> i, next |-> "ACTIVE"])

WriteStatus(r) ==
    /\ At(r, "status")
    /\ SetItem(req[r].of, [item[req[r].of] EXCEPT !.status = req[r].next])
    /\ Goto(r, Idle)
    /\ UNCHANGED <<mapping, form, moved>>

-----------------------------------------------------------------------------
(* item-bank.service: no status, mapping or review is asked for.  (What is *)
(* read first is whether the item exists, and none is ever deleted, so the *)
(* write alone is a step.  An edit there changes a draft's text only.)     *)

createItem(i) ==
    /\ i \notin Assigned /\ ~Exists(i)
    /\ SetItem(i, Draft("NOT_REVIEWED", "OTHER"))
    /\ UNCHANGED <<mapping, form, moved, req>>

activateItem(r, i) ==
    /\ At(r, "idle") /\ Exists(i)
    /\ item' = [item EXCEPT ![i].status = "ACTIVE"]
    /\ lost' = lost \cup ({i} \ Mapped)
    /\ UNCHANGED <<mapping, form, moved, req>>

retireItem(r, i) ==
    /\ At(r, "idle") /\ Exists(i)
    /\ SetItem(i, [item[i] EXCEPT !.status = "RETIRED"])
    /\ UNCHANGED <<mapping, form, moved, req>>

-----------------------------------------------------------------------------
(* internal-tooling.service: the pilot form.                               *)

(* Mutant: a locked form takes any item from one who may override.         *)
AttachUnready(r, i, n, state, override) ==
    /\ Exists(i)
    /\ isLockedPilotForm(form) => override
    /\ Start(r, Insertion(i, state, n, {}, IF isLockedPilotForm(form) THEN item[i] ELSE NoItem))

(* A locked form takes an item only with an override, and only one that is *)
(* pilot-ready and was approved for the pilot.                             *)
attachInternalItemToForm(r, i, n, state, override) ==
    /\ Exists(i)
    /\ isLockedPilotForm(form) => override /\ PilotReady(item[i])
    /\ Start(r, Insertion(i, state, n, {}, IF isLockedPilotForm(form) THEN item[i] ELSE NoItem))

(* (The blueprint a form must meet to be locked may be met whenever there  *)
(* is an active mapping.  A reason that is not asked for changes nothing,  *)
(* so that one is given when it is asked for.)                             *)
updatePilotFormStatus(r, next, override) ==
    /\ next \in LockedPilotStatus => \E i \in Items : mapping[i].state = "ACTIVE"
    /\ override = (isLockedPilotForm(form) /\ form.status # next)
    /\ Start(r, [at |-> "pilot", next |-> next, read |-> form, override |-> override])

(* The lock that is kept is the one that was read.                         *)
WritePilotStatus(r) ==
    /\ At(r, "pilot")
    /\ form' = [status |-> req[r].next,
                locked |-> req[r].next \in LockedPilotStatus \/ req[r].read.locked]
    /\ Goto(r, Idle)
    /\ UNCHANGED <<item, mapping, moved, lost>>

-----------------------------------------------------------------------------
(* A request dies between two of its awaits.                               *)

Crash(r) ==
    /\ ~At(r, "idle")
    /\ lost' = lost \cup {i \in Items \ Mapped :
          req[r].at \in {"place", "insert"} /\ req[r].of = i /\ item[i].status = "ACTIVE"}
    /\ Goto(r, Idle)
    /\ UNCHANGED <<item, mapping, form, moved>>

Arrive(r) ==
    \/ \E i \in Items :
          \/ submitItemForReviewFromSectionAssignment(r, i)
          \/ \E decision \in Decisions : reviewAssignedSectionItem(r, i, decision)
          \/ \E n \in GivenPositions :
                \/ attachItemToForm(r, i, n)
                \/ \E state \in {"ACTIVE", "INACTIVE"}, override \in BOOLEAN :
                      attachInternalItemToForm(r, i, n, state, override)
    \/ \E i \in Handled :
          \/ \E review \in EnteredReviews \cup {"SAME"},
                psychometric \in EnteredPsychometrics \cup {"SAME"} :
                updateInternalDraftItem(r, i, review, psychometric)
          \/ \E next \in ItemStatus : updateInternalItemStatus(r, i, next)
          \/ activateInternalItem(r, i)
          \/ activateItem(r, i) \/ retireItem(r, i)
    \/ \E next \in EnteredPilots, override \in BOOLEAN :
          updatePilotFormStatus(r, next, override)

Continue(r) ==
    \/ WriteSubmission(r) \/ WriteDecision(r) \/ FindPosition(r)
    \/ InsertMapping(r) \/ UpdateMapping(r)
    \/ WriteEdit(r) \/ WriteStatus(r) \/ WritePilotStatus(r)

Next ==
    \/ \E r \in Requests : Arrive(r) \/ Continue(r) \/ Crash(r)
    \/ \E i \in Items :
          \/ createItemForSectionAssignment(i)
          \/ createItem(i)
          \/ \E review \in EnteredReviews, psychometric \in EnteredPsychometrics \cup {"OTHER"} :
                createInternalDraftItem(i, review, psychometric)
          \/ \E state \in {"ACTIVE", "INACTIVE"} : updateFormItemMappingStatus(i, state)

Spec == Init /\ [][Next]_vars

-----------------------------------------------------------------------------
(* What holds however requests overlap and crash.                          *)

(* An active item has a place in the form (which may have been made        *)
(* inactive by hand), or the request that gives it one is under way or     *)
(* died, or item-bank activated it, which asks for no place: an approval   *)
(* overtaken by another approval, a rejection or a retirement, or an       *)
(* activation that read an older mapping, leaves no active item unplaced.  *)
OnItsWay(i) == \E r \in Requests : req[r].at \in {"place", "insert"} /\ req[r].of = i
ActiveItemsArePlaced ==
    \A i \in Items : item[i].status = "ACTIVE" =>
        i \in Mapped \/ OnItsWay(i) \/ i \in lost

(* An item that was put at the end of the section comes after every item   *)
(* that was in the section then, active or not, unless one of the two was  *)
(* moved: equal positions come from overlapping approvals or from          *)
(* administrators, never from a choice that saw the other item.            *)
EndOfTheSection ==
    \A i \in Mapped : \A j \in mapping[i].after :
        {i, j} \cap moved = {} => mapping[j].order < mapping[i].order

(* What a locked form undergoes.  Its lock is lost, and its status changed *)
(* without a reason, only by a request that had read the form before it    *)
(* was what it is now.  It gets an item that is not fit for the pilot only *)
(* when the item changed after the check, when the form was open at the    *)
(* check, or from the assessments routes, which do not ask for the lock.   *)
LockedFormIsGoverned ==
    [][isLockedPilotForm(form) =>
        /\ form' # form => \E r \in Requests :
              /\ At(r, "pilot")
              /\ \/ req[r].read # form
                 \/ /\ form.locked => form'.locked
                    /\ form'.status # form.status => req[r].override
        /\ \A i \in Mapped' \ Mapped : \E r \in Requests :
              /\ At(r, "insert") /\ req[r].of = i
              /\ PilotReady(item[i]) \/ req[r].seen # item[i]]_vars

(* What the properties above need to be inductive.                         *)
LocalsAreSound(local) ==
    /\ local.at \in {"submit", "review", "place", "insert", "replace", "status", "edit"} =>
          Exists(local.of)
    /\ local.at = "replace" => local.of \in Mapped
    /\ local.at = "status" /\ local.next = "ACTIVE" => local.of \in Mapped
    /\ local.at = "insert" /\ local.seen # NoItem => PilotReady(local.seen)
    /\ local.at = "pilot" /\ isLockedPilotForm(local.read) /\ local.read.status # local.next =>
          local.override
    /\ local.at = "insert" => \A j \in local.after :
          j \in Mapped /\ (j \notin moved => mapping[j].order < local.order)
IndInv ==
    /\ TypeOK
    /\ ActiveItemsArePlaced
    /\ EndOfTheSection
    /\ \A i \in Mapped : Exists(i) /\ mapping[i].after \subseteq Mapped
    /\ \A r \in Requests : LocalsAreSound(req[r])
=============================================================================
