-------------------------- MODULE ItemReviewProofs --------------------------
(* Proofs about ItemReview, for any number of items and overlapping         *)
(* requests and any positions that administrators may enter.                *)
EXTENDS ItemReview, TLAPS

(* The part of the invariant that is about the rows alone ...               *)
RowTypes ==
    /\ item \in [Items -> Item]
    /\ mapping \in [Items -> Mapping]
    /\ form \in Form
    /\ moved \in SUBSET Items
    /\ lost \in SUBSET Items
RowsInv ==
    /\ RowTypes
    /\ EndOfTheSection
    /\ \A i \in Mapped : Exists(i) /\ mapping[i].after \subseteq Mapped

(* ... and the part about the slots.                                        *)
SlotsInv ==
    /\ req \in [Requests -> Request]
    /\ \A r \in Requests : LocalsAreSound(req[r])

(* The invariant in three parts, before and after a step.                   *)
LEMMA Parts == IndInv <=> RowsInv /\ SlotsInv /\ ActiveItemsArePlaced
BY DEF IndInv, RowsInv, SlotsInv, TypeOK, RowTypes

LEMMA NextParts == RowsInv' /\ SlotsInv' /\ ActiveItemsArePlaced' => IndInv'
BY DEF IndInv, RowsInv, SlotsInv, TypeOK, RowTypes

(* What the slots hold.                                                     *)
LEMMA SlotFields ==
    ASSUME NEW local \in Request
    PROVE  /\ local.at \in {"submit", "review", "place", "insert", "replace", "status", "edit"} =>
                  local.of \in Items
           /\ local.at = "review" => local.decision \in Decisions
           /\ local.at = "insert" => /\ local.state \in {"ACTIVE", "INACTIVE"}
                                     /\ local.order \in Nat
                                     /\ local.after \in SUBSET Items
                                     /\ local.seen \in Item
           /\ local.at = "replace" => local.order \in Nat
           /\ local.at = "status" => local.next \in ItemStatus
           /\ local.at = "edit" =>
                  /\ local.review \in ItemReviewStatus \cup {"SAME"}
                  /\ local.psychometric \in PsychometricItemStatus \cup {"SAME"}
           /\ local.at = "pilot" => /\ local.next \in PilotFormStatus /\ local.read \in Form
                                    /\ local.override \in BOOLEAN
BY DEF Request, Idle

(* A row that exists has all its fields.                                    *)
LEMMA ItemFields ==
    ASSUME RowTypes, NEW i \in Items, Exists(i)
    PROVE  item[i] \in [status : ItemStatus, review : ItemReviewStatus,
                     psychometric : PsychometricItemStatus]
BY DEF RowTypes, Item, NoItem, Exists

LEMMA MappingFields ==
    ASSUME RowTypes, NEW i \in Mapped
    PROVE  /\ i \in Items
           /\ mapping[i] \in [state : {"ACTIVE", "INACTIVE"}, order : Nat, after : SUBSET Items]
BY DEF RowTypes, Mapping, NoMapping, Mapped

(* The initial state satisfies the invariant.                               *)
LEMMA InitInv == Init => IndInv
<1> SUFFICES ASSUME Init PROVE IndInv
  OBVIOUS
<1>1. NoItem \in Item /\ NoMapping \in Mapping /\ Idle \in Request
  BY DEF Item, Mapping, Request
<1>2. RowTypes
  BY <1>1, PilotsAssumption DEF Init, RowTypes, Form
<1>3. Mapped = {}
  BY DEF Init, Mapped, NoMapping
<1>4. RowsInv
  BY <1>2, <1>3 DEF RowsInv, EndOfTheSection
<1>5. SlotsInv
  BY <1>1 DEF Init, SlotsInv, LocalsAreSound, Idle
<1>6. ActiveItemsArePlaced
  BY DEF Init, ActiveItemsArePlaced, NoItem
<1> QED BY <1>4, <1>5, <1>6, Parts

-----------------------------------------------------------------------------
(* No step deletes an item or a mapping, or changes a position without     *)
(* counting the item as moved.                                              *)
Keeps ==
    /\ \A i \in Items : Exists(i) => Exists(i)'
    /\ moved \subseteq moved'
    /\ \A i \in Mapped :
          /\ i \in Mapped'
          /\ mapping'[i].after = mapping[i].after
          /\ i \notin moved' => mapping'[i].order = mapping[i].order

(* What a waiting request relies on survives such steps.                    *)
LEMMA StaysSound ==
    ASSUME Keeps, NEW local \in Request, LocalsAreSound(local)
    PROVE  LocalsAreSound(local)'
BY SlotFields DEF LocalsAreSound, Keeps

LEMMA SlotStep ==
    ASSUME SlotsInv, Keeps, NEW r \in Requests, NEW next \in Request, Goto(r, next),
           LocalsAreSound(next)'
    PROVE  SlotsInv'
<1>1. req' \in [Requests -> Request]
  BY DEF SlotsInv, Goto
<1>2. ASSUME NEW q \in Requests PROVE LocalsAreSound(req[q])'
  <2>1. CASE q = r
    BY <2>1 DEF SlotsInv, Goto
  <2>2. CASE q # r
    <3>1. PICK local \in Request : req[q] = local
      BY DEF SlotsInv
    <3>2. req'[q] = local /\ LocalsAreSound(local)
      BY <2>2, <3>1 DEF SlotsInv, Goto
    <3>3. LocalsAreSound(local)'
      BY <3>2, StaysSound
    <3> QED BY <3>2, <3>3
  <2> QED BY <2>1, <2>2
<1> QED BY <1>1, <1>2 DEF SlotsInv

LEMMA SlotsStay ==
    ASSUME SlotsInv, Keeps, UNCHANGED req
    PROVE  SlotsInv'
<1>1. ASSUME NEW q \in Requests PROVE LocalsAreSound(req[q])'
  <2>1. PICK local \in Request : req[q] = local
    BY DEF SlotsInv
  <2>2. LocalsAreSound(local)
    BY <2>1 DEF SlotsInv
  <2>3. LocalsAreSound(local)'
    BY <2>2, StaysSound
  <2> QED BY <2>1, <2>3
<1> QED BY <1>1 DEF SlotsInv

(* The items and mappings being as they were, so is what is said of them.   *)
LEMMA QuietRows ==
    ASSUME RowsInv, UNCHANGED <<item, mapping, moved>>, form' \in Form,
           lost' \in SUBSET Items
    PROVE  RowsInv' /\ Keeps
<1>1. Mapped' = Mapped /\ \A i \in Items : Exists(i)' = Exists(i)
  BY DEF Mapped, Exists
<1>2. RowTypes'
  BY DEF RowsInv, RowTypes
<1>3. EndOfTheSection'
  BY <1>1 DEF RowsInv, EndOfTheSection
<1>4. \A i \in Mapped' : Exists(i)' /\ mapping'[i].after \subseteq Mapped'
  BY <1>1 DEF RowsInv, Mapped
<1>5. Keeps
  BY <1>1 DEF Keeps
<1> QED BY <1>2, <1>3, <1>4, <1>5 DEF RowsInv

(* A change of one item's row.                                              *)
LEMMA ItemRows ==
    ASSUME RowsInv, NEW i \in Items, NEW row \in Item, row.status # "NONE",
           item' = [item EXCEPT ![i] = row], lost' \in SUBSET Items,
           UNCHANGED <<mapping, form, moved>>
    PROVE  RowsInv' /\ Keeps
<1>1. item' \in [Items -> Item]
  BY DEF RowsInv, RowTypes
<1>2. Mapped' = Mapped
  BY DEF Mapped
<1>3. \A k \in Items : Exists(k) => Exists(k)'
  BY DEF Exists, RowsInv, RowTypes
<1>4. Mapped \subseteq Items
  BY DEF Mapped
<1> QED BY <1>1, <1>2, <1>3, <1>4 DEF RowsInv, RowTypes, EndOfTheSection, Keeps

(* A change of the mapping of one item.                                     *)
LEMMA MappingRows ==
    ASSUME RowsInv, NEW i \in Items, Exists(i), NEW new \in Mapping, new.state # "NONE",
           mapping' = [mapping EXCEPT ![i] = new],
           UNCHANGED <<item, form>>, moved \subseteq moved', moved' \in SUBSET Items,
           lost' \in SUBSET Items,
           i \in Mapped => /\ new.after = mapping[i].after
                           /\ i \notin moved' => new.order = mapping[i].order,
           i \notin Mapped => \A j \in new.after :
               j \in Mapped /\ (j \notin moved => mapping[j].order < new.order)
    PROVE  RowsInv' /\ Keeps /\ Mapped' = Mapped \cup {i}
<1>1. mapping \in [Items -> Mapping] /\ Mapped \subseteq Items
  BY DEF RowsInv, RowTypes, Mapped
<1>2. Mapped' = Mapped \cup {i}
  BY <1>1 DEF Mapped
<1>3. \A k \in Items : mapping'[k] = IF k = i THEN new ELSE mapping[k]
  BY <1>1
<1>4. \A k \in Items : Exists(k)' = Exists(k)
  BY DEF Exists
<1>5. RowTypes'
  BY <1>1 DEF RowsInv, RowTypes
<1>6. \A k \in Mapped : mapping[k].after \subseteq Mapped /\ Exists(k)
  BY DEF RowsInv
<1>7. new.after \subseteq Mapped
  <2>1. CASE i \in Mapped
    BY <1>6, <2>1
  <2>2. CASE i \notin Mapped
    BY <2>2
  <2> QED BY <2>1, <2>2
<1>8. Keeps
  BY <1>1, <1>2, <1>3, <1>4 DEF Keeps
<1>9. EndOfTheSection'
  <2>1. SUFFICES ASSUME NEW k \in Mapped', NEW j \in mapping'[k].after,
                        {k, j} \cap moved' = {}
                 PROVE  mapping'[j].order < mapping'[k].order
    BY DEF EndOfTheSection
  <2>2. {k, j} \cap moved = {} /\ k \in Items
    BY <1>1, <1>2, <2>1
  <2>3. j \in Mapped
    BY <1>2, <1>3, <1>6, <1>7, <2>1, <2>2
  <2>4. mapping'[j].order = mapping[j].order
    BY <1>8, <2>1, <2>3 DEF Keeps
  <2>5. CASE k \in Mapped
    <3>1. mapping'[k].order = mapping[k].order /\ mapping'[k].after = mapping[k].after
      BY <1>8, <2>1, <2>5 DEF Keeps
    <3> QED BY <2>1, <2>2, <2>4, <2>5, <3>1 DEF RowsInv, EndOfTheSection
  <2>6. CASE k \notin Mapped
    BY <1>2, <1>3, <2>1, <2>2, <2>4, <2>6
  <2> QED BY <2>5, <2>6
<1>10. \A k \in Mapped' : Exists(k)' /\ mapping'[k].after \subseteq Mapped'
  BY <1>1, <1>2, <1>3, <1>4, <1>6, <1>7
<1> QED BY <1>2, <1>5, <1>8, <1>9, <1>10 DEF RowsInv

(* A request that is not about to place an item may do what it likes with   *)
(* its slot.                                                                *)
LEMMA StillOnItsWay ==
    ASSUME SlotsInv, NEW r \in Requests, NEW next, Goto(r, next),
           NEW i \in Items, OnItsWay(i),
           \/ req[r].at \notin {"place", "insert"}
           \/ req[r].of # i
           \/ next.at \in {"place", "insert"} /\ next.of = i
    PROVE  OnItsWay(i)'
<1>1. PICK q \in Requests : req[q].at \in {"place", "insert"} /\ req[q].of = i
  BY DEF OnItsWay
<1>2. CASE q = r
  BY <1>1, <1>2 DEF SlotsInv, Goto, OnItsWay
<1>3. CASE q # r
  BY <1>1, <1>3 DEF SlotsInv, Goto, OnItsWay
<1> QED BY <1>2, <1>3

-----------------------------------------------------------------------------
(* Requests that arrive.                                                    *)

LEMMA StartStep ==
    ASSUME IndInv, NEW r \in Requests, NEW next \in Request, Start(r, next),
           LocalsAreSound(next)
    PROVE  IndInv'
<1>1. RowsInv /\ SlotsInv /\ ActiveItemsArePlaced
  BY Parts
<1>2. RowsInv' /\ Keeps
  BY <1>1, QuietRows DEF Start, rows, RowsInv, RowTypes
<1>3. LocalsAreSound(next)'
  BY <1>2, StaysSound
<1>4. SlotsInv'
  BY <1>1, <1>2, <1>3, SlotStep DEF Start
<1>5. ActiveItemsArePlaced'
  <2>1. \A i \in Items : OnItsWay(i) => OnItsWay(i)'
    BY <1>1, StillOnItsWay DEF Start, At
  <2> QED BY <1>1, <2>1 DEF ActiveItemsArePlaced, Start, rows, Mapped
<1> QED BY <1>2, <1>4, <1>5, NextParts

(* The writes of item-bank are one step: an activation that finds no place  *)
(* counts the item as lost.                                                 *)
LEMMA BankSound ==
    ASSUME IndInv, NEW r \in Requests, NEW i \in Items, activateItem(r, i) \/ retireItem(r, i)
    PROVE  IndInv'
<1>1. RowsInv /\ RowTypes /\ SlotsInv /\ ActiveItemsArePlaced
  BY Parts DEF RowsInv
<1>2. Exists(i) /\ UNCHANGED <<mapping, form, moved, req>>
  BY DEF activateItem, retireItem
<1>3. PICK old \in [status : ItemStatus, review : ItemReviewStatus,
                    psychometric : PsychometricItemStatus] : item[i] = old
  BY <1>1, <1>2, ItemFields
<1>4. PICK status \in {"ACTIVE", "RETIRED"} : item' = [item EXCEPT ![i] = [old EXCEPT !.status = status]]
  BY <1>1, <1>3 DEF activateItem, retireItem, SetItem, RowTypes
<1> DEFINE row == [old EXCEPT !.status = status]
<1>5. row \in Item /\ row.status = status /\ item' = [item EXCEPT ![i] = row]
  BY <1>4 DEF Item, ItemStatus
<1>6. /\ lost' \in SUBSET Items /\ lost \ {i} \subseteq lost'
      /\ status = "ACTIVE" => i \in Mapped \/ i \in lost'
  <2>1. CASE activateItem(r, i)
    BY <1>1, <2>1 DEF activateItem, RowTypes
  <2>2. CASE retireItem(r, i)
    <3>1. item'[i].status = "RETIRED" /\ lost' \in {lost, lost \ {i}}
      BY <1>1, <1>3, <2>2 DEF retireItem, SetItem, RowTypes
    <3>2. status = "RETIRED"
      BY <1>1, <1>5, <3>1 DEF RowTypes
    <3> QED BY <1>1, <3>1, <3>2 DEF RowTypes
  <2> QED BY <2>1, <2>2
<1> HIDE DEF row
<1>7. RowsInv' /\ Keeps
  BY <1>1, <1>2, <1>5, <1>6, ItemRows
<1>8. SlotsInv'
  BY <1>1, <1>2, <1>7, SlotsStay
<1>9. Mapped' = Mapped /\ \A k \in Items : OnItsWay(k)' = OnItsWay(k)
  BY <1>2 DEF Mapped, OnItsWay
<1>10. ASSUME NEW k \in Items, item'[k].status = "ACTIVE"
       PROVE  k \in Mapped' \/ OnItsWay(k)' \/ k \in lost'
  <2>1. CASE k = i
    BY <1>1, <1>5, <1>6, <1>9, <1>10, <2>1 DEF RowTypes
  <2>2. CASE k # i
    BY <1>1, <1>5, <1>6, <1>9, <1>10, <2>2 DEF RowTypes, ActiveItemsArePlaced
  <2> QED BY <2>1, <2>2
<1> QED BY <1>7, <1>8, <1>10, NextParts DEF ActiveItemsArePlaced

LEMMA ArriveSound ==
    ASSUME IndInv, NEW r \in Requests, Arrive(r)
    PROVE  IndInv'
<1>0. RowsInv /\ SlotsInv
  BY Parts
<1>1. ASSUME NEW i \in Items, submitItemForReviewFromSectionAssignment(r, i) PROVE IndInv'
  <2> DEFINE next == [at |-> "submit", of |-> i]
  <2>1. next \in Request /\ LocalsAreSound(next) /\ Start(r, next)
    BY <1>1 DEF submitItemForReviewFromSectionAssignment, Request, LocalsAreSound
  <2> QED BY <2>1, StartStep
<1>2. ASSUME NEW i \in Items, NEW decision \in Decisions,
             reviewAssignedSectionItem(r, i, decision)
      PROVE  IndInv'
  <2> DEFINE next == [at |-> "review", of |-> i, decision |-> decision]
  <2>1. next \in Request /\ LocalsAreSound(next) /\ Start(r, next)
    BY <1>2 DEF reviewAssignedSectionItem, Request, LocalsAreSound
  <2> QED BY <2>1, StartStep
<1>3. ASSUME NEW i \in Items, NEW n \in GivenPositions, NEW state \in {"ACTIVE", "INACTIVE"},
             NEW seen \in Item, Exists(i), seen # NoItem => PilotReady(seen),
             Start(r, Insertion(i, state, n, {}, seen))
      PROVE  IndInv'
  <2>1. Insertion(i, state, n, {}, seen) \in Request
    BY <1>3, PositionsAssumption DEF Request, Insertion
  <2>2. LocalsAreSound(Insertion(i, state, n, {}, seen))
    BY <1>3 DEF Insertion, LocalsAreSound
  <2> QED BY <1>3, <2>1, <2>2, StartStep
<1>4. ASSUME NEW i \in Items, NEW review \in EnteredReviews \cup {"SAME"},
             NEW psychometric \in EnteredPsychometrics \cup {"SAME"},
             updateInternalDraftItem(r, i, review, psychometric)
      PROVE  IndInv'
  <2> DEFINE next == [at |-> "edit", of |-> i, review |-> review, psychometric |-> psychometric]
  <2>1. next \in Request
    BY ReviewsAssumption, PsychometricsAssumption DEF Request
  <2>2. LocalsAreSound(next) /\ Start(r, next)
    BY <1>4 DEF updateInternalDraftItem, LocalsAreSound
  <2> HIDE DEF next
  <2> QED BY <2>1, <2>2, StartStep
<1>5. ASSUME NEW i \in Items, NEW status \in ItemStatus, Exists(i),
             status = "ACTIVE" => mapping[i].state = "ACTIVE",
             Start(r, [at |-> "status", of |-> i, next |-> status])
      PROVE  IndInv'
  <2> DEFINE next == [at |-> "status", of |-> i, next |-> status]
  <2>1. status = "ACTIVE" => i \in Mapped
    BY <1>5 DEF Mapped
  <2>2. next \in Request /\ LocalsAreSound(next)
    BY <1>5, <2>1 DEF Request, LocalsAreSound
  <2> QED BY <1>5, <2>2, StartStep
<1>6. ASSUME NEW status \in EnteredPilots, NEW override \in BOOLEAN,
             updatePilotFormStatus(r, status, override)
      PROVE  IndInv'
  <2> DEFINE next == [at |-> "pilot", next |-> status, read |-> form, override |-> override]
  <2>1. next \in Request
    BY <1>0, PilotsAssumption DEF Request, RowsInv, RowTypes
  <2>2. Start(r, next) /\ override = (isLockedPilotForm(form) /\ form.status # status)
    BY <1>6 DEF updatePilotFormStatus
  <2>3. LocalsAreSound(next)
    BY <2>2 DEF LocalsAreSound
  <2> HIDE DEF next
  <2> QED BY <2>1, <2>2, <2>3, StartStep
<1>7. ASSUME NEW i \in Items, NEW n \in GivenPositions, attachItemToForm(r, i, n)
      PROVE  IndInv'
  <2>1. NoItem \in Item
    BY DEF Item
  <2> QED BY <1>3, <1>7, <2>1 DEF attachItemToForm
<1>8. ASSUME NEW i \in Items, NEW n \in GivenPositions, NEW state \in {"ACTIVE", "INACTIVE"},
             NEW override \in BOOLEAN, attachInternalItemToForm(r, i, n, state, override)
      PROVE  IndInv'
  <2> DEFINE seen == IF isLockedPilotForm(form) THEN item[i] ELSE NoItem
  <2>1. seen \in Item
    BY <1>0 DEF RowsInv, RowTypes, Item
  <2>2. /\ Exists(i) /\ (seen # NoItem => PilotReady(seen))
        /\ Start(r, Insertion(i, state, n, {}, seen))
    BY <1>8 DEF attachInternalItemToForm
  <2> HIDE DEF seen
  <2> QED BY <1>3, <2>1, <2>2
<1>9. ASSUME NEW i \in Items, NEW next \in ItemStatus, updateInternalItemStatus(r, i, next)
      PROVE  IndInv'
  BY <1>5, <1>9 DEF updateInternalItemStatus
<1>10. ASSUME NEW i \in Items, activateInternalItem(r, i) PROVE IndInv'
  BY <1>5, <1>10 DEF activateInternalItem, ItemStatus
<1>11. ASSUME NEW i \in Items, activateItem(r, i) \/ retireItem(r, i) PROVE IndInv'
  BY <1>11, BankSound
<1> QED BY <1>1, <1>2, <1>4, <1>6, <1>7, <1>8, <1>9, <1>10, <1>11, HandledAssumption DEF Arrive

-----------------------------------------------------------------------------
(* Requests that go on.                                                     *)

(* A write to the row of the request's item: the item it leaves ACTIVE has  *)
(* a place, or the request goes on to give it one.                          *)
LEMMA ItemWrite ==
    ASSUME IndInv, NEW r \in Requests, NEW i \in Items, req[r].of = i,
           req[r].at \notin {"place", "insert"},
           NEW row \in Item, row.status # "NONE", SetItem(i, row),
           UNCHANGED <<mapping, form, moved>>,
           NEW next \in Request, Goto(r, next), LocalsAreSound(next),
           \/ row.status # "ACTIVE" \/ item[i].status = "ACTIVE" \/ i \in Mapped
           \/ next.at = "place" /\ next.of = i
    PROVE  IndInv'
<1>1. RowsInv /\ SlotsInv /\ ActiveItemsArePlaced
  BY Parts
<1>0. item' = [item EXCEPT ![i] = row] /\ lost' \in SUBSET Items /\ lost \ {i} \subseteq lost'
  BY <1>1 DEF SetItem, RowsInv, RowTypes
<1>2. RowsInv' /\ Keeps
  BY <1>0, <1>1, ItemRows
<1>3. SlotsInv'
  BY <1>1, <1>2, StaysSound, SlotStep
<1>4. ASSUME NEW k \in Items, item'[k].status = "ACTIVE"
      PROVE  k \in Mapped' \/ OnItsWay(k)' \/ k \in lost'
  <2>1. Mapped' = Mapped
    BY DEF Mapped
  <2>2. OnItsWay(k) => OnItsWay(k)'
    BY <1>1, StillOnItsWay
  <2>3. CASE item[k].status = "ACTIVE"
    <3>1. k \in lost => k \in lost'
      BY <1>0, <1>1, <1>4 DEF SetItem, RowsInv, RowTypes
    <3> QED BY <1>1, <2>1, <2>2, <2>3, <3>1 DEF ActiveItemsArePlaced
  <2>4. CASE item[k].status # "ACTIVE" /\ k \in Mapped
    BY <2>1, <2>4
  <2>5. CASE item[k].status # "ACTIVE" /\ k \notin Mapped
    <3>1. k = i /\ next.at = "place" /\ next.of = i
      BY <1>1, <1>4, <2>5 DEF SetItem, RowsInv, RowTypes
    <3>2. req'[r] = next
      BY <1>1 DEF SlotsInv, Goto
    <3> QED BY <3>1, <3>2 DEF OnItsWay
  <2> QED BY <2>3, <2>4, <2>5
<1> QED BY <1>2, <1>3, <1>4, NextParts DEF ActiveItemsArePlaced

LEMMA ItemWrites ==
    ASSUME IndInv, NEW r \in Requests,
           WriteSubmission(r) \/ WriteDecision(r) \/ WriteEdit(r) \/ WriteStatus(r)
    PROVE  IndInv'
<1>1. RowsInv /\ RowTypes /\ SlotsInv
  BY Parts DEF RowsInv
<1>2. PICK local \in Request : req[r] = local
  BY <1>1 DEF SlotsInv
<1>3. LocalsAreSound(local)
  BY <1>1, <1>2 DEF SlotsInv
<1>4. local.at \in {"submit", "review", "edit", "status"}
  BY <1>2 DEF WriteSubmission, WriteDecision, WriteEdit, WriteStatus, At
<1>5. PICK i \in Items : local.of = i
  BY <1>4, SlotFields
<1>6. Exists(i)
  BY <1>3, <1>4, <1>5 DEF LocalsAreSound
<1>7. PICK old \in [status : ItemStatus, review : ItemReviewStatus,
                     psychometric : PsychometricItemStatus] :
          item[i] = old
  BY <1>1, <1>6, ItemFields
<1>8. Idle \in Request /\ LocalsAreSound(Idle)
  BY DEF Request, Idle, LocalsAreSound
<1>9. CASE WriteSubmission(r)
  <2> DEFINE row == [old EXCEPT !.status = "UNDER_REVIEW", !.review = "SUBMITTED_FOR_REVIEW",
                             !.psychometric = "OTHER"]
  <2>1. row \in Item /\ row.status = "UNDER_REVIEW"
    BY DEF Item, ItemStatus, ItemReviewStatus, PsychometricItemStatus
  <2>2. /\ SetItem(i, row) /\ Goto(r, Idle)
        /\ UNCHANGED <<mapping, form, moved>>
    BY <1>2, <1>5, <1>7, <1>9 DEF WriteSubmission
  <2> HIDE DEF row
  <2> QED BY <1>2, <1>4, <1>5, <1>8, <2>1, <2>2, ItemWrite
<1>10. CASE WriteEdit(r)
  <2> DEFINE row == [old EXCEPT !.review = Entered(local.review, @),
                                !.psychometric = Entered(local.psychometric, @)]
  <2>0. /\ Entered(local.review, old.review) \in ItemReviewStatus
        /\ Entered(local.psychometric, old.psychometric) \in PsychometricItemStatus
    <3>1. local.at = "edit"
      BY <1>2, <1>10 DEF WriteEdit, At
    <3> QED BY <3>1, SlotFields DEF Entered
  <2>1. row \in Item /\ row.status = old.status /\ old.status # "NONE"
    BY <2>0 DEF Item, ItemStatus
  <2>2. /\ SetItem(i, row) /\ Goto(r, Idle)
        /\ UNCHANGED <<mapping, form, moved>>
    BY <1>2, <1>5, <1>7, <1>10 DEF WriteEdit
  <2> HIDE DEF row
  <2> QED BY <1>2, <1>4, <1>5, <1>7, <1>8, <2>1, <2>2, ItemWrite
<1>11. CASE WriteStatus(r)
  <2> DEFINE row == [old EXCEPT !.status = local.next]
  <2>0. local.at = "status" /\ local.next \in ItemStatus
    BY <1>2, <1>11, SlotFields DEF WriteStatus, At
  <2>1. row \in Item /\ row.status = local.next /\ local.next # "NONE"
    BY <2>0 DEF Item, ItemStatus
  <2>2. /\ SetItem(i, row) /\ Goto(r, Idle)
        /\ UNCHANGED <<mapping, form, moved>>
    BY <1>2, <1>5, <1>7, <1>11 DEF WriteStatus
  <2>3. local.next = "ACTIVE" => i \in Mapped
    BY <1>3, <1>5, <2>0 DEF LocalsAreSound
  <2> HIDE DEF row
  <2> QED BY <1>2, <1>4, <1>5, <1>8, <2>1, <2>2, <2>3, ItemWrite
<1>12. CASE WriteDecision(r)
  <2> DEFINE row == Decided(old, local.decision)
             next == IF local.decision = "APPROVE" THEN [at |-> "place", of |-> i] ELSE Idle
  <2>0. local.at = "review" /\ local.decision \in Decisions
    BY <1>2, <1>12, SlotFields DEF WriteDecision, At
  <2>1. /\ row \in Item /\ row.status # "NONE"
        /\ row.status = "ACTIVE" => local.decision = "APPROVE" \/ old.status = "ACTIVE"
    <3>1. ASSUME NEW status \in ItemStatus, NEW review \in ItemReviewStatus,
                 row = Closed(old, status, review)
          PROVE  row \in Item /\ row.status = status
      BY <3>1 DEF Closed, Item, PsychometricItemStatus
    <3>2. CASE local.decision = "START"
      <4>1. row = [old EXCEPT !.review = "REVIEW_IN_PROGRESS"]
        BY <3>2 DEF Decided
      <4> QED BY <3>2, <4>1 DEF Item, ItemStatus, ItemReviewStatus
    <3>3. CASE local.decision = "REQUEST_CHANGES"
      <4>1. row = Closed(old, "DRAFT", "NOT_REVIEWED")
        BY <3>3 DEF Decided
      <4> QED BY <3>1, <3>3, <4>1 DEF ItemStatus, ItemReviewStatus
    <3>4. CASE local.decision = "REJECT"
      <4>1. row = Closed(old, "RETIRED", "REJECTED")
        BY <3>4 DEF Decided
      <4> QED BY <3>1, <3>4, <4>1 DEF ItemStatus, ItemReviewStatus
    <3>5. CASE local.decision = "APPROVE"
      <4>1. row = Closed(old, "ACTIVE", "APPROVED")
        BY <3>5 DEF Decided
      <4> QED BY <3>1, <3>5, <4>1 DEF ItemStatus, ItemReviewStatus
    <3>6. CASE local.decision = "APPROVE_INACTIVE"
      <4>1. row = Closed(old, "DRAFT", "APPROVED")
        BY <3>6 DEF Decided
      <4> QED BY <3>1, <3>6, <4>1 DEF ItemStatus, ItemReviewStatus
    <3> QED BY <2>0, <3>2, <3>3, <3>4, <3>5, <3>6 DEF Decisions
  <2>2. /\ SetItem(i, row) /\ Goto(r, next)
        /\ UNCHANGED <<mapping, form, moved>>
    BY <1>2, <1>5, <1>7, <1>12 DEF WriteDecision
  <2>3. next \in Request /\ LocalsAreSound(next)
    BY <1>6, <1>8 DEF Request, LocalsAreSound
  <2>4. local.decision = "APPROVE" => next.at = "place" /\ next.of = i
    OBVIOUS
  <2> HIDE DEF row, next
  <2> QED BY <1>2, <1>4, <1>5, <1>7, <2>1, <2>2, <2>3, <2>4, ItemWrite
<1> QED BY <1>9, <1>10, <1>11, <1>12

LEMMA FindPositionStep ==
    ASSUME IndInv, NEW r \in Requests, FindPosition(r)
    PROVE  IndInv'
<1>1. RowsInv /\ RowTypes /\ SlotsInv /\ ActiveItemsArePlaced
  BY Parts DEF RowsInv
<1>2. PICK local \in Request : req[r] = local
  BY <1>1 DEF SlotsInv
<1>3. local.at = "place" /\ LocalsAreSound(local)
  BY <1>1, <1>2 DEF SlotsInv, FindPosition, At
<1>4. PICK i \in Items : local.of = i
  BY <1>3, SlotFields
<1>5. Exists(i)
  BY <1>3, <1>4 DEF LocalsAreSound
<1>6. UNCHANGED <<item, mapping, form, moved, lost>> /\ RowsInv' /\ Keeps
  BY <1>1, QuietRows DEF FindPosition, rows, RowTypes
<1>7. Mapped' = Mapped /\ Mapped \subseteq Items
  BY <1>6 DEF Mapped
<1>8. ASSUME NEW next \in Request, Goto(r, next), LocalsAreSound(next),
             i \in Mapped \/ (next.at = "insert" /\ next.of = i)
      PROVE  IndInv'
  <2>1. SlotsInv'
    BY <1>1, <1>6, <1>8, StaysSound, SlotStep
  <2>2. ASSUME NEW k \in Items, item[k].status = "ACTIVE", k \notin Mapped, k \notin lost
        PROVE  OnItsWay(k)'
    <3>1. OnItsWay(k)
      BY <1>1, <2>2 DEF ActiveItemsArePlaced
    <3> QED BY <1>1, <1>2, <1>4, <1>8, <2>2, <3>1, StillOnItsWay
  <2>3. ActiveItemsArePlaced'
    BY <1>6, <1>7, <2>2 DEF ActiveItemsArePlaced
  <2> QED BY <1>6, <2>1, <2>3, NextParts
<1>9. ASSUME i \in Mapped, NEW n \in {mapping[i].order} \cup GivenPositions,
             Goto(r, [at |-> "replace", of |-> i, order |-> n])
      PROVE  IndInv'
  <2>1. n \in Nat
    BY <1>1, <1>9, MappingFields, PositionsAssumption
  <2>2. [at |-> "replace", of |-> i, order |-> n] \in Request
    BY <2>1 DEF Request
  <2>3. LocalsAreSound([at |-> "replace", of |-> i, order |-> n])
    BY <1>5, <1>9 DEF LocalsAreSound
  <2> QED BY <1>8, <1>9, <2>2, <2>3
<1>10. ASSUME NEW n \in Nat, NEW after \in SUBSET Mapped,
              \A j \in after : mapping[j].order < n,
              Goto(r, Insertion(i, "ACTIVE", n, after, NoItem))
       PROVE  IndInv'
  <2> DEFINE next == Insertion(i, "ACTIVE", n, after, NoItem)
  <2>1. next \in Request /\ next.at = "insert" /\ next.of = i
    BY <1>7 DEF Request, Insertion, Item
  <2>2. LocalsAreSound(next)
    BY <1>5, <1>10 DEF LocalsAreSound, Insertion
  <2> HIDE DEF next
  <2> QED BY <1>8, <1>10, <2>1, <2>2 DEF next
<1>11. ASSUME NEW n \in GivenPositions,
              Goto(r, Insertion(i, "ACTIVE", n, {}, NoItem))
       PROVE  IndInv'
  BY <1>10, <1>11, PositionsAssumption
<1>12. ASSUME NEW n \in {0} \cup {mapping[j].order + 1 : j \in Mapped},
              getNextFormSectionItemOrderIndex(n),
              Goto(r, Insertion(i, "ACTIVE", n, Mapped, NoItem))
       PROVE  IndInv'
  <2>1. n \in Nat
    BY <1>1, <1>12, MappingFields
  <2>2. \A j \in Mapped : mapping[j].order < n
    BY <1>12 DEF getNextFormSectionItemOrderIndex
  <2>3. PICK after \in SUBSET Mapped : after = Mapped
    OBVIOUS
  <2> QED BY <1>10, <1>12, <2>1, <2>2, <2>3
<1> QED BY <1>2, <1>4, <1>9, <1>11, <1>12 DEF FindPosition

(* A write to the mapping of an item that ends its request.                 *)
LEMMA MappingWrite ==
    ASSUME IndInv, NEW r \in Requests, NEW i \in Items, req[r].of = i,
           Goto(r, Idle), UNCHANGED <<item, form>>, RowsInv', Keeps,
           Mapped' = Mapped \cup {i}, lost' \in {lost, lost \ {i}}
    PROVE  IndInv'
<1>1. RowsInv /\ SlotsInv /\ ActiveItemsArePlaced
  BY Parts
<1>2. SlotsInv'
  BY <1>1, SlotStep DEF Request, Idle, LocalsAreSound
<1>3. ASSUME NEW k \in Items, item[k].status = "ACTIVE", k \notin Mapped \cup {i}
      PROVE  OnItsWay(k)' \/ k \in lost'
  BY <1>1, <1>3, StillOnItsWay DEF ActiveItemsArePlaced
<1> QED BY <1>2, <1>3, NextParts DEF ActiveItemsArePlaced

LEMMA MappingWrites ==
    ASSUME IndInv, NEW r \in Requests, InsertMapping(r) \/ UpdateMapping(r)
    PROVE  IndInv'
<1>1. RowsInv /\ RowTypes /\ SlotsInv /\ ActiveItemsArePlaced
  BY Parts DEF RowsInv
<1>2. PICK local \in Request : req[r] = local
  BY <1>1 DEF SlotsInv
<1>3. local.at \in {"insert", "replace"} /\ LocalsAreSound(local)
  BY <1>1, <1>2 DEF SlotsInv, InsertMapping, UpdateMapping, At
<1>4. PICK i \in Items : local.of = i
  BY <1>3, SlotFields
<1>5. Exists(i)
  BY <1>3, <1>4 DEF LocalsAreSound
<1>6. /\ UNCHANGED <<item, form>> /\ Goto(r, Idle) /\ Mapped \subseteq Items
      /\ mapping \in [Items -> Mapping]
  BY <1>1 DEF InsertMapping, UpdateMapping, Mapped, RowTypes
<1>7. CASE InsertMapping(r) /\ i \in Mapped
  <2>1. UNCHANGED <<item, mapping, moved, form, lost>>
    BY <1>2, <1>4, <1>7 DEF InsertMapping
  <2>2. RowsInv' /\ Keeps
    BY <1>1, <2>1, QuietRows DEF RowTypes
  <2>3. Mapped' = Mapped \cup {i}
    BY <1>7, <2>1 DEF Mapped
  <2> QED BY <1>2, <1>4, <1>6, <2>1, <2>2, <2>3, MappingWrite
<1>8. CASE InsertMapping(r) /\ i \notin Mapped
  <2> DEFINE new == [state |-> local.state, order |-> local.order, after |-> local.after]
  <2>1. local.at = "insert"
    BY <1>2, <1>8 DEF InsertMapping, At
  <2>2. new \in Mapping /\ new.state # "NONE"
    BY <2>1, SlotFields DEF Mapping
  <2>3. \A j \in new.after : j \in Mapped /\ (j \notin moved => mapping[j].order < new.order)
    BY <1>3, <2>1 DEF LocalsAreSound
  <2>4. mapping' = [mapping EXCEPT ![i] = new] /\ lost' = lost \ {i} /\ moved' = moved
    BY <1>2, <1>4, <1>8 DEF InsertMapping
  <2> HIDE DEF new
  <2>5. RowsInv' /\ Keeps /\ Mapped' = Mapped \cup {i}
    BY <1>1, <1>5, <1>6, <1>8, <2>2, <2>3, <2>4, MappingRows DEF RowTypes
  <2> QED BY <1>2, <1>4, <1>6, <2>4, <2>5, MappingWrite
<1>9. CASE UpdateMapping(r)
  <2>1. local.at = "replace" /\ local.order \in Nat
    BY <1>2, <1>9, SlotFields DEF UpdateMapping, At
  <2>2. i \in Mapped
    BY <1>3, <1>4, <2>1 DEF LocalsAreSound
  <2>3. PICK old \in [state : {"ACTIVE", "INACTIVE"}, order : Nat, after : SUBSET Items] :
            mapping[i] = old
    BY <1>1, <2>2, MappingFields
  <2> DEFINE new == [old EXCEPT !.state = "ACTIVE", !.order = local.order]
  <2>4. /\ new \in Mapping /\ new.state # "NONE" /\ new.after = old.after
        /\ new.order = local.order
    BY <2>1 DEF Mapping
  <2>5. mapping' = [mapping EXCEPT ![i] = new] /\ lost' = lost
    BY <1>2, <1>4, <1>6, <1>9, <2>3 DEF UpdateMapping
  <2>6. /\ moved \subseteq moved' /\ moved' \in SUBSET Items
        /\ i \notin moved' => local.order = old.order
    BY <1>1, <1>2, <1>4, <1>9, <2>3 DEF UpdateMapping, RowTypes
  <2> HIDE DEF new
  <2>7. RowsInv' /\ Keeps /\ Mapped' = Mapped \cup {i}
    BY <1>1, <1>5, <1>6, <2>2, <2>3, <2>4, <2>5, <2>6, MappingRows DEF RowTypes
  <2> QED BY <1>2, <1>4, <1>6, <2>5, <2>7, MappingWrite
<1> QED BY <1>7, <1>8, <1>9

(* The lock of the form, and a request that dies.                           *)
LEMMA SlotWrites ==
    ASSUME IndInv, NEW r \in Requests, WritePilotStatus(r) \/ Crash(r)
    PROVE  IndInv'
<1>1. RowsInv /\ RowTypes /\ SlotsInv /\ ActiveItemsArePlaced
  BY Parts DEF RowsInv
<1>2. PICK local \in Request : req[r] = local
  BY <1>1 DEF SlotsInv
<1>3. UNCHANGED <<item, mapping, moved>> /\ Goto(r, Idle)
  BY DEF WritePilotStatus, Crash
<1>4. Mapped' = Mapped
  BY <1>3 DEF Mapped
<1>5. lost \subseteq lost' /\ lost' \in SUBSET Items
  <2>1. local.at \in {"place", "insert"} => local.of \in Items
    BY SlotFields
  <2> QED BY <1>1, <1>2, <2>1 DEF WritePilotStatus, Crash, RowTypes
<1>6. form' \in Form
  <2>1. CASE WritePilotStatus(r)
    <3>1. local.at = "pilot"
      BY <1>2, <2>1 DEF WritePilotStatus, At
    <3>2. local.next \in PilotFormStatus /\ local.read.locked \in BOOLEAN
      BY <3>1, SlotFields DEF Form
    <3> QED BY <1>2, <2>1, <3>2 DEF WritePilotStatus, Form
  <2>2. CASE Crash(r)
    BY <1>1, <2>2 DEF Crash, RowTypes
  <2> QED BY <2>1, <2>2
<1>7. RowsInv' /\ Keeps
  BY <1>1, <1>3, <1>5, <1>6, QuietRows
<1>8. SlotsInv'
  BY <1>1, <1>3, <1>7, SlotStep DEF Request, Idle, LocalsAreSound
<1>9. ASSUME NEW k \in Items, item[k].status = "ACTIVE", k \notin Mapped, k \notin lost'
      PROVE  OnItsWay(k)'
  <2>1. OnItsWay(k)
    BY <1>1, <1>5, <1>9 DEF ActiveItemsArePlaced
  <2>2. req[r].at \notin {"place", "insert"} \/ req[r].of # k
    BY <1>9 DEF WritePilotStatus, Crash, At
  <2> QED BY <1>1, <1>3, <2>1, <2>2, StillOnItsWay
<1>10. ActiveItemsArePlaced'
  BY <1>3, <1>4, <1>9 DEF ActiveItemsArePlaced
<1> QED BY <1>7, <1>8, <1>10, NextParts

-----------------------------------------------------------------------------
(* Single statements.                                                       *)

Creation(i) ==
    \/ createItemForSectionAssignment(i)
    \/ createItem(i)
    \/ \E review \in EnteredReviews, psychometric \in EnteredPsychometrics \cup {"OTHER"} :
          createInternalDraftItem(i, review, psychometric)

LEMMA CreatedRow ==
    ASSUME NEW i \in Items, Creation(i)
    PROVE  /\ ~Exists(i) /\ UNCHANGED <<mapping, form, moved, req>>
           /\ \E review \in ItemReviewStatus, psychometric \in PsychometricItemStatus :
                 /\ assertPilotReady(psychometric, review)
                 /\ SetItem(i, Draft(review, psychometric))
<1>1. ~Exists(i) /\ UNCHANGED <<mapping, form, moved, req>>
  BY DEF Creation, createItemForSectionAssignment, createItem, createInternalDraftItem
<1>2. CASE createItemForSectionAssignment(i) \/ createItem(i)
  <2>1. /\ "NOT_REVIEWED" \in ItemReviewStatus /\ "OTHER" \in PsychometricItemStatus
        /\ assertPilotReady("OTHER", "NOT_REVIEWED")
        /\ SetItem(i, Draft("NOT_REVIEWED", "OTHER"))
    BY <1>2 DEF createItemForSectionAssignment, createItem, ItemReviewStatus,
       PsychometricItemStatus, assertPilotReady
  <2> QED BY <1>1, <2>1
<1>3. ASSUME NEW review \in EnteredReviews, NEW psychometric \in EnteredPsychometrics \cup {"OTHER"},
             createInternalDraftItem(i, review, psychometric)
      PROVE  /\ review \in ItemReviewStatus /\ psychometric \in PsychometricItemStatus
             /\ assertPilotReady(psychometric, review)
             /\ SetItem(i, Draft(review, psychometric))
  BY <1>3, ReviewsAssumption, PsychometricsAssumption DEF createInternalDraftItem,
     PsychometricItemStatus
<1> QED BY <1>1, <1>2, <1>3 DEF Creation

LEMMA CreateSound ==
    ASSUME IndInv, NEW i \in Items, Creation(i)
    PROVE  IndInv'
<1>1. RowsInv /\ SlotsInv /\ ActiveItemsArePlaced
  BY Parts
<1>2. PICK review \in ItemReviewStatus, psychometric \in PsychometricItemStatus :
          SetItem(i, Draft(review, psychometric))
  BY CreatedRow
<1> DEFINE row == Draft(review, psychometric)
<1>3. row \in Item /\ row.status = "DRAFT"
  BY DEF Item, ItemStatus, Draft
<1>4. UNCHANGED <<mapping, form, moved, req>> /\ ~Exists(i)
  BY CreatedRow
<1>5. SetItem(i, row)
  BY <1>2
<1> HIDE DEF row
<1>6. RowsInv' /\ Keeps
  BY <1>1, <1>3, <1>4, <1>5, ItemRows DEF SetItem, RowsInv, RowTypes
<1>7. SlotsInv'
  BY <1>1, <1>4, <1>6, SlotsStay
<1>8. ActiveItemsArePlaced'
  <2>1. \A k \in Items : item'[k].status = "ACTIVE" =>
            item[k].status = "ACTIVE" /\ (k \in lost => k \in lost')
    BY <1>1, <1>3, <1>5 DEF SetItem, RowsInv, RowTypes
  <2> QED BY <1>1, <1>4, <2>1 DEF ActiveItemsArePlaced, Mapped, OnItsWay
<1> QED BY <1>6, <1>7, <1>8, NextParts

LEMMA ToggleSound ==
    ASSUME IndInv, NEW i \in Items, NEW state \in {"ACTIVE", "INACTIVE"},
           updateFormItemMappingStatus(i, state)
    PROVE  IndInv'
<1>1. RowsInv /\ RowTypes /\ SlotsInv /\ ActiveItemsArePlaced
  BY Parts DEF RowsInv
<1>2. i \in Mapped /\ UNCHANGED <<item, form, moved, lost, req>>
  BY DEF updateFormItemMappingStatus
<1>3. PICK old \in [state : {"ACTIVE", "INACTIVE"}, order : Nat, after : SUBSET Items] :
          mapping[i] = old
  BY <1>1, <1>2, MappingFields
<1> DEFINE new == [old EXCEPT !.state = state]
<1>4. /\ new \in Mapping /\ new.state # "NONE" /\ new.after = old.after
      /\ new.order = old.order
  BY DEF Mapping
<1>5. mapping' = [mapping EXCEPT ![i] = new]
  BY <1>1, <1>3 DEF updateFormItemMappingStatus, RowTypes
<1>6. Exists(i)
  BY <1>1, <1>2 DEF RowsInv
<1> HIDE DEF new
<1>7. RowsInv' /\ Keeps /\ Mapped' = Mapped \cup {i}
  BY <1>1, <1>2, <1>3, <1>4, <1>5, <1>6, MappingRows DEF RowTypes
<1>8. SlotsInv'
  BY <1>1, <1>2, <1>7, SlotsStay
<1>9. ActiveItemsArePlaced'
  BY <1>1, <1>2, <1>7 DEF ActiveItemsArePlaced, OnItsWay
<1> QED BY <1>7, <1>8, <1>9, NextParts

LEMMA NextSound == IndInv /\ [Next]_vars => IndInv'
<1> SUFFICES ASSUME IndInv, [Next]_vars PROVE IndInv'
  OBVIOUS
<1>1. ASSUME NEW r \in Requests, Continue(r) PROVE IndInv'
  BY <1>1, ItemWrites, FindPositionStep, MappingWrites, SlotWrites DEF Continue
<1>2. ASSUME NEW r \in Requests, Crash(r) PROVE IndInv'
  BY <1>2, SlotWrites
<1>3. CASE UNCHANGED vars
  BY <1>3 DEF vars, IndInv, TypeOK, ActiveItemsArePlaced, EndOfTheSection, Mapped, Exists,
         OnItsWay, LocalsAreSound
<1> QED BY <1>1, <1>2, <1>3, ArriveSound, CreateSound, ToggleSound DEF Next, Creation

-----------------------------------------------------------------------------
(* What a request relies on at each of its awaits holds throughout, for any *)
(* number of overlapping requests and any crashes.                          *)
THEOREM Inductive == Spec => []IndInv
<1>1. Init => IndInv
  BY InitInv
<1>2. IndInv /\ [Next]_vars => IndInv'
  BY NextSound
<1> QED BY <1>1, <1>2, PTL DEF Spec

(* No active item is left without a place in the form, except by a request  *)
(* that died (assessments.service, approveAssignedSectionItem) or by        *)
(* item-bank.service, activateItem.                                         *)
THEOREM ActiveAndPlaced == Spec => []ActiveItemsArePlaced
<1>1. IndInv => ActiveItemsArePlaced
  BY DEF IndInv
<1> QED BY <1>1, Inductive, PTL

(* An item put at the end of the section stays behind all it was put behind *)
(* (assessments.service, getNextFormSectionItemOrderIndex).                 *)
THEOREM PlacedAtTheEnd == Spec => []EndOfTheSection
<1>1. IndInv => EndOfTheSection
  BY DEF IndInv
<1> QED BY <1>1, Inductive, PTL

(* The requests that go on without touching the form or the mappings.       *)
LEMMA OtherSteps ==
    ASSUME NEW r \in Requests,
           \/ Arrive(r) \/ Crash(r)
           \/ Continue(r) /\ ~WritePilotStatus(r) /\ ~InsertMapping(r) /\ ~UpdateMapping(r)
    PROVE  UNCHANGED <<form, mapping>>
<1>1. CASE Arrive(r)
  BY <1>1 DEF Arrive, Start, rows, submitItemForReviewFromSectionAssignment,
     reviewAssignedSectionItem, attachItemToForm, attachInternalItemToForm,
     updateInternalDraftItem, updateInternalItemStatus, activateInternalItem,
     updatePilotFormStatus, activateItem, retireItem
<1>2. CASE Crash(r)
  BY <1>2 DEF Crash
<1>3. CASE Continue(r) /\ ~WritePilotStatus(r) /\ ~InsertMapping(r) /\ ~UpdateMapping(r)
  BY <1>3 DEF Continue, WriteSubmission, WriteDecision, FindPosition, WriteEdit, WriteStatus,
     rows
<1> QED BY <1>1, <1>2, <1>3

(* The only step that changes the form.                                     *)
LEMMA LockStep ==
    ASSUME IndInv, [Next]_vars, isLockedPilotForm(form), form' # form
    PROVE  \E r \in Requests :
              /\ At(r, "pilot")
              /\ \/ req[r].read # form
                 \/ /\ form.locked => form'.locked
                    /\ form'.status # form.status => req[r].override
<1>1. PICK r \in Requests : WritePilotStatus(r)
  BY OtherSteps DEF Next, Continue, InsertMapping, UpdateMapping, vars, createItem,
     createItemForSectionAssignment, createInternalDraftItem, updateFormItemMappingStatus
<1>2. At(r, "pilot") /\ LocalsAreSound(req[r])
  BY <1>1 DEF WritePilotStatus, IndInv
<1>3. ASSUME req[r].read = form
      PROVE  (form.locked => form'.locked) /\ (form'.status # form.status => req[r].override)
  BY <1>1, <1>2, <1>3 DEF WritePilotStatus, At, LocalsAreSound
<1> QED BY <1>2, <1>3

(* The only step that gives the form an item.                               *)
LEMMA InsertionStep ==
    ASSUME IndInv, [Next]_vars, NEW i \in Mapped' \ Mapped
    PROVE  \E r \in Requests : /\ At(r, "insert") /\ req[r].of = i
                               /\ PilotReady(item[i]) \/ req[r].seen # item[i]
<1>0. mapping \in [Items -> Mapping] /\ i \in Items /\ mapping[i].state = "NONE"
  BY DEF IndInv, TypeOK, Mapped
<1>1. ASSUME NEW k \in Items, NEW state, updateFormItemMappingStatus(k, state) PROVE FALSE
  <2>1. k \in Mapped /\ mapping' = [mapping EXCEPT ![k].state = state]
    BY <1>1 DEF updateFormItemMappingStatus
  <2>2. i # k
    BY <2>1
  <2> QED BY <1>0, <2>1, <2>2 DEF Mapped
<1>2. ASSUME NEW r \in Requests, UpdateMapping(r) PROVE FALSE
  <2>1. req[r].of \in Mapped
    BY <1>2 DEF UpdateMapping, At, IndInv, LocalsAreSound
  <2>2. i # req[r].of
    BY <2>1
  <2> QED BY <1>0, <1>2, <2>2 DEF UpdateMapping, Mapped
<1>3. PICK r \in Requests : InsertMapping(r)
  BY <1>1, <1>2, OtherSteps DEF Next, Continue, WritePilotStatus, vars, createItem, Mapped,
     createItemForSectionAssignment, createInternalDraftItem
<1>4. At(r, "insert") /\ req[r].of = i
  BY <1>0, <1>3 DEF InsertMapping, Mapped
<1>5. PICK local \in Request : req[r] = local
  BY DEF IndInv, TypeOK
<1>6. local.at = "insert" /\ local.of = i /\ LocalsAreSound(local)
  BY <1>4, <1>5 DEF At, IndInv
<1>7. Exists(i) /\ (local.seen # NoItem => PilotReady(local.seen))
  BY <1>6 DEF LocalsAreSound
<1>8. item[i] # NoItem
  BY <1>7 DEF Exists, NoItem
<1> QED BY <1>4, <1>5, <1>7, <1>8

(* What a locked form undergoes was checked against the form and the item   *)
(* as they are, unless the request was overtaken or is one of the           *)
(* assessments routes (internal-tooling.service, updatePilotFormStatus and  *)
(* attachInternalItemToForm).                                               *)
THEOREM LockedFormGoverned == Spec => LockedFormIsGoverned
<1> DEFINE Governed ==
      isLockedPilotForm(form) =>
        /\ form' # form => \E r \in Requests :
              /\ At(r, "pilot")
              /\ \/ req[r].read # form
                 \/ /\ form.locked => form'.locked
                    /\ form'.status # form.status => req[r].override
        /\ \A i \in Mapped' \ Mapped : \E r \in Requests :
              /\ At(r, "insert") /\ req[r].of = i
              /\ PilotReady(item[i]) \/ req[r].seen # item[i]
<1>1. IndInv /\ [Next]_vars => [Governed]_vars
  BY LockStep, InsertionStep
<1>2. LockedFormIsGoverned <=> [][Governed]_vars
  BY PTL DEF LockedFormIsGoverned
<1> QED BY <1>1, <1>2, Inductive, PTL DEF Spec

-----------------------------------------------------------------------------
(* Requests that do not overlap: with one slot, what the request read of    *)
(* its item and of the form is still so when it writes.  (Creations and the *)
(* change of a mapping's status are single statements and come in between.) *)
OneSlot == \A q, r \in Requests : q = r

StillSo(q) ==
    /\ q.at = "pilot" => q.read = form
    /\ q.at = "submit" => item[q.of].status = "DRAFT"
    /\ q.at = "edit" =>
          /\ item[q.of].status = "DRAFT"
          /\ assertPilotReady(Entered(q.psychometric, item[q.of].psychometric),
                              Entered(q.review, item[q.of].review))
    /\ q.at = "review" => item[q.of].review \in UnderReview
    /\ q.at = "status" => item[q.of].status # "RETIRED"

SerialInv == IndInv /\ \A r \in Requests : StillSo(req[r])

(* The one request goes on, or is done.                                     *)
LEMMA SlotSerial ==
    ASSUME OneSlot, IndInv, IndInv', NEW r \in Requests, NEW next, Goto(r, next), StillSo(next)'
    PROVE  SerialInv'
<1>1. ASSUME NEW q \in Requests PROVE StillSo(req[q])'
  <2>1. req'[q] = next
    BY DEF OneSlot, Goto, IndInv, TypeOK
  <2> QED BY <2>1 DEF StillSo
<1> QED BY <1>1 DEF SerialInv

LEMMA DoneSerial ==
    ASSUME OneSlot, IndInv, IndInv', NEW r \in Requests, Goto(r, Idle)
    PROVE  SerialInv'
<1>1. StillSo(Idle)'
  BY DEF StillSo, Idle
<1> QED BY <1>1, SlotSerial

LEMMA ArriveSerial ==
    ASSUME OneSlot, IndInv, IndInv', NEW r \in Requests, Arrive(r)
    PROVE  SerialInv'
<1>1. ASSUME NEW next, Start(r, next), StillSo(next) PROVE SerialInv'
  BY <1>1, SlotSerial DEF Start, rows, StillSo
<1>2. ASSUME NEW i \in Items, submitItemForReviewFromSectionAssignment(r, i) PROVE SerialInv'
  BY <1>1, <1>2 DEF submitItemForReviewFromSectionAssignment, StillSo
<1>3. ASSUME NEW i \in Items, NEW decision, reviewAssignedSectionItem(r, i, decision)
      PROVE  SerialInv'
  BY <1>1, <1>3 DEF reviewAssignedSectionItem, StillSo, UnderReview
<1>4. ASSUME NEW i \in Items, NEW n, attachItemToForm(r, i, n) PROVE SerialInv'
  BY <1>1, <1>4 DEF attachItemToForm, StillSo, Insertion
<1>5. ASSUME NEW i \in Items, NEW n, NEW state, NEW override,
             attachInternalItemToForm(r, i, n, state, override)
      PROVE  SerialInv'
  BY <1>1, <1>5 DEF attachInternalItemToForm, StillSo, Insertion
<1>6. ASSUME NEW i \in Items, NEW review, NEW psychometric,
             updateInternalDraftItem(r, i, review, psychometric)
      PROVE  SerialInv'
  BY <1>1, <1>6 DEF updateInternalDraftItem, StillSo
<1>7. ASSUME NEW i \in Items, NEW next, updateInternalItemStatus(r, i, next) PROVE SerialInv'
  BY <1>1, <1>7 DEF updateInternalItemStatus, StillSo
<1>8. ASSUME NEW i \in Items, activateInternalItem(r, i) PROVE SerialInv'
  BY <1>1, <1>8 DEF activateInternalItem, StillSo
<1>9. ASSUME NEW next, NEW override, updatePilotFormStatus(r, next, override) PROVE SerialInv'
  BY <1>1, <1>9 DEF updatePilotFormStatus, StillSo
<1>10. ASSUME NEW i \in Items, activateItem(r, i) \/ retireItem(r, i) PROVE SerialInv'
  <2>1. \A q \in Requests : req'[q].at = "idle"
    BY <1>10 DEF OneSlot, activateItem, retireItem, At
  <2> QED BY <2>1 DEF SerialInv, StillSo
<1> QED BY <1>2, <1>3, <1>4, <1>5, <1>6, <1>7, <1>8, <1>9, <1>10, HandledAssumption DEF Arrive

(* A request that goes on after a step has nothing left to check.           *)
LEMMA ContinueSerial ==
    ASSUME OneSlot, IndInv, IndInv', NEW r \in Requests, Continue(r)
    PROVE  SerialInv'
<1>1. ASSUME NEW next, Goto(r, next), next.at \in {"place", "insert", "replace"}
      PROVE  SerialInv'
  BY <1>1, SlotSerial DEF StillSo
<1>2. CASE WriteDecision(r)
  <2>1. CASE req[r].decision = "APPROVE"
    BY <1>1, <1>2, <2>1 DEF WriteDecision
  <2>2. CASE req[r].decision # "APPROVE"
    BY <1>2, <2>2, DoneSerial DEF WriteDecision
  <2> QED BY <2>1, <2>2
<1>3. CASE FindPosition(r)
  BY <1>1, <1>3 DEF FindPosition, Insertion
<1>4. CASE \/ WriteSubmission(r) \/ InsertMapping(r) \/ UpdateMapping(r)
           \/ WriteEdit(r) \/ WriteStatus(r) \/ WritePilotStatus(r)
  BY <1>4, DoneSerial DEF WriteSubmission, InsertMapping, UpdateMapping, WriteEdit,
     WriteStatus, WritePilotStatus
<1> QED BY <1>2, <1>3, <1>4 DEF Continue

(* A new item is none that a request is about.                              *)
LEMMA CreateSerial ==
    ASSUME SerialInv, IndInv', NEW i \in Items, Creation(i)
    PROVE  SerialInv'
<1>0. /\ UNCHANGED <<req, form>> /\ ~Exists(i)
      /\ \A k \in Items : k # i => item'[k] = item[k]
  BY CreatedRow DEF SetItem, SerialInv, IndInv, TypeOK
<1>1. ASSUME NEW q \in Requests PROVE StillSo(req[q])'
  <2>1. PICK local \in Request : req[q] = local
    BY DEF SerialInv, IndInv, TypeOK
  <2>2. StillSo(local) /\ LocalsAreSound(local)
    BY <2>1 DEF SerialInv, IndInv
  <2>3. local.at \in {"submit", "edit", "review", "status"} =>
            local.of \in Items /\ local.of # i
    BY <1>0, <2>2, SlotFields DEF LocalsAreSound
  <2>4. StillSo(local)'
    BY <1>0, <2>2, <2>3 DEF StillSo
  <2> QED BY <1>0, <2>1, <2>4
<1> QED BY <1>1 DEF SerialInv

LEMMA SerialStep ==
    ASSUME OneSlot, SerialInv, [Next]_vars
    PROVE  SerialInv'
<1>1. IndInv /\ IndInv'
  BY NextSound DEF SerialInv
<1>2. ASSUME NEW r \in Requests, Crash(r) PROVE SerialInv'
  BY <1>1, <1>2, DoneSerial DEF Crash
<1>3. ASSUME UNCHANGED <<item, form, req>> PROVE SerialInv'
  BY <1>1, <1>3 DEF SerialInv, StillSo
<1>4. ASSUME NEW i \in Items, NEW state, updateFormItemMappingStatus(i, state) PROVE SerialInv'
  BY <1>3, <1>4 DEF updateFormItemMappingStatus
<1>5. CASE UNCHANGED vars
  BY <1>3, <1>5 DEF vars
<1> QED BY <1>1, <1>2, <1>4, <1>5, ArriveSerial, ContinueSerial, CreateSerial
    DEF Next, Creation

LEMMA SerialInit == Init => SerialInv
<1>1. ASSUME Init, NEW r \in Requests PROVE StillSo(req[r])
  BY <1>1 DEF Init, Idle, StillSo
<1> QED BY <1>1, InitInv DEF SerialInv

(* Requests that do not overlap never take isLocked from a form, and change *)
(* a locked form's status only with a platform admin's reason               *)
(* (updatePilotFormStatus).  A form that was created in a locking status    *)
(* has no isLocked to keep: a change of its status, with a reason, opens it.*)
THEOREM SerialLock ==
    ASSUME OneSlot
    PROVE  Spec => [][isLockedPilotForm(form) =>
                        /\ form.locked => form'.locked
                        /\ form'.status # form.status =>
                              \E r \in Requests : At(r, "pilot") /\ req[r].override]_vars
<1> DEFINE Kept ==
      isLockedPilotForm(form) =>
         /\ form.locked => form'.locked
         /\ form'.status # form.status =>
               \E r \in Requests : At(r, "pilot") /\ req[r].override
<1>1. SerialInv /\ [Next]_vars => SerialInv'
  BY SerialStep
<1>2. ASSUME SerialInv, [Next]_vars, isLockedPilotForm(form), form' # form
      PROVE  Kept
  <2>1. PICK r \in Requests : /\ At(r, "pilot")
                              /\ \/ req[r].read # form
                                 \/ /\ form.locked => form'.locked
                                    /\ form'.status # form.status => req[r].override
    BY <1>2, LockStep DEF SerialInv
  <2>2. req[r].read = form
    BY <1>2, <2>1 DEF SerialInv, StillSo, At
  <2> QED BY <2>1, <2>2
<1>3. SerialInv /\ [Next]_vars => [Kept]_vars
  BY <1>2
<1> QED BY <1>1, <1>3, SerialInit, PTL DEF Spec

(* Requests that do not overlap leave no item PILOT_READY without its       *)
(* approval for the pilot, whatever is edited, reviewed or submitted        *)
(* between (internal-tooling.service, assertPilotReadyItemMetadata).  Two   *)
(* edits that overlap can: each is checked against the row it read.         *)
ReadyIsApproved ==
    \A i \in Items : Exists(i) => assertPilotReady(item[i].psychometric, item[i].review)

LEMMA ReadyStep ==
    ASSUME SerialInv, ReadyIsApproved, [Next]_vars
    PROVE  ReadyIsApproved'
<1>0. /\ item \in [Items -> Item] /\ req \in [Requests -> Request]
      /\ \A r \in Requests : StillSo(req[r]) /\ LocalsAreSound(req[r])
  BY DEF SerialInv, IndInv, TypeOK
<1>1. ASSUME NEW k \in Items, NEW row, item' = [item EXCEPT ![k] = row],
             assertPilotReady(row.psychometric, row.review)
      PROVE  ReadyIsApproved'
  BY <1>0, <1>1 DEF ReadyIsApproved, Exists
<1>2. ASSUME item' = item PROVE ReadyIsApproved'
  BY <1>2 DEF ReadyIsApproved, Exists
<1>3. ASSUME NEW r \in Requests,
             WriteSubmission(r) \/ WriteDecision(r) \/ WriteEdit(r) \/ WriteStatus(r)
      PROVE  ReadyIsApproved'
  <2>1. PICK local \in Request : req[r] = local
    BY <1>0
  <2>2. /\ local.at \in {"submit", "review", "edit", "status"}
        /\ StillSo(local) /\ LocalsAreSound(local)
    BY <1>0, <1>3, <2>1 DEF WriteSubmission, WriteDecision, WriteEdit, WriteStatus, At
  <2>3. PICK k \in Items : local.of = k
    BY <2>2, SlotFields
  <2>4. Exists(k)
    BY <2>2, <2>3 DEF LocalsAreSound
  <2>5. PICK old \in [status : ItemStatus, review : ItemReviewStatus,
                      psychometric : PsychometricItemStatus] : item[k] = old
    BY <2>4, ItemFields DEF SerialInv, IndInv, TypeOK, RowTypes
  <2>6. assertPilotReady(old.psychometric, old.review)
    BY <2>4, <2>5 DEF ReadyIsApproved
  <2>7. CASE WriteSubmission(r)
    BY <1>1, <2>1, <2>3, <2>5, <2>7 DEF WriteSubmission, SetItem, assertPilotReady
  <2>8. CASE WriteStatus(r)
    BY <1>1, <2>1, <2>3, <2>5, <2>6, <2>8 DEF WriteStatus, SetItem
  <2>9. CASE WriteEdit(r)
    <3>1. local.at = "edit"
      BY <2>1, <2>9 DEF WriteEdit, At
    <3> DEFINE row == [old EXCEPT !.review = Entered(local.review, @),
                                  !.psychometric = Entered(local.psychometric, @)]
    <3>2. item' = [item EXCEPT ![k] = row]
      BY <2>1, <2>3, <2>5, <2>9 DEF WriteEdit, SetItem
    <3>3. assertPilotReady(row.psychometric, row.review)
      BY <2>2, <2>3, <2>5, <3>1 DEF StillSo
    <3> HIDE DEF row
    <3> QED BY <1>1, <3>2, <3>3
  <2>10. CASE WriteDecision(r)
    <3> DEFINE row == Decided(old, local.decision)
    <3>1. local.at = "review" /\ local.decision \in Decisions
      BY <2>1, <2>10, SlotFields DEF WriteDecision, At
    <3>2. item' = [item EXCEPT ![k] = row]
      BY <2>1, <2>3, <2>5, <2>10 DEF WriteDecision, SetItem
    <3>3. CASE local.decision = "START"
      <4>1. old.psychometric # "PILOT_READY"
        BY <2>2, <2>3, <2>5, <2>6, <3>1 DEF StillSo, UnderReview, assertPilotReady
      <4>2. row.psychometric = old.psychometric
        BY <3>3 DEF Decided
      <4>3. assertPilotReady(row.psychometric, row.review)
        BY <4>1, <4>2 DEF assertPilotReady
      <4> QED BY <1>1, <3>2, <4>3
    <3>4. CASE local.decision # "START"
      <4>1. PICK status, review : row = Closed(old, status, review)
        BY <3>1, <3>4 DEF Decided, Decisions
      <4>2. row.psychometric = "OTHER"
        BY <4>1 DEF Closed
      <4>3. assertPilotReady(row.psychometric, row.review)
        BY <4>2 DEF assertPilotReady
      <4> HIDE DEF row
      <4> QED BY <1>1, <3>2, <4>3
    <3> QED BY <3>3, <3>4
  <2> QED BY <1>3, <2>7, <2>8, <2>9, <2>10
<1>4. ASSUME NEW r \in Requests,
             \/ FindPosition(r) \/ InsertMapping(r) \/ UpdateMapping(r)
             \/ WritePilotStatus(r) \/ Crash(r)
      PROVE  item' = item
  BY <1>4 DEF FindPosition, InsertMapping, UpdateMapping, WritePilotStatus, Crash, rows
<1>5. ASSUME NEW r \in Requests, NEW k \in Items, activateItem(r, k) \/ retireItem(r, k)
      PROVE  ReadyIsApproved'
  <2>1. Exists(k)
    BY <1>5 DEF activateItem, retireItem
  <2>2. PICK old \in [status : ItemStatus, review : ItemReviewStatus,
                      psychometric : PsychometricItemStatus] : item[k] = old
    BY <2>1, ItemFields DEF SerialInv, IndInv, TypeOK, RowTypes
  <2>3. assertPilotReady(old.psychometric, old.review)
    BY <2>1, <2>2 DEF ReadyIsApproved
  <2>4. PICK status : item' = [item EXCEPT ![k] = [old EXCEPT !.status = status]]
    BY <1>0, <1>5, <2>2 DEF activateItem, retireItem, SetItem
  <2> QED BY <1>1, <2>3, <2>4
<1>6. ASSUME NEW r \in Requests, Arrive(r) PROVE ReadyIsApproved'
  BY <1>2, <1>5, <1>6, HandledAssumption DEF Arrive, Start, rows,
     submitItemForReviewFromSectionAssignment, reviewAssignedSectionItem, attachItemToForm,
     attachInternalItemToForm, updateInternalDraftItem, updateInternalItemStatus,
     activateInternalItem, updatePilotFormStatus
<1>7. ASSUME NEW k \in Items, Creation(k) PROVE ReadyIsApproved'
  <2>1. PICK review, psychometric : /\ assertPilotReady(psychometric, review)
                                    /\ SetItem(k, Draft(review, psychometric))
    BY <1>7, CreatedRow
  <2>2. /\ Draft(review, psychometric).psychometric = psychometric
        /\ Draft(review, psychometric).review = review
    BY DEF Draft
  <2> QED BY <1>1, <2>1, <2>2 DEF SetItem
<1>8. CASE UNCHANGED vars
  BY <1>2, <1>8 DEF vars
<1>9. ASSUME NEW k \in Items, NEW state, updateFormItemMappingStatus(k, state)
      PROVE  ReadyIsApproved'
  BY <1>2, <1>9 DEF updateFormItemMappingStatus
<1> QED BY <1>2, <1>3, <1>4, <1>6, <1>7, <1>8, <1>9 DEF Next, Continue, Creation

(* Without overlap the check of pilot readiness is never out of date        *)
(* (createInternalDraftItem, updateInternalDraftItem).                      *)
THEOREM SerialReadiness == ASSUME OneSlot PROVE Spec => []ReadyIsApproved
<1>1. SerialInv /\ [Next]_vars => SerialInv'
  BY SerialStep
<1>2. Init => ReadyIsApproved
  BY DEF Init, ReadyIsApproved, Exists, NoItem
<1>3. SerialInv /\ ReadyIsApproved /\ [Next]_vars => ReadyIsApproved'
  BY ReadyStep
<1> QED BY <1>1, <1>2, <1>3, SerialInit, PTL DEF Spec

(* Retirement and rejection are final for requests that do not overlap, but *)
(* for two holes: item-bank activates whatever exists, and an item that was *)
(* retired while it was under review is still up for review, as             *)
(* reviewAssignedSectionItem asks for the review status alone.              *)
RetiredForGood(i) == item[i].status = "RETIRED" /\ item[i].review \notin UnderReview
THEOREM SerialRetirement ==
    ASSUME OneSlot
    PROVE  Spec => [][\A i \in Items : RetiredForGood(i) /\ item'[i] # item[i] =>
                        \E r \in Requests : activateItem(r, i)]_vars
<1>1. SerialInv /\ [Next]_vars => SerialInv'
  BY SerialStep
<1>2. ASSUME SerialInv, [Next]_vars, NEW i \in Items, RetiredForGood(i), item'[i] # item[i]
      PROVE  \E r \in Requests : activateItem(r, i)
  <2>0. item \in [Items -> Item] /\ Exists(i)
    BY <1>2 DEF SerialInv, IndInv, TypeOK, RetiredForGood, Exists
  <2>1. ASSUME NEW r \in Requests, Crash(r) \/ (Arrive(r) /\ item' # item)
        PROVE  activateItem(r, i)
    <3>1. PICK k \in Items : activateItem(r, k) \/ retireItem(r, k)
      BY <1>2, <2>1, HandledAssumption DEF Arrive, Start, rows, Crash,
         submitItemForReviewFromSectionAssignment, reviewAssignedSectionItem,
         attachItemToForm, attachInternalItemToForm, updateInternalDraftItem,
         updateInternalItemStatus, activateInternalItem, updatePilotFormStatus
    <3>2. k = i
      BY <1>2, <2>0, <3>1 DEF activateItem, retireItem, SetItem
    <3>3. ~retireItem(r, i)
      <4>1. PICK old \in [status : ItemStatus, review : ItemReviewStatus,
                          psychometric : PsychometricItemStatus] : item[i] = old
        <5>1. RowTypes
          BY <1>2 DEF SerialInv, IndInv, TypeOK, RowTypes
        <5> QED BY <2>0, <5>1, ItemFields
      <4>2. old.status = "RETIRED"
        BY <1>2, <4>1 DEF RetiredForGood
      <4>3. [old EXCEPT !.status = "RETIRED"] = old
        BY <4>2
      <4> QED BY <1>2, <2>0, <4>1, <4>3 DEF retireItem, SetItem
    <3> QED BY <3>1, <3>2, <3>3
  <2>2. ASSUME NEW r \in Requests, Continue(r) PROVE item'[i] = item[i]
    <3>1. CASE \/ WriteSubmission(r) \/ WriteDecision(r) \/ WriteEdit(r) \/ WriteStatus(r)
      <4>1. req[r].of # i
        BY <1>2, <3>1 DEF SerialInv, StillSo, RetiredForGood, WriteSubmission, WriteDecision,
           WriteEdit, WriteStatus, At
      <4> QED BY <2>0, <3>1, <4>1 DEF SetItem, WriteSubmission, WriteDecision, WriteEdit,
               WriteStatus
    <3>2. CASE \/ FindPosition(r) \/ InsertMapping(r) \/ UpdateMapping(r)
               \/ WritePilotStatus(r)
      BY <3>2 DEF FindPosition, InsertMapping, UpdateMapping, WritePilotStatus, rows
    <3> QED BY <2>2, <3>1, <3>2 DEF Continue
  <2>3. ASSUME NEW k \in Items, Creation(k) PROVE item'[i] = item[i]
    BY <2>0, <2>3, CreatedRow DEF SetItem
  <2>4. CASE UNCHANGED vars
    BY <1>2, <2>4 DEF vars
  <2> QED BY <1>2, <2>1, <2>2, <2>3, <2>4 DEF Next, updateFormItemMappingStatus, Creation
<1>3. SerialInv /\ [Next]_vars =>
        [\A i \in Items : RetiredForGood(i) /\ item'[i] # item[i] =>
            \E r \in Requests : activateItem(r, i)]_vars
  BY <1>2
<1> QED BY <1>1, <1>3, SerialInit, PTL DEF Spec
=============================================================================
