-------------------------- MODULE SessionContract --------------------------
(***************************************************************************)
(* What the API documents promise of one session, without handlers,        *)
(* requests or clocks: it starts once, takes answers until it closes,      *)
(* closes once, never changes after that, and is scored from the answers   *)
(* it closed with; the candidate hears of the outcome at most once.        *)
(* (docs/api/phase-6-api-contract.md, docs/phase-6-completion-checklist.md *)
(* and docs/phase-7-candidate-flow-qa.md.)                                 *)
(***************************************************************************)
CONSTANTS Items, Answers, NoAnswer

VARIABLES
    phase,         \* "NOT_STARTED", "IN_PROGRESS" or "COMPLETED"
    answers,       \* the candidate's answer per item
    scored,        \* the session has a score
    scoredAnswers, \* the answers the score stands for
    told           \* the candidate was told of the outcome

vars == <<phase, answers, scored, scoredAnswers, told>>

Init ==
    /\ phase = "NOT_STARTED"
    /\ answers = [i \in Items |-> NoAnswer]
    /\ scored = FALSE /\ scoredAnswers = [i \in {} |-> NoAnswer]
    /\ told = FALSE

Start ==
    /\ phase = "NOT_STARTED"
    /\ phase' = "IN_PROGRESS"
    /\ UNCHANGED <<answers, scored, scoredAnswers, told>>

(* "duplicate writes are handled through upsert/autosave logic"            *)
Answer(i, a) ==
    /\ phase # "COMPLETED"
    /\ answers' = [answers EXCEPT ![i] = a]
    /\ UNCHANGED <<phase, scored, scoredAnswers, told>>

Complete ==
    /\ phase # "COMPLETED"
    /\ phase' = "COMPLETED"
    /\ UNCHANGED <<answers, scored, scoredAnswers, told>>

(* "completed session can be scored", "scoring is deterministic for the    *)
(* same response set".  A score concerns some of the items, those that the *)
(* form still asks for, and at least one.                                  *)
Score(items) ==
    /\ phase = "COMPLETED"
    /\ scored' = TRUE
    /\ scoredAnswers' = [i \in items |-> answers[i]]
    /\ UNCHANGED <<phase, answers, told>>

Tell ==
    /\ phase = "COMPLETED" /\ ~told
    /\ told' = TRUE
    /\ UNCHANGED <<phase, answers, scored, scoredAnswers>>

Next ==
    \/ Start
    \/ \E i \in Items, a \in Answers : Answer(i, a)
    \/ Complete
    \/ \E items \in (SUBSET Items) \ {{}} : Score(items)
    \/ Tell

Spec == Init /\ [][Next]_vars
=============================================================================
