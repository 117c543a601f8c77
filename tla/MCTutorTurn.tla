---------------------------- MODULE MCTutorTurn ----------------------------
(***************************************************************************)
(* Instances of TutorTurn.  Each run varies one aspect of the turn and     *)
(* keeps the others at one or two representative values.                   *)
(***************************************************************************)
EXTENDS TutorTurn, TLC

CONSTANTS foundations, regression, grouping, linear, dropMissing, answer, hint, typo

MCConcepts == {grouping, linear}
MCExercises == {foundations, regression}
MCMisconceptions == {dropMissing}
MCOwnConcept == (foundations :> grouping) @@ (regression :> linear)
MCMisconceptionOf == dropMissing :> grouping
MCRelevant == (foundations :> {grouping}) @@ (regression :> {linear, grouping})

MCSnippets == {answer, hint, typo}

\* A study-mode chat request with nothing special about it.
Plain(stance) ==
    [stance |-> stance, teach |-> FALSE, ex |-> regression, solved |-> FALSE,
     repeated |-> FALSE, asks |-> FALSE, reflect |-> FALSE, distress |-> FALSE,
     spoke |-> TRUE, goals |-> "none", overlay |-> FALSE]

Prose(code, prose, rude) ==
    [code |-> code, prose |-> prose, rude |-> rude, redirect |-> FALSE]

PlainDraft ==
    [message |-> Prose({}, FALSE, FALSE), question |-> {}, conf |-> 80, example |-> None,
     mid |-> None]

\* ---- the reply: what the reasoner may write and the self-evaluation answer,
\* draft after draft
ReplyRequests ==
    {[Plain(s) EXCEPT !.asks = a] : s \in {"peer", "oracle"}, a \in BOOLEAN}
    \cup {[Plain("peer") EXCEPT !.teach = TRUE],
          [Plain("peer") EXCEPT !.distress = TRUE],
          [Plain("control") EXCEPT !.overlay = TRUE]}
ReplyReads ==
    {[affect |-> "curious", move |-> m] : m \in {"observe", "worked_analogy", "escalate", "invalid"}}
    \cup {[affect |-> a, move |-> "diagnose"] : a \in {"flow", "frustration"}}
ReplyDrafts ==
    {[PlainDraft EXCEPT !.message = m, !.example = x] :
        m \in {Prose({}, FALSE, FALSE), Prose({hint}, TRUE, FALSE),
               Prose({hint, answer}, FALSE, FALSE), Prose({hint}, FALSE, TRUE)},
        x \in {None, hint, answer, typo}}
ReplyEvals == [revise : BOOLEAN, conf : {20, 50, 90}]

\* ---- a learner with declared goals
GoalRequests == {[Plain("peer") EXCEPT !.goals = g] : g \in {"none", "honored"}}
GoalReads == {[affect |-> "curious", move |-> "co_reason"]}
GoalDrafts == {[PlainDraft EXCEPT !.mid = m] : m \in {None, dropMissing}}
GoalEvals == {[revise |-> FALSE, conf |-> 90]}
=============================================================================
