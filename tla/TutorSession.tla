---------------------------- MODULE TutorSession ----------------------------
(***************************************************************************)
(* A learner's tutor turns together with what the learner has told the     *)
(* tutor in their own words: goals and reflections (backend/app/agent/     *)
(* goals.py), the customization overlay (agent/overlay.py), the distress   *)
(* scan of what they write (agent/distress.py) and what of it the models   *)
(* are told to honor (agent/prompts.py).  Words outlive releases of the    *)
(* code: is_harmful may flag today what it let through when it was stored, *)
(* and the other way round.                                                *)
(*                                                                         *)
(* An intake is one step here, taken between two turns; LearnerStore and   *)
(* EphemeralStore take it apart and let it overlap with turns.  Timestamps *)
(* and the order of the reflections are left out.                          *)
(***************************************************************************)
EXTENDS TutorTurn

CONSTANTS
    Words,        \* what a learner may write
    Crisis,       \* the words has_distress_signal fires on
    Detectors,    \* the words is_harmful flags, release by release
    Vocabulary,   \* per knob of the overlay: the words it accepts, its default left out
    Overlays      \* the overlays clients send: a word or None for every knob

Knobs == DOMAIN Vocabulary
Spoken == Words \cup {None}

\* honored: the intake's verdict.  by: the detector that gave it (a history
\* value; only the verdict is stored).
Goals == [text: Spoken, honored: BOOLEAN, by: Detectors]
Reflection == [text: Spoken, goal: Spoken]
Field == [value: Spoken, raw: Spoken, honored: BOOLEAN]
Overlay == [Knobs -> Field]

\* A language code is one alphabetic word: no pattern of is_harmful matches one.
ASSUME SessionAssumption ==
    /\ None \notin Words /\ Crisis \subseteq Words
    /\ Detectors \subseteq SUBSET Words /\ Detectors # {}
    /\ Vocabulary \in [Knobs -> SUBSET Words]
    /\ Overlays \subseteq [Knobs -> Spoken]
    /\ "language" \in Knobs => \A d \in Detectors : Vocabulary["language"] \cap d = {}

VARIABLES
    detector,      \* what is_harmful flags in the release that is running
    goals,         \* LearnerState.goals: the artifact, or None
    reflections,   \* LearnerState.reflections
    overlay,       \* LearnerState.overlay: the artifact, or None
    told,          \* the learner's words in the payloads of the events stored
    intakes        \* number of intakes; MaxTurns bounds turns and intakes together

said == <<goals, reflections, overlay>>
session == <<vars, detector, said, told, intakes>>

-----------------------------------------------------------------------------
(* Intake.                                                                 *)

BadSuppressed(t) == DistressRouting /\ t \in Crisis \cap detector   \* scanned too late

\* The words are not kept: the scan comes before the wellbeing floor.
Suppressed(t) == DistressRouting /\ t \in Crisis

\* The artifact set_goals stores.
GoalsFrom(t) ==
    IF Suppressed(t) THEN [text |-> None, honored |-> FALSE, by |-> detector]
    ELSE [text |-> t, honored |-> t \notin detector, by |-> detector]

TextOf(g) == IF g = None THEN None ELSE g.text

\* What add_reflection stores, linked to the goals in force.
ReflectionFrom(t) ==
    IF Suppressed(t) THEN [text |-> None, goal |-> None]
    ELSE [text |-> t, goal |-> TextOf(goals)]

\* _normalize_field: a word the knob does not know, or a harmful one, falls back
\* to the default (None).
FieldFrom(k, raw) ==
    [value |-> IF raw \in Vocabulary[k] \ detector THEN raw ELSE None,
     raw |-> raw, honored |-> raw \notin detector]

\* normalize_overlay: an overlay that says nothing is none.
Normalize(o) ==
    IF \A k \in Knobs : o[k] = None THEN None ELSE [k \in Knobs |-> FieldFrom(k, o[k])]

\* The event's payload, unless the event is refused or lost (_emit swallows it).
Emitted(type, words) ==
    \/ type \notin RejectedTypes /\ told' = told \cup (words \ {None})
    \/ (type \in RejectedTypes \/ MayFail) /\ told' = told

Intake ==
    /\ pc \in Ended /\ turns + intakes < MaxTurns
    /\ intakes' = intakes + 1
    /\ UNCHANGED <<vars, detector>>

SetGoals(t) ==
    /\ Intake
    /\ goals' = GoalsFrom(t)
    /\ Emitted("goal_set", {goals'.text})
    /\ UNCHANGED <<reflections, overlay>>

ClearGoals ==
    /\ Intake
    /\ goals' = None
    /\ UNCHANGED <<reflections, overlay, told>>

AddReflection(t) ==
    /\ Intake
    /\ reflections' = reflections \cup {ReflectionFrom(t)}
    /\ Emitted("reflection_recorded", {ReflectionFrom(t).text, ReflectionFrom(t).goal})
    /\ UNCHANGED <<goals, overlay>>

\* overlay_set names the declined fields only.
SetOverlay(o) ==
    /\ Intake
    /\ overlay' = Normalize(o)
    /\ UNCHANGED <<goals, reflections, told>>

-----------------------------------------------------------------------------
(* The turn.                                                               *)

BadStanding(stance) ==   \* any goals count as honored
    IF stance = "control" \/ goals = None THEN "none" ELSE "honored"

\* What a turn makes of the goals it finds: control does not look at them.
Standing(stance) ==
    CASE stance = "control" \/ goals = None -> "none"
      [] stance # "control" /\ goals # None /\ goals.honored -> "honored"
      [] OTHER -> "declined"

\* The overlay the request carries is stored before the context is built.
Begin(r) ==
    /\ Accept(r) /\ turns + intakes < MaxTurns
    /\ \/ r.overlay /\ \E o \in Overlays : overlay' = Normalize(o)
       \/ ~r.overlay /\ UNCHANGED overlay
    /\ r.goals = Standing(r.stance)
    /\ UNCHANGED <<detector, goals, reflections, told, intakes>>

\* The stored events that quote the goals: goal_alignment_check and reflect.
Quoted ==
    IF pc = "trace" /\ pending' # pending
       /\ Head(pending) \in {"goal_alignment_check", "reflect"}
    THEN {TextOf(goals)} \ {None} ELSE {}

Proceed ==
    /\ Serve
    /\ told' = told \cup Quoted
    /\ UNCHANGED <<detector, said, intakes>>

\* Another release starts with the rows the last one left.
Release(d) ==
    /\ pc \in Ended /\ detector' = d
    /\ UNCHANGED <<vars, said, told, intakes>>

SessionInit ==
    /\ Init
    /\ detector \in Detectors
    /\ goals = None /\ reflections = {} /\ overlay = None
    /\ told = {} /\ intakes = 0

SessionNext ==
    \/ \E t \in Words : SetGoals(t) \/ AddReflection(t)
    \/ ClearGoals
    \/ \E o \in Overlays : SetOverlay(o)
    \/ \E r \in Requests : Begin(r)
    \/ Proceed
    \/ \E d \in Detectors : Release(d)

SessionSpec == SessionInit /\ [][SessionNext]_session

-----------------------------------------------------------------------------
(* What the models are told (prompts.py).                                  *)

BadRequestsHarm(g) == ~g.honored   \* trusts the stored verdict

\* _requests_harm: the verdict at intake, and a fresh one.
RequestsHarm(g) == ~g.honored \/ g.text \in detector

\* _goals_block, and the criterion of _selfeval_goal_block (honor only).
GoalsFraming(g) ==
    CASE TextOf(g) = None -> "none"
      [] TextOf(g) # None /\ RequestsHarm(g) -> "decline"
      [] OTHER -> "honor"

\* _overlay_lines: the knobs whose phrase is in the prompt.  The line about the
\* language is added without a second look.
Adopted(o) ==
    {k \in Knobs : /\ o[k].value # None /\ o[k].honored
                   /\ o[k].raw \notin detector \/ k = "language"}

-----------------------------------------------------------------------------
(* Properties.                                                             *)

\* What the session adds to the turn's types.
SessionTypeInv ==
    /\ detector \in Detectors
    /\ goals \in Goals \cup {None}
    /\ reflections \subseteq Reflection
    /\ overlay \in Overlay \cup {None}
    /\ told \subseteq Words
    /\ intakes \in Nat

Tutoring == pc \in {"routing", "drafting", "loop", "example"}
            /\ req.stance # "control" /\ ~WantsSupport

\* No prompt asks a model to honor words that the release that stored them or the
\* release that is running takes for a request to harm the learner, whichever
\* detector was the better one (prompts.py:279, "regardless of how confident the
\* intake detector was"; prompts.py:375).
HarmIsNeverHonored ==
    Tutoring =>
        /\ GoalsFraming(goals) = "honor" =>
              goals.text \notin detector \cup goals.by
        /\ overlay # None =>
              \A k \in Adopted(overlay) :
                overlay[k].honored /\ overlay[k].raw \notin detector

\* With routing on, a distress signal in a message goes to a human and traces nothing
\* but that, and one in a message, a goal or a reflection stays in neither the
\* learner's record nor any stored event, through intakes and turns in any order
\* (distress.py:12-16; the overlay is not scanned).
DistressLeavesNoWords ==
    DistressRouting =>
        /\ DistressIsRouted
        /\ TextOf(goals) \notin Crisis
        /\ \A r \in reflections : r.text \notin Crisis /\ r.goal \notin Crisis
        /\ told \cap Crisis = {}

\* A turn that has nothing left but to answer has traced a goal_alignment_check
\* when, and only when, its prompts asked the models to honor the goals: what a
\* study counts as goal alignment is about goals the tutor was given
\* (orchestrator.py:514, self_eval.py:27).  Goals that another release judged are
\* the exception: the event goes by the stored verdict alone.
AlignmentIsOfHonoredGoals ==
    /\ pc = "trace" /\ pending = <<>> /\ ~WantsSupport /\ req.stance # "control"
    /\ goals # None => goals.by = detector
    =>
        (Traced("goal_alignment_check") <=> GoalsFraming(goals) = "honor")
=============================================================================
