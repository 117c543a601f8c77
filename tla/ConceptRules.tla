---------------------------- MODULE ConceptRules ----------------------------
(***************************************************************************)
(* The deterministic rules of the persistent learner model, as operators:  *)
(* backend/app/agent/learner_model.py (update_concepts, due_review), the   *)
(* taxonomy edges they read (core/domain/types.py) and the tag merge of    *)
(* backend/app/store/repository.py (merge_memory).                         *)
(*                                                                         *)
(* A concept map is a function from concept ids to an entry or Absent.     *)
(* Timestamps (last_seen, last_review) are left out: no rule reads them.   *)
(***************************************************************************)
EXTENDS Naturals

CONSTANTS
    Concepts,          \* concept ids of the taxonomy
    Exercises,         \* exercise ids of the curriculum
    Misconceptions,    \* misconception ids the taxonomy maps
    OwnConcept,        \* exercise -> its concept, or None
    MisconceptionOf,   \* misconception -> its concept
    Relevant,          \* exercise -> concepts that matter on it
    None,              \* Python's None
    Absent             \* "no entry under this key"

ASSUME ConceptAssumption ==
    /\ OwnConcept \in [Exercises -> Concepts \cup {None}]
    /\ MisconceptionOf \in [Misconceptions -> Concepts]
    /\ Relevant \in [Exercises -> SUBSET Concepts]
    /\ None \notin Concepts \cup Exercises \cup Misconceptions

ASSUME AbsentAssumption == Absent \notin
    [state: {"shaky", "grasped"}, evidence: Nat, reviewEx: Exercises \cup {None}]

Entry == [state: {"shaky", "grasped"}, evidence: Nat, reviewEx: Exercises \cup {None}]

ConceptMap == [Concepts -> Entry \cup {Absent}]

\* What a turn observes: the arguments of update_concepts.
Signal == [ex: Exercises, met: BOOLEAN, mid: Misconceptions \cup {None},
           repeated: BOOLEAN, revisit: Concepts \cup {None}]

EmptyMap == [c \in Concepts |-> Absent]

DefaultEntry == [state |-> "shaky", evidence |-> 0, reviewEx |-> None]

\* concepts.get(c, _default_entry(now))
EntryOf(m, c) == IF m[c] = Absent THEN DefaultEntry ELSE m[c]

\* Faulty variants.  An operator whose name starts with Bad is not part of the
\* model: it is the next operator with a plausible slip, kept to confirm that
\* the properties notice the slip.
BadFirm(entry) == entry.state = "grasped" /\ entry.evidence > 2

\* The "grasped sticks" guard.
Firm(entry) == entry.state = "grasped" /\ entry.evidence >= 2

-----------------------------------------------------------------------------
(* The five rules of update_concepts, in the order the code applies them.  *)

\* Rule 1: touch the exercise's own concept.
Touch(m, ex) ==
    LET own == OwnConcept[ex] IN
    IF own = None THEN m
    ELSE [m EXCEPT ![own] =
            [EntryOf(m, own) EXCEPT !.evidence = EntryOf(m, own).evidence + 1]]

\* Rule 2: a met goal makes the own concept grasped (it exists after Touch).
Solve(m, ex, met) ==
    LET own == OwnConcept[ex] IN
    IF met /\ own # None THEN [m EXCEPT ![own] = [@ EXCEPT !.state = "grasped"]] ELSE m

BadMisconceive(m, mid) ==   \* the guard is dropped
    IF mid = None THEN m
    ELSE [m EXCEPT ![MisconceptionOf[mid]] =
            [EntryOf(m, MisconceptionOf[mid]) EXCEPT !.state = "shaky"]]

\* Rule 3: a misconception makes its concept shaky unless it is firmly grasped.
\* A concept seen for the first time starts with evidence 1.
Misconceive(m, mid) ==
    IF mid = None THEN m
    ELSE LET c == MisconceptionOf[mid] IN
         IF Firm(EntryOf(m, c)) THEN m
         ELSE [m EXCEPT ![c] =
                 [EntryOf(m, c) EXCEPT
                    !.state = "shaky",
                    !.evidence = IF m[c] = Absent THEN 1 ELSE EntryOf(m, c).evidence]]

BadRepeat(m, ex, repeated, met) ==   \* the guard is dropped
    LET own == OwnConcept[ex] IN
    IF repeated /\ ~met /\ own # None
    THEN [m EXCEPT ![own] = [EntryOf(m, own) EXCEPT !.state = "shaky"]]
    ELSE m

\* Rule 4: a repeated error without a solve makes the own concept shaky,
\* under the same guard.
Repeat(m, ex, repeated, met) ==
    LET own == OwnConcept[ex] IN
    IF repeated /\ ~met /\ own # None /\ ~Firm(EntryOf(m, own))
    THEN [m EXCEPT ![own] = [EntryOf(m, own) EXCEPT !.state = "shaky"]]
    ELSE m

\* Rule 5: a revisit stamps the concept with this exercise, if it is known.
Review(m, ex, revisit) ==
    IF revisit # None /\ m[revisit] # Absent
    THEN [m EXCEPT ![revisit] = [EntryOf(m, revisit) EXCEPT !.reviewEx = ex]]
    ELSE m

UpdateConcepts(m, ex, met, mid, repeated, revisit) ==
    Review(Repeat(Misconceive(Solve(Touch(m, ex), ex, met), mid), ex, repeated, met),
           ex, revisit)

BadDueReview(m, ex) ==   \* forgets the spacing
    {c \in Relevant[ex] : m[c] # Absent /\ m[c].state = "shaky"}

\* Concepts due for a spaced revisit on ex. The code returns them in the order
\* of a frozenset, so whichever comes first is any member of this set.
DueReview(m, ex) ==
    {c \in Relevant[ex] :
        /\ m[c] # Absent
        /\ m[c].state = "shaky"
        /\ m[c].reviewEx # ex}

-----------------------------------------------------------------------------
(* merge_memory over the reasoner's free-text tags (order abstracted).     *)

MergeGrasped(tags, grasped) == tags.grasped \cup grasped

MergeShaky(tags, grasped, shaky) ==
    (tags.shaky \cup shaky) \ MergeGrasped(tags, grasped)

MergeMemory(tags, grasped, shaky) ==
    [grasped |-> MergeGrasped(tags, grasped), shaky |-> MergeShaky(tags, grasped, shaky)]
=============================================================================
