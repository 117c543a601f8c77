------------------------- MODULE LearnerModelProofs -------------------------
(***************************************************************************)
(* Theorems about LearnerModel and the study that reads its turns          *)
(* (LearnerStudy), for every taxonomy and every bound.                     *)
(***************************************************************************)
EXTENDS LearnerStudy, ConceptRulesProofs

-----------------------------------------------------------------------------
(* The theorems.                                                           *)

\* The inductive invariant.
ModelInv == TypeInv /\ SolvesAreEvidence /\ TwoSolvesFirm

\* One update preserves the invariant and keeps every firm concept firm.
LEMMA UpdatePreserves ==
    ASSUME ModelInv, NEW s \in Signal,
           NEW grasped \in SUBSET Topics, NEW shaky \in SUBSET Topics,
           Update(s, grasped, shaky)
    PROVE  ModelInv' /\ FirmStaysStep
<1>1. concepts \in ConceptMap /\ solves \in [Concepts -> Nat] /\ tags \in Tags /\ turns \in Nat
  BY DEF ModelInv, TypeInv
<1>2. concepts' = UpdateConcepts(concepts, s.ex, s.met, s.mid, s.repeated, s.revisit)
  BY DEF Update
<1>3. /\ concepts' \in ConceptMap
      /\ Keeps(concepts, concepts')
      /\ \A c \in Concepts : s.met /\ OwnConcept[s.ex] = c =>
           /\ concepts'[c] # Absent
           /\ concepts'[c].evidence >= EntryOf(concepts, c).evidence + 1
           /\ EntryOf(concepts, c).evidence >= 1 => Firm(concepts'[c])
  BY <1>1, <1>2, UpdateRule
<1>4. \A c \in Concepts :
        solves'[c] = solves[c] + (IF s.met /\ OwnConcept[s.ex] = c THEN 1 ELSE 0)
  BY DEF Update
<1>5. TypeInv'
  <2>1. tags' \in Tags
    BY <1>1 DEF Update, Tags, MergeMemory, MergeGrasped, MergeShaky
  <2>2. signal' \in Signal \cup {None} /\ turns' \in Nat  BY <1>1 DEF Update
  <2>3. solves' \in [Concepts -> Nat]  BY <1>1 DEF Update
  <2>4. QED  BY <1>3, <2>1, <2>2, <2>3 DEF TypeInv
<1>6. ASSUME NEW c \in Concepts
      PROVE  /\ solves'[c] > 0 => concepts'[c] # Absent /\ concepts'[c].evidence >= solves'[c]
             /\ solves'[c] >= 2 => IsFirm(concepts', c)
             /\ IsFirm(concepts, c) => IsFirm(concepts', c)
  <2>1. solves[c] \in Nat  BY <1>1
  <2>2. /\ solves[c] > 0 => concepts[c] # Absent /\ concepts[c].evidence >= solves[c]
        /\ solves[c] >= 2 => IsFirm(concepts, c)
    BY DEF ModelInv, SolvesAreEvidence, TwoSolvesFirm
  <2>3. concepts[c] # Absent =>
          /\ concepts'[c] # Absent
          /\ concepts'[c].evidence >= concepts[c].evidence
          /\ Firm(concepts[c]) => Firm(concepts'[c])
    BY <1>3 DEF Keeps
  <2>4. /\ concepts[c] # Absent => concepts[c].evidence \in Nat
        /\ concepts'[c] # Absent => concepts'[c].evidence \in Nat
    BY <1>1, <1>3 DEF ConceptMap, Entry
  <2>5. IsFirm(concepts, c) => IsFirm(concepts', c)  BY <2>3 DEF IsFirm
  <2>6. CASE s.met /\ OwnConcept[s.ex] = c
    <3>1. solves'[c] = solves[c] + 1  BY <1>4, <2>6
    <3>2. EntryOf(concepts, c).evidence =
            IF concepts[c] = Absent THEN 0 ELSE concepts[c].evidence
      BY DEF EntryOf, DefaultEntry
    <3>3. /\ concepts'[c] # Absent
          /\ concepts'[c].evidence >= EntryOf(concepts, c).evidence + 1
          /\ EntryOf(concepts, c).evidence >= 1 => Firm(concepts'[c])
      BY <1>3, <2>6
    <3>4. solves[c] <= EntryOf(concepts, c).evidence
      <4>1. CASE solves[c] = 0
        <5>1. EntryOf(concepts, c).evidence \in Nat  BY <2>4, <3>2
        <5>2. QED  BY <4>1, <5>1
      <4>2. CASE solves[c] > 0
        <5>1. concepts[c] # Absent /\ concepts[c].evidence >= solves[c]  BY <4>2, <2>2
        <5>2. EntryOf(concepts, c).evidence = concepts[c].evidence  BY <5>1, <3>2
        <5>3. QED  BY <2>1, <2>4, <5>1, <5>2
      <4>3. QED  BY <2>1, <4>1, <4>2
    <3>5. EntryOf(concepts, c).evidence \in Nat  BY <2>4, <3>2
    <3>6. concepts'[c].evidence >= solves'[c]
      BY <2>1, <2>4, <3>1, <3>3, <3>4, <3>5
    <3>7. solves'[c] >= 2 => IsFirm(concepts', c)
      BY <2>1, <3>1, <3>3, <3>4, <3>5 DEF IsFirm
    <3>8. QED  BY <2>5, <3>3, <3>6, <3>7
  <2>7. CASE ~(s.met /\ OwnConcept[s.ex] = c)
    <3>1. solves'[c] = solves[c]  BY <1>4, <2>1, <2>7
    <3>2. QED  BY <2>1, <2>2, <2>3, <2>4, <2>5, <3>1
  <2>8. QED  BY <2>6, <2>7
<1>7. SolvesAreEvidence' /\ TwoSolvesFirm' /\ FirmStaysStep
  BY <1>6 DEF SolvesAreEvidence, TwoSolvesFirm, FirmStaysStep
<1>8. QED  BY <1>5, <1>7 DEF ModelInv

\* Every step of the specification does.
LEMMA StepPreserves == ModelInv /\ [Next]_vars => ModelInv' /\ [FirmStaysStep]_vars
<1> SUFFICES ASSUME ModelInv, [Next]_vars
             PROVE  ModelInv' /\ [FirmStaysStep]_vars
  OBVIOUS
<1>1. CASE Next
  <2>1. PICK s \in Signal, grasped \in SUBSET Topics, shaky \in SUBSET Topics :
            Update(s, grasped, shaky)
    BY <1>1 DEF Next
  <2>2. QED  BY <2>1, UpdatePreserves
<1>2. CASE UNCHANGED vars
  BY <1>2 DEF ModelInv, TypeInv, SolvesAreEvidence, TwoSolvesFirm, IsFirm, vars
<1>3. QED  BY <1>1, <1>2

\* The empty model satisfies the invariant.
LEMMA InitModelInv == Init => ModelInv
  BY DEF Init, ModelInv, TypeInv, SolvesAreEvidence, TwoSolvesFirm, EmptyMap,
         ConceptMap, Tags

\* The learner model stays well typed, whatever the tutor observes
\* (memory.update over learner_model.update_concepts).
THEOREM TypeCorrect == Spec => []TypeInv
<1>1. ModelInv => TypeInv  BY DEF ModelInv
<1>2. QED  BY InitModelInv, StepPreserves, <1>1, PTL DEF Spec

\* Two solves of a concept's own exercises make it firmly grasped for good,
\* whatever misconceptions and errors are observed around them.
THEOREM TwoSolvesSuffice == Spec => []TwoSolvesFirm
<1>1. ModelInv => TwoSolvesFirm  BY DEF ModelInv
<1>2. QED  BY InitModelInv, StepPreserves, <1>1, PTL DEF Spec

\* No turn takes a firmly grasped concept back.
THEOREM GraspedSticks == Spec => FirmStays
  BY InitModelInv, StepPreserves, PTL DEF Spec, FirmStays

\* What makes grasp stick on the concept's own exercise: it was earned by a touch.
GraspIsEarned == \A c \in Concepts : Grasped(concepts, c) => concepts[c].evidence >= 1

EarnedInv == ModelInv /\ GraspIsEarned

LEMMA UpdateEarned ==
    ASSUME EarnedInv, NEW s \in Signal,
           NEW grasped \in SUBSET Topics, NEW shaky \in SUBSET Topics,
           Update(s, grasped, shaky)
    PROVE  GraspIsEarned' /\ OwnExerciseKeepsGraspStep /\ ReviewIsSpacedStep
<1> DEFINE n == UpdateConcepts(concepts, s.ex, s.met, s.mid, s.repeated, s.revisit)
<1>1. concepts \in ConceptMap  BY DEF EarnedInv, ModelInv, TypeInv
<1>2. concepts' = n /\ signal' = s  BY DEF Update
<1>3. /\ n \in ConceptMap /\ Keeps(concepts, n)
      /\ \A c \in Concepts : s.met /\ OwnConcept[s.ex] = c =>
           n[c] # Absent /\ n[c].evidence >= EntryOf(concepts, c).evidence + 1
  BY <1>1, UpdateRule
<1>4. \A c \in Concepts :
        /\ concepts[c] # Absent =>
             n[c].reviewEx = IF c = s.revisit THEN s.ex ELSE concepts[c].reviewEx
        /\ Grasped(n, c) => Grasped(concepts, c) \/ (s.met /\ OwnConcept[s.ex] = c)
        /\ OwnConcept[s.ex] = c /\ Grasped(concepts, c) /\ concepts[c].evidence >= 1
             => Firm(n[c])
  BY <1>1, UpdateTames
<1>5. s.revisit # None => s.revisit \in DueReview(concepts, s.ex) /\ ~s.met
  BY DEF Update
<1> HIDE DEF n
<1>6. GraspIsEarned'
  <2> SUFFICES ASSUME NEW c \in Concepts, Grasped(n, c) PROVE n[c].evidence >= 1
    BY <1>2 DEF GraspIsEarned, Grasped
  <2>1. n[c].evidence \in Nat  BY <1>3 DEF Grasped, ConceptMap, Entry
  <2>2. CASE Grasped(concepts, c)
    <3>1. concepts[c] # Absent /\ concepts[c].evidence >= 1
      BY <2>2 DEF EarnedInv, GraspIsEarned, Grasped
    <3>2. concepts[c].evidence \in Nat  BY <1>1, <3>1 DEF ConceptMap, Entry
    <3>3. n[c].evidence >= concepts[c].evidence  BY <1>3, <3>1 DEF Keeps
    <3>4. QED  BY <2>1, <3>1, <3>2, <3>3
  <2>3. CASE s.met /\ OwnConcept[s.ex] = c
    <3>1. n[c].evidence >= EntryOf(concepts, c).evidence + 1  BY <1>3, <2>3
    <3>2. EntryOf(concepts, c) \in Entry  BY <1>1, EntryOfType
    <3>3. EntryOf(concepts, c).evidence \in Nat  BY <3>2 DEF Entry
    <3>4. QED  BY <2>1, <3>1, <3>3
  <2>4. QED  BY <1>4, <2>2, <2>3
<1>7. OwnExerciseKeepsGraspStep
  <2> SUFFICES ASSUME NEW c \in Concepts, Grasped(concepts, c), OwnConcept[s.ex] = c
               PROVE  Grasped(n, c)
    BY <1>2 DEF OwnExerciseKeepsGraspStep, IsGrasped, Grasped
  <2>1. concepts[c].evidence >= 1  BY DEF EarnedInv, GraspIsEarned
  <2>2. Firm(n[c])  BY <1>4, <2>1
  <2>3. n[c] # Absent  BY <1>3 DEF Keeps, Grasped
  <2>4. QED  BY <2>2, <2>3 DEF Firm, Grasped
<1>8. ReviewIsSpacedStep
  <2> SUFFICES ASSUME NEW c \in Concepts
               PROVE  /\ s.revisit = c => c \notin DueReview(n, s.ex) /\ ~Grasped(n, c)
                      /\ \A ex \in Exercises :
                           c \notin DueReview(concepts, ex) /\ c \in DueReview(n, ex) =>
                             \/ Grasped(concepts, c) \/ concepts[c] = Absent
                             \/ s.revisit = c /\ s.ex # ex
    BY <1>2 DEF ReviewIsSpacedStep, IsGrasped, Grasped
  <2>1. ASSUME s.revisit = c PROVE c \notin DueReview(n, s.ex) /\ ~Grasped(n, c)
    <3>1. c # None  BY ConceptAssumption
    <3>2. /\ concepts[c] # Absent /\ concepts[c].state = "shaky" /\ ~s.met
      BY <1>5, <2>1, <3>1 DEF DueReview
    <3>3. ~Grasped(n, c)  BY <1>4, <3>2 DEF Grasped
    <3>4. n[c].reviewEx = s.ex  BY <1>4, <2>1, <3>2
    <3>5. QED  BY <3>3, <3>4 DEF DueReview
  <2>2. ASSUME NEW ex \in Exercises, c \notin DueReview(concepts, ex), c \in DueReview(n, ex),
               ~Grasped(concepts, c), concepts[c] # Absent
        PROVE  s.revisit = c /\ s.ex # ex
    <3>1. c \in Relevant[ex] /\ n[c].reviewEx # ex  BY <2>2 DEF DueReview
    <3>2. concepts[c].state = "shaky"
      BY <1>1, <2>2 DEF Grasped, ConceptMap, Entry
    <3>3. concepts[c].reviewEx = ex  BY <2>2, <3>1, <3>2 DEF DueReview
    <3>4. QED  BY <1>4, <2>2, <3>1, <3>3
  <2>3. QED  BY <2>1, <2>2
<1>9. QED  BY <1>6, <1>7, <1>8

LEMMA StepEarned ==
    EarnedInv /\ [Next]_vars
      => EarnedInv' /\ [OwnExerciseKeepsGraspStep]_vars /\ [ReviewIsSpacedStep]_vars
<1> SUFFICES ASSUME EarnedInv, [Next]_vars
             PROVE  /\ EarnedInv' /\ [OwnExerciseKeepsGraspStep]_vars
                    /\ [ReviewIsSpacedStep]_vars
  OBVIOUS
<1>1. ModelInv'  BY StepPreserves DEF EarnedInv
<1>2. CASE Next
  <2>1. PICK s \in Signal, grasped \in SUBSET Topics, shaky \in SUBSET Topics :
            Update(s, grasped, shaky)
    BY <1>2 DEF Next
  <2>2. QED  BY <1>1, <2>1, UpdateEarned DEF EarnedInv
<1>3. CASE UNCHANGED vars
  <2>1. GraspIsEarned'  BY <1>3 DEF EarnedInv, GraspIsEarned, Grasped, vars
  <2>2. QED  BY <1>1, <1>3, <2>1 DEF EarnedInv
<1>4. QED  BY <1>2, <1>3

LEMMA InitEarned == Init => EarnedInv
  BY InitModelInv DEF Init, EmptyMap, EarnedInv, GraspIsEarned, Grasped

\* Rule 4 never takes back, on its own exercise, a concept that is grasped.
THEOREM OwnExerciseSticks == Spec => OwnExerciseKeepsGrasp
  BY InitEarned, StepEarned, PTL DEF Spec, OwnExerciseKeepsGrasp

\* A revisited concept is not due again on that exercise until it was revisited on
\* another one or grasped in between, and a revisit leaves it as shaky as it was.
THEOREM ReviewsAreSpaced == Spec => ReviewIsSpaced
  BY InitEarned, StepEarned, PTL DEF Spec, ReviewIsSpaced

-----------------------------------------------------------------------------
(* The study.                                                              *)

\* The strengthening: whatever is shaky now has been seen shaky, and whatever has
\* been seen shaky still has an entry.
SeenShaky ==
    /\ everShaky \subseteq Concepts
    /\ ShakyConcepts(concepts) \subseteq everShaky
    /\ \A c \in everShaky : concepts[c] # Absent
    /\ revisited \subseteq everShaky

StudyInv == ModelInv /\ SeenShaky

LEMMA InitStudyInv == StudyInit => StudyInv
<1> SUFFICES ASSUME StudyInit PROVE StudyInv
  OBVIOUS
<1>1. ModelInv  BY InitModelInv DEF StudyInit
<1>2. ShakyConcepts(concepts) = {}
  BY DEF StudyInit, Init, EmptyMap, ShakyConcepts
<1>3. QED  BY <1>1, <1>2 DEF StudyInv, SeenShaky, StudyInit

\* A revisited concept was due before the turn, so the telemetry of an earlier turn
\* had it shaky; no update removes an entry.
LEMMA StudyStepPreserves == StudyInv /\ [StudyNext]_study => StudyInv'
<1> SUFFICES ASSUME StudyInv, [StudyNext]_study
             PROVE  StudyInv'
  OBVIOUS
<1>1. CASE StudyNext
  <2>1. Next /\ Telemetry  BY <1>1 DEF StudyNext
  <2>2. ModelInv'  BY <2>1, StepPreserves DEF StudyInv
  <2>3. PICK s \in Signal, grasped \in SUBSET Topics, shaky \in SUBSET Topics :
            Update(s, grasped, shaky)
    BY <2>1 DEF Next
  <2>4. concepts \in ConceptMap  BY DEF StudyInv, ModelInv, TypeInv
  <2>5. Keeps(concepts, concepts')
    <3>1. concepts' = UpdateConcepts(concepts, s.ex, s.met, s.mid, s.repeated, s.revisit)
      BY <2>3 DEF Update
    <3>2. QED  BY <2>4, <3>1, UpdateRule
  <2>6. \A c \in everShaky : c \in Concepts /\ concepts[c] # Absent
    BY DEF StudyInv, SeenShaky
  <2>7. everShaky' = everShaky \cup ShakyConcepts(concepts')  BY <2>1 DEF Telemetry
  <2>8. \A c \in ShakyConcepts(concepts') : c \in Concepts /\ concepts'[c] # Absent
    BY DEF ShakyConcepts
  <2>9. \A c \in everShaky' : c \in Concepts /\ concepts'[c] # Absent
    BY <2>5, <2>6, <2>7, <2>8 DEF Keeps
  <2>10. revisited' \subseteq everShaky'
    <3>1. s.revisit # None => s.revisit \in everShaky
      <4>1. SUFFICES ASSUME s.revisit # None PROVE s.revisit \in everShaky
        OBVIOUS
      <4>2. s.revisit \in DueReview(concepts, s.ex)  BY <2>3, <4>1 DEF Update
      <4>3. s.revisit \in Concepts  BY <4>1 DEF Signal
      <4>4. s.revisit \in ShakyConcepts(concepts)
        BY <4>2, <4>3 DEF DueReview, ShakyConcepts
      <4>5. QED  BY <4>4 DEF StudyInv, SeenShaky
    <3>2. signal' = s  BY <2>3 DEF Update
    <3>3. revisited' = revisited \cup ({s.revisit} \ {None})  BY <2>1, <3>2 DEF Telemetry
    <3>4. revisited \subseteq everShaky  BY DEF StudyInv, SeenShaky
    <3>5. QED  BY <2>7, <3>1, <3>3, <3>4
  <2>11. (ShakyConcepts(concepts) \subseteq everShaky)'
    <3>1. ShakyConcepts(concepts)' = ShakyConcepts(concepts')  BY DEF ShakyConcepts
    <3>2. QED  BY <2>7, <3>1
  <2>12. QED  BY <2>2, <2>9, <2>10, <2>11 DEF StudyInv, SeenShaky
<1>2. CASE UNCHANGED study
  <2>1. UNCHANGED vars  BY <1>2 DEF study
  <2>2. ModelInv'  BY <2>1, StepPreserves DEF StudyInv
  <2>3. SeenShaky'
    BY <1>2 DEF StudyInv, SeenShaky, ShakyConcepts, study, vars
  <2>4. QED  BY <2>2, <2>3 DEF StudyInv
<1>3. QED  BY <1>1, <1>2

LEMMA SeenShakyIsComplete == StudyInv => ContrastIsComplete
<1> SUFFICES ASSUME StudyInv PROVE ContrastIsComplete
  OBVIOUS
<1>1. concepts \in ConceptMap  BY DEF StudyInv, ModelInv, TypeInv
<1>2. \A c \in Concepts :
        concepts[c] # Absent => concepts[c].state \in {"shaky", "grasped"}
  BY <1>1 DEF ConceptMap, Entry
<1>3. RevisitedWhileShaky = revisited
  BY DEF RevisitedWhileShaky, StudyInv, SeenShaky
<1>4. everShaky \ Resolved(everShaky) =
        {c \in Concepts : concepts[c] # Absent /\ concepts[c].state # "grasped"}
  <2>1. ASSUME NEW c
        PROVE  c \in everShaky \ Resolved(everShaky) <=>
               c \in Concepts /\ concepts[c] # Absent /\ concepts[c].state # "grasped"
    BY <1>2 DEF Resolved, GraspedEnd, IsGrasped, StudyInv, SeenShaky, ShakyConcepts
  <2>2. QED  BY <2>1
<1>5. QED  BY <1>3, <1>4 DEF ContrastIsComplete

\* The revisit contrast of section 5e is complete, however many turns the study
\* has (measures.py, compute_learner_model_measures).
THEOREM ContrastHolds == StudySpec => []ContrastIsComplete
  BY InitStudyInv, StudyStepPreserves, SeenShakyIsComplete, PTL DEF StudySpec

\* Telemetry only watches: a study's turns are turns of LearnerModel, so what is
\* proved of those holds in every study.
THEOREM StudyImplementsModel == StudySpec => Spec
<1>1. StudyInit => Init  BY DEF StudyInit
<1>2. [StudyNext]_study => [Next]_vars  BY DEF StudyNext, study
<1>3. QED  BY <1>1, <1>2, PTL DEF StudySpec, Spec
=============================================================================
