# Verification of the peer-tutor framework

TLA+ models of the tutoring backend (`src/backend/app`), the TLC runs that check
them on small instances, and TLAPS proofs of their main properties for every value
of the constants. Paths below are relative to `src/`.

Contents: 1 the system · 2 the modules and how they correspond to the code ·
3 the runs · 4 bounds · 5 fairness and deadlock · 6 what is proved ·
7 what is only model-checked · 8 where the code and its documentation disagree ·
9 what is not modelled · 10 plan.

## 1. The system: inventory

A FastAPI server tutors one student on one programming exercise at a time. A
*request* runs in a worker thread of a server process; several requests of one
student may be in flight, and several processes may serve one database (the
deployment of `backend/scripts/smoke_sql_http.md:75-90`). Models (LLMs) are called
over the network and may answer anything that fits the reply schema, or fail.

| Component (source) | State | Operations | Interacts with |
|---|---|---|---|
| Concept mastery rules (`agent/learner_model.py`, `store/repository.py` `merge_memory`) | none: functions on the concept map and the free-text tags | `update_concepts`, `due_review`, `merge_memory` | called by memory update and by the planner's context |
| Turn orchestration (`agent/orchestrator.py`) | the turn in progress: plan, draft, evaluation, loop counters | `run_turn`: overlay, distress, control, plan, draft, refine, escalate, example, gate, abstain, memory, events | everything below |
| Planner (`agent/planner.py`) | none | `plan`, `_rules_overlay`, `_coerce_move` | reads context, goals, due review |
| Governance gate (`agent/governance.py`, `agent/leak_profile.py`) | none | `check`, `safe_rewrite`, `soften_if_berating`, `screen_passages` | asks the leak oracle |
| Reasoner, self-evaluation (`agent/reasoner.py`, `agent/self_eval.py`) | none | one model call each, with clamps | LLM client |
| Distress routing (`agent/distress.py`) | none | scan, canned reply | before every other branch of a turn |
| Goals, reflections, overlay (`agent/goals.py`, `agent/overlay.py`) | columns of the learner's row | `set_goals`, `add_reflection`, `set_overlay` | learner store, trace |
| Memory update (`agent/memory.py`) | concept map and tags in the learner's row | `update` | rules, learner store |
| Learner store (`store/repository.py`, `store/models.py`) | `learner_state` rows and `events` (SqlStore), or dicts and lists of one process (InMemoryStore) | `get_learner_state`, `save_learner_state`, `append_event` | all handlers of one learner, concurrently |
| Consent routing (`store/consent.py`) | `participants` table; per process a consent cache and ephemeral stores | `register_participant`, `_lookup_consent`, `store_for` | every route |
| HTTP routes (`main.py`) | none | `/api/participant`, `/api/run`, `/api/sol/turn`, goals, reflections, overlay, reads | routing, orchestration, grader |
| Quad sidecar (`integrations/quad/`) | none of its own | registers its pseudonym on each request, then as above | routing; PII boundary |
| Leak evidence and grader (`packs/datascience/grader.py`, `pack.py`, `_harness.py`) | the harness's verdict | `grade`, `verify_worked_example`, `leak_evidence` | sandbox runner; gate, orchestration, `/api/run` |
| Sandboxed runner (`core/runner/`) | a child process | `run_code` under resource limits and a wall clock | grader |
| Research measures (`analysis/measures.py`) | none: functions of the trace | per-attempt and per-learner measures | reads the events |
| Context assembly (`agent/context.py`) | none | builds the models' context | store, retrieval |
| Retrieval (`knowledge/`) | a corpus and its index | ingest, search, screening | context |
| LLM clients, telemetry (`agent/llm.py`, `agent/telemetry.py`) | the turn's usage meter | `json` with one reformat retry; `record` | all model calls |
| Prompts, configuration, domain data, evals, scripts, front end | text, settings, data | — | — |

### What is hard, and what makes each part correct

* **The turn** is a pipeline in which later stages invalidate what earlier ones
  established: a regenerated worked example is evaluated after the escalation loop,
  abstention replaces the draft before the gate sees it, the softener replaces the
  message after the gate judged it, and the headline confidence is that of a draft
  which may be gone. Correct: no accepted solution in a peer message; every verdict
  true of the message that ships; an abstention always reaches the instructor;
  distress overrides everything; the loops end whatever the models answer.
* **Memory** is the sum of a long sequence of turns. Correct: two solves make a
  concept firmly grasped, nothing later undoes it, and a concept reviewed on an exercise is not offered for review there again.
* **The learner's row** is read, modified and written in three transactions with no
  lock and no version column; the in-memory store hands out the very dict it keeps.
  Correct: each operation changes its own part, once, in either store.
* **The learner's words** (goals, reflections, overlay) are judged when they are stored
  and used later, perhaps by another release. Correct: no prompt honors a request to be
  harmed, a distress signal's words are kept nowhere, goal alignment is traced for goals
  that were honored.
* **Model calls** of several turns run side by side; a call may need three completions.
  Correct: a reply reports its own turn's usage, and every call ends.
* **Consent** decides where a trace goes, by a table, caches in each process that
  are never invalidated, and a check-then-set. Correct: nothing is persisted without
  consent on record; consented work is kept; ephemeral stores are private.
* **Grading** runs untrusted programs in a child that may be killed at any point;
  absence of a verdict must be read the safe way by three callers with different
  ideas of "safe".
* **Retrieval** passes what may be restricted, badly credited or a solution through five
  filters (source, record, rank, look-up, screening), the last of which grades code once
  per passage. Correct: what enters the prompt has passed all of them, what is withheld
  was withheld for a reason, and every screening ends.
* **Measures** are loops over a trace that may still be growing.

Everything of this kind, at its line, is in `PROJECT.json` under `hazards`.

## 2. The modules

```
ConceptRules ---- LearnerModel ---- LearnerStudy  (EXTENDS)
      \                ^
       `-- TutorTurn --' refines (Model == INSTANCE LearnerModel)
               |
          TutorSession (EXTENDS: the turn, and the learner's words around it)

LearnerRecord <-- LearnerStore    refines (Record == INSTANCE LearnerRecord)
      ^                |
      |           EphemeralStore  (EXTENDS: the other store, the same operations)
      '----------------'  refines (Kept == INSTANCE LearnerRecord)
Grading ---- Retrieval            (EXTENDS: screening is grading)
                 |
            Subsequences ---- Measures ---- Floats   (EXTENDS: what a comprehension picks,
                                                      in order; what min returns)
ConsentRouting        ModelCalls
```

`MC*` modules give the constants of TLC's instances; `*Proofs` modules hold the
theorems. In the component modules a definition whose name starts with `Bad` is a
plausible mistake in the definition it precedes: substituted for it, each makes the
property it is paired with (in `PROJECT.json`, `mutants`) fail.

**ConceptRules** — `learner_model.py`. `Touch`, `Solve`, `Misconceive`, `Repeat`,
`Review` are the five rules of `update_concepts`, composed in the code's order by
`UpdateConcepts`; `DueReview` is `due_review`; `MergeMemory` is `merge_memory`. A
concept map is a function into an entry (state, evidence, exercise of the last
review) or `Absent`. Time stamps are left out: no rule reads them. No recursion, so
that it can be proved about.

**LearnerModel** — one learner's memory, turn after turn: `Update` is
`memory.update` with any arguments the pipeline may pass (a revisit only of a concept
that is due). `solves` is a history variable. It is also the abstract specification
for TutorTurn.

**LearnerStudy** — LearnerModel with what a study records of it: each turn's telemetry
names the shaky concepts of the updated map and the concept revisited
(`orchestrator.py:415-425`), and `compute_learner_model_measures` groups the concepts that
were ever shaky by whether they were revisited and whether they ended grasped.

**TutorTurn** — `orchestrator._run_turn` with planner, gate, memory and trace, one
action per stage:

| Action | Code (`agent/orchestrator.py` unless named) |
|---|---|
| `Accept` | the route; `set_overlay` when the request carries one |
| `DistressTurn` | the distress scan and short circuit |
| `ControlTurn` | the control stance: the standard message, no model call, no memory, a turn event |
| `PlanMove` | `planner.plan`: the model's answer, clamps, `_rules_overlay`, coercion |
| `FirstDraft`, `Refine`, `Escalate` | reasoner + self-evaluation, the loops over them |
| `RetryExample`, `ShowExample`, `WithholdExample` | verification and regeneration of a worked example |
| `Gate` | abstention, `governance.check`, `safe_rewrite`, `soften_if_berating`, headline confidence |
| `Remember` | `memory.update` |
| `AppendEvent`, `Answer` | the events, one transaction each, and the reply |
| `Fail` | an exception anywhere: an error answer, nothing rolled back |

A message is the set of code snippets the gate extracts plus three facts about its
prose: does it disclose, does it berate, does it carry the redirect. What the models
answer is an input of each action. The leak oracle is exact here (`Solving`); module
Grading says when that is so.

**TutorSession** — TutorTurn between the intakes of `goals.py` and `overlay.py`, with what
of the learner's words is stored, traced and put into prompts:

| Action or operator | Code |
|---|---|
| `SetGoals`, `ClearGoals` | `goals.set_goals`: distress scan, then the wellbeing floor (`is_harmful`); the event |
| `AddReflection` | `goals.add_reflection`: the same scan, the link to the goals in force |
| `SetOverlay`, `FieldFrom` | `overlay.set_overlay`, `_normalize_field`: vocabulary and floor per knob |
| `Begin` | `Accept`, with the overlay the request carries stored first; what the goals it finds mean to the turn |
| `Proceed` | any later step of the turn, with the events that quote the goals |
| `Release` | other code starts on the same rows: `is_harmful` may judge the same words otherwise |
| `RequestsHarm`, `GoalsFraming`, `Adopted` | `prompts.py`: `_requests_harm`, `_goals_block`, `_overlay_lines` |

Words are model values: what they say matters only as far as a detector fires on them or a
knob knows them. `by`, the detector that judged the goals, is a history value. The seven
knobs are two: one whose phrase the prompt checks again, and the language, which it does not.

**ConsentRouting** — `consent.py` under the routes. Handlers are threads of worker
processes; there is one action per access to shared state: `CommitRow` and `Remember`
are the two halves of `register_participant`, `Lookup` and `ReadRow` those of
`_lookup_consent`, `Open`, `Make` and `Fetch` the check-then-set of `store_for`.
`WriteTrace` is everything the request then writes, to the one store it was given.
`Restart` loses a process's memory and its requests. Quad requests register first,
every time. `owed` records that consent was on record when the request looked.

**LearnerRecord** — the abstract record: each request changes its own part, once.

**LearnerStore** — `SqlStore` under the operations: `Read` (`get_learner_state` and
what the operation makes of it), `Load` (`s.get` in `save_learner_state`), `Commit`
(the UPDATE, which sets the columns whose value differs from the one loaded, or the
INSERT, which the primary key may refuse, `repository.py:144-151`), `Emit`
(`append_event`; an intake swallows a refusal, a turn does not), `Fault`. A request
is a sequence of operations, as a turn that carries an overlay sets it first. The
columns grasped, shaky and concepts are merged into `learned`, the set of turns they
take into account; goals and overlays are named by the request that set them.
`patient` is whether the learner's client waits for each answer before it asks again.
Neither the server nor the shipped widget enforces it: it is the assumption under which the
store keeps its promise.

**EphemeralStore** — the same operations on `InMemoryStore`, which returns the dict it holds
and holds the dict it is given (`repository.py:74-87`). A dict is known by its position in
`dicts`, and `live` is the store's. `Get` hands out the live dict or a fresh one,
`ReadColumn` reads one column of it, `Write` is an intake's assignment to the dict it holds
(already visible to everyone when that is the live one), `Save` replaces the live dict: by
itself for an intake, by the new dict `memory.update` has made for a turn. `durable` says
which store serves the learner; ConsentRouting says how that is settled.

**Grading** — `grader.grade` running `_harness.py` in the sandbox, and its callers.
A program is what happens when its body runs, plus the readings every check takes
from it (`good`, `bad`, `nan`, `raises`; for a function contract also a call that
quits, hangs, or prints without a newline). `RunBody`, `RunCheck`, `PrintVerdict`,
`Exit` are the harness, `Interrupt` a resource limit or the wall clock at any point,
with the piped output lost; `Conclude` is what `/api/run`, `verify_worked_example`
and `leak_evidence` make of it, snippet after snippet for the last. A program never
prints a verdict line of its own.

**Retrieval** — a request that retrieves: `Retrieve` is ingestion (`ingest.py`, the source
gate `license_reason`, then `validate_record` per passage), the ranking of `BM25Index.search`
and the look-up by id of `CorpusKB.search`; `Screen` puts the next hit to the leak oracle,
which is a grading of module Grading, any part of which may be interrupted; `Judge` takes its
answer or the prose's (`leak_profile.verify`); `Assemble` is `ctx["knowledge"]`. BM25 scores
are a constant function of text and query, and a licence is its family and one flag for the
excluded markers. Control turns and turns without a student message do not retrieve.
`load_corpus` reads an artifact that ingestion has written and does not validate it again.

**ModelCalls** — `llm.py`, `telemetry.py` and `run_turn` around them. A turn asks the planner,
then reasoner and self-evaluation in rounds; one action per completion: `AnswerJson`
(metered, and used when it is an object), `AnswerProse` (asked again once, by the
openai-compatible client only, or given up), `Raise` (JSON mode refused: asked again
without; otherwise the turn fails), `Compose` (the reply takes the meter's usage), `Fail`.
`Meter` is the context variable a worker's turn has set; the turn's `finally` resets it.
`billed`, `used` and `retried` are history values the properties compare the meter with.
The Bedrock client always raises. A turn asks for worked examples in further rounds, which
`MaxRounds` covers; that the loops themselves end is TutorTurn's.

**Subsequences** — `Picked`, what a list comprehension with a condition returns: the
elements at the chosen positions, in their order. Screening keeps hits with it, the
measures read runs and turns off the trace with it.

**Floats** — a metric as the measures see it: an integer (a multiple of some unit), one of
the infinities, or not-a-number. `Lower` is `<`, false both ways with not-a-number; `Lesser`,
`Lowest` and `LowestOf` are Python's `min` of two, run over a sequence from a given value, and
over a sequence with a default, which with not-a-number depend on the order.

**Measures** — one participant's trace on one exercise grows event by event;
progress, outcomes of turns, calibration error, abstentions, struggle, hand-offs and
affect recovery are operators translated from the loops of `measures.py` and compared, on
every trace, with the definitions of `analysis/process_measures.md`. A run's metric is any
float or `None`, as `core/domain/types.py:167-170` leaves it: a score that should rise, a loss
without a bound, of either sign, or what is left of a training that diverged. A run that
failed or has no metric counts as `Unmeasured`, 1.0, which is neither the best nor the
worst there is. The properties therefore speak of a *lower number* and not of a better run:
that is what the code decides, and section 8 says where the two part.

## 3. The runs

| Run | Shows | Distinct states |
|---|---|---|
| `learner_model` | mastery rules over four updates in any order: `TwoSolvesFirm`, `FirmStays`, `OwnExerciseKeepsGrasp`, `ReviewIsSpaced`; and what a study reads off them, `ContrastIsComplete` | 23,683 |
| `turn_reply` | one turn of any stance, all combinations of leaking, berating, example-bearing drafts and evaluations, failures anywhere: `NoSolutionReachesPeer`, `LeakIsAccountedFor`, `OracleIsNeverGoverned`, `AbstentionIsFlagged`, `ShownExampleIsVerified`, `AbstentionFollowsEscalation`, `EveryTurnEnds` | 91,966 |
| `turn_memory` | two turns and intakes in every stance and order, with distress, failures and another release in between: `TraceMatchesMemory`, `HarmIsNeverHonored`, `DistressLeavesNoWords`, `AlignmentIsOfHonoredGoals`, and the turns implement LearnerModel | 285,372 |
| `routing_consent` | two processes, three threads, two learners, faults and a restart: `PersistedOnlyWithConsent`, `CacheMatchesTable`, `LearnersAreIsolated`, `ConsentedWorkIsKept` | 934,259 |
| `stores` | one learner's requests served by either store, by clients that wait and clients that do not. SqlStore: `NoneRefused`, `UndisturbedCommitsAreLocal`, `CommitsLand`, `ImplementsRecord`; InMemoryStore: `TimelyWorkIsLocal`, `EphemeralKeepsRecord` | 1,611,502 |
| `model_calls` | two workers' turns side by side, any provider, any mixture of JSON, prose and exceptions: `UsageIsTheTurnsOwn`, `UsageIsBilled`, `EveryCallEnds` | 35,645 |
| `retrieval` | every way a program can end, with a kill at any point: `GoalMetIsEarned`, `VerifiedIsSafe`, `MissedSolutionsWereCut`; a corpus from two sources, retrieved and screened: `HitsAreTheBest`, `ContextIsFit`, `EveryRequestEnds` | 45,069 |
| `measures` | every trace of up to five events: `OutcomeIsProgress`, `ProcessMeasuresAreRight`, `EceIsBracketed` compare the loops with the definitions, read as of a lower number, for metrics of any size and sign, infinite, and not a number; `MeasuresSettle` says what later events may change | 271,453 |
| `turn_postgres` | *violation* of `NoTurnFails` | |
| `routing_race` | *violation* of `SessionHasOneStore` | |
| `routing_quad` | *violation* of `QuadLearnersCanReturn` | |
| `grading_nan` | *violation* of `GoalMetIsEarned` | |

The type invariants are not among the runs' properties: they are proved (section 6).
The four violations are findings; section 8 explains them.

## 4. Bounds, and why they are enough

* `learner_model`: 3 concepts (one owned by each of two exercises, one by none), 2
  misconceptions, `MaxTurns = 4`. Every rule compares evidence with 2, so a concept
  can be touched, solved twice and then hit by a misconception or a repeated error:
  the shortest histories that could break stickiness take three turns.
* `turn_reply`: one turn, `MaxRefine = 1` and the thresholds 55 and 35 as
  `config.py` defaults them; `MaxEscalate = 2` and `MaxRetry = 2`, one more than the defaults, so
  that a loop can go round again; confidences
  20, 50, 90 lie in the three regions the thresholds make; three snippets: one that
  solves, one that does not, one that does not run. Messages hold up to two snippets.
* `turn_memory`: loops shortened (they do not touch memory); turns and intakes together
  are two, so that what the first leaves decides what is due, tagged, honored and traced in
  the second. Four words: a plain goal, one that only one of two detectors flags, a distress
  signal, one the knobs know; two knobs.
* `routing_consent`: 3 requests, 2 learners, 2 threads on one process and one on
  another, 1 restart. Races need two threads of a process (ephemeral store), or one
  process to register and another to look up (cache); three requests let either be
  followed by a third that observes. Symmetric in the learners and in the two threads
  of one process; all properties are invariants, for which symmetry is sound.
* `stores`: 2 threads and 3 requests, one of which may be an overlay and a turn. A lost
  update takes two handlers, and a third request can observe. In the in-memory store three
  requests make two dicts that outlive their handlers.
* `model_calls`: 2 workers and 2 turns: turns side by side, or one after the other on one
  worker, share a meter if any can. Two drafts a turn, so that a role is asked twice; every
  completion costs one token, enough to tell a sum from its last term.
* `retrieval`: a value check and a contract of two cases, drafts of up to two snippets:
  a verdict can depend on the order of checks, of cases and of snippets. Two sources of up to three passages and `K = 2`: a passage can be
  outranked, tie, share an id, or stand next to one that is dropped; seven texts cover the
  oracle's verdicts, right and missed.
* `measures`: five events, `Window = 2`, 2 bins. A window can be full, partly filled and
  overlapped by another turn's; a slope needs three runs. A run's metric is 1.0 (3 units),
  two values above it (6, 7, which rounding by a `Grain` of 3 makes the same error), one
  below zero, either infinity, or not a number; the last three can stand first, between, and
  last among up to five runs.

## 5. Fairness and deadlock

TutorTurn, Grading, Retrieval and ModelCalls state liveness, each under weak fairness of the
step of the request in service (`Serve`, `Step`, `Graded` and `Screening`, and `Serve` of
each worker), never of a particular choice within it: a request's thread runs on until it
answers, the clients' SDKs give model calls a timeout, and `subprocess.run` enforces the wall
clock of a child. Arrivals are not fair. The other modules state safety only, and no fairness.
All runs set `CHECK_DEADLOCK FALSE` because the bound on requests,
turns, tasks or events ends every behaviour; the server itself just waits for
requests.

## 6. What is proved

Every theorem holds for all values of the constants that meet the named ASSUMEs; TLC
evaluates those assumptions in the runs.

| Theorem | Statement | Argument |
|---|---|---|
| `LearnerModelProofs` `TypeCorrect`, `TwoSolvesSuffice`, `GraspedSticks` | `TypeInv`, `TwoSolvesFirm`, `FirmStays` | `ModelInv` = `TypeInv` ∧ `SolvesAreEvidence` ∧ `TwoSolvesFirm`. Two solves make a concept firm only because each solve counts as evidence, hence the middle conjunct. `ConceptRulesProofs` has one lemma per rule: it keeps types and the relation `Keeps` between old and new map (evidence never falls, a firm entry stays firm), which is reflexive and transitive, so the composition has it too |
| `OwnExerciseSticks`, `ReviewsAreSpaced` there | `OwnExerciseKeepsGrasp`, `ReviewIsSpaced` | `EarnedInv` = `ModelInv` ∧ `GraspIsEarned`: what is grasped has evidence, so a solve of its own exercise makes it firm; that a review is stamped and not offered again follows from `UpdateTames`, composed of one lemma per rule in `ConceptRulesProofs` |
| `ContrastHolds`, `StudyImplementsModel` there | `ContrastIsComplete`; `StudySpec => Spec` | `StudyInv`: every shaky concept of the map is in `everShaky`, every member of `everShaky` is in the map, and revisits are of members; a revisit is of a concept due, hence shaky before the turn, hence already recorded |
| `TutorTurnProofs` `TypeCorrect`, `SolutionNeverReachesPeer`, `EveryLeakIsAccountedFor`, `OracleAnswers` | the invariants of the reply | `TurnInv` = `TypeInv` ∧ `StageInv` ∧ `ReplyInv`: what each stage may rely on about request and plan, and what is true of a composed reply. The core is `GateReply`: rewrite, softener and abstention each leave a message that passes the verdict stored with it |
| `AbstentionsAreFlagged`, `ShownExamplesAreVerified`, `AbstentionIsLastResort` there | the invariants of abstention and worked examples | `LoopInv`: what the counters and the confidence say when the loops are left; an evaluation below the floor with escalations to spare is only possible after a regeneration. `AbstentionInv` adds what each stage leaves of the example and the flag |
| `TraceIsOfMemory`, `DistressGoesToAHuman` there | `TraceMatchesMemory`, `DistressIsRouted` | `TraceInv`: events stored and pending together are those the turn composed, the turn event first; memory was updated exactly when a tutored turn has composed them |
| `TurnsImplementLearnerModel` there | `Spec => ImplementsLearnerModel` | every step maps to a stutter but `Remember`, which is `Model!Update`; its guard on a revisit comes from `StageInv` |
| `TutorTurnProofs` `SessionTypes`, `HarmIsDeclined`, `DistressIsNotKept`, `AlignmentIsHonest` | the invariants of the learner's words | `SessionInv`: the turn's invariants carry over, because a session step is a step of the turn or leaves the turn alone (`SessionStep`); `GoalsInv`, `OverlayInv`, `WordsInv` say what a stored artifact's verdict means and that no kept word is a distress signal; `StandingInv` ties what the turn makes of the goals to those stored, which cannot change while it runs |
| `ConsentRoutingProofs` `TypeCorrect`, `ConsentGate`, `CacheIsRight`, `ConsentedWorkReachesDurable` | consent | `RoutingInv`: a committed row never changes, a handler between commit and cache carries what the table says, a handler about to write to the durable store has consent on record, numbers of requests are fresh |
| `ConsentRoutingProofs` `EphemeralStoresArePrivate` | `LearnersAreIsolated` | `IsolationInv`: a store's number belongs to one learner, wherever it is held: in a router, by a handler, or in what was written |
| `LearnerStoreProofs` `TypeCorrect`, `UndisturbedSavesAreLocal` | `UndisturbedCommitsAreLocal` | `FreshInv`: a handler not disturbed since it read still holds what the row has; `IdInv`: requests are numbered apart |
| `LearnerStoreProofs` `SavesLand` | `CommitsLand` | `PendingInv`: what is left of a handler's request is not among the operations saved; `AccountInv`: what the row, or a row a handler loaded, shows is of operations saved. So a handler's own operation is in neither, and a commit adds it |
| `LearnerStoreProofs` `SerialSavesSucceed`, `SerialStoreKeepsRecord` | for a patient client, `NoneRefused` and `ImplementsRecord` | `SerialInv`: only one handler is busy, so it is never disturbed and what it loads is what it read; with `PendingInv`, `Commit` is an operation of LearnerRecord and the rest stutters |
| `LearnerStoreProofs` `EphemeralTypes`, `TimelyWork` | `EphemeralTypeInv`, `TimelyWorkIsLocal` | `DictsInv`: a worker has read every column it will write back (`Underway`), and one that is not late works on the store's dict, or, if nobody has saved yet, on a fresh one of its own, and what it has read is what that dict still says (`Timely`). Then a write or a save makes of the record what the operation would |
| `LearnerStoreProofs` `EphemeralKeeps`, `StoresRunStore` | `EphemeralKeepsRecord`; `StoresSpec => Spec` | `SoloInv`: a patient client's only worker is never late, its intake shows from its write to the store's dict on, and a reflection is linked to the goals of the dict it is written to. A step of the in-memory store leaves the database alone, so every theorem about `Spec` holds of the two stores together |
| `ModelCallsProofs` `CallsTypes`, `UsageIsOwn`, `UsageIsCovered` | `UsageIsTheTurnsOwn`, `UsageIsBilled` | `CallsInv`: a worker's context variable holds the meter of its own turn (`OwnMeter`), no two workers serve one turn (`NotShared`), and meters of turns not begun are blank (`Unused`) |
| `GradingProofs` `TypeCorrect`, `VerdictsAreEarned`, `ExamplesAreSafe`, `OnlyCutSolutionsAreMissed` | the three conclusions | `GradingInv`: `ChildInv` relates the harness's variables to the program (the checks done so far passed iff `goal`), `LeakInv` says snippets already graded gave no verdict or failed. `VerdictsAreEarned` assumes no reading is not-a-number; `grading_nan` shows it is needed |
| `GradingProofs` `RequestTypes`, `SearchIsRight`, `ScreeningIsRight` | the types of a request; `HitsAreTheBest`, `ContextIsFit` | `RetrievalInv` = `GradingInv` ∧ `LeakAnswered` ∧ `RetrievalTypeInv` ∧ `HitsAreTheBest` ∧ `ScreeningInv`. A rank is the number of passages that go before, so ranks are different and the first `K` are the best. While a hit is being graded the task is the question about that very hit (`ScreeningInv`), so `Conclusions` of `GradingInv` speaks about it when `Judge` reads the answer. `ScreeningIsRight` assumes no not-a-number, as `VerdictsAreEarned` does |
| `MeasuresProofs` `TraceTypeCorrect`, `OutcomesAreRight`, `CalibrationIsBracketed`, `ProcessMeasuresHold`, `ExtractionsSettle` | `OutcomeIsProgress`, `EceIsBracketed`, `ProcessMeasuresAreRight`, `MeasuresSettle` | the invariant is only that the trace is a sequence of events; what has to be shown is that each loop computes its definition on a trace of any length (below) |

**The measures.** A loop is a fold, and the library's induction theorems take the property to
be shown as an operator, which the provers cannot instantiate. `NumberInduction` and
`FiniteInduction` therefore take it as a set (of numbers, of sets): what contains the least
member and, with each, the next, contains all. From these follow the facts about folds
and sums that everything else uses: a fold is the last of a chain of accumulators, one
per element (`FoldIsChain`, `FoldExists`); a sum over a set can be split at any element or
into disjoint parts (`SumRemove`, `SumUnion`); `Nth` numbers the positions picked in order
(`NthFacts`). The arguments are:

* *Floats* (`LowestFacts`, `LowestOfFacts`): a number is lower than a running minimum iff it
  is lower than where the minimum began and than every number on the way. Not-a-number on the
  way is passed over; where it is the beginning, nothing is lower. This is all that is
  needed to know of a minimum, whatever order the metrics came in.
* *Outcomes* (`OutcomeIs`): after the first *n* runs of the window the accumulator holds
  the minimum of the metrics seen so far, begun at the exercise's first (`PriorFacts`,
  `Spoilt`), and a verdict iff one of the *n* met the goal or went below it. An event appended later extends the window at its end or not
  at all (`PursuitGrows`), so a verdict stands (`OutcomeSettles`).
* *Calibration* (`EceBracket`): the bins partition the guiding turns, so the sum of the
  bins' gaps is at least that of their total and at most that of their members (`BinsBracket`).
* *Span class* (`ProgressIsBelowFirst`, `SlopeIsNegative`, `ProgressTurnsSlope`): some run is
  lower than all before it iff some run is lower than the first. The best-so-far sequence
  never rises, so each further number lowers the least-squares numerator by a gap that is
  never negative, and is positive once the sequence has fallen. So the slope test of
  `_span_class` never overrules the summary it stands beside, as long as the slope is a
  number: a first metric of infinity, or one of minus infinity, stays in the sequence and
  makes it infinity minus infinity. Sums and products are exact here, the code's are floats;
  a slope below a float's resolution, or sums above its range, are outside the model.
* *Stretches* (`StretchStep`): after *n* events the accumulator holds the length of the
  current stretch and of the longest so far.

## 7. What is only model-checked

* Liveness (`EveryTurnEnds`, `EveryRequestEnds`, `EveryCallEnds`): fairness and `ENABLED` are
  out of the prover's reach.
* The four violations: a counterexample needs no proof.

Every other property of a run is a theorem. What a run adds to the theorem is that
the case happens: the bounds of section 4 let each action fire and each plausible mistake
be caught.

## 8. Where the code and its documentation disagree

With a run:

1. `turn_postgres` — `events.event_type` is `String(16)`; `goal_alignment_check` has
   20 characters. SQLite stores it, Postgres refuses it, and the turn of any learner
   with honoured goals fails after memory and the turn event were committed. `db.py:7`
   says no code path needs a particular database and the models are portable as is.
2. `routing_race` — two first requests of one learner can each make an ephemeral store;
   the first, with work an answered request put there, is dropped in mid-session.
   `consent.py:48-51` calls this harmless.
3. `routing_quad` — every Quad route registers again; the primary key refuses the second
   request of any learner.
4. `grading_nan` — `abs(got - exp) > tol` is false for not-a-number, so a function that
   returns NaN passes its contract.

Met while modelling, without a run of their own:

* `learner_model.py:18-19` says a single solve is not enough to override a misconception
  signal. Every touch counts as evidence, so a concept touched once and then solved once is
  firm, and a misconception shown on the solving turn no longer makes it shaky.
* `orchestrator.py:29-31` and `config.py:132-133` say abstention comes after escalation. A
  regenerated worked example is evaluated after the escalation loop and its low confidence
  can cause abstention with no escalation tried; `AbstentionFollowsEscalation` therefore
  speaks of turns without a regeneration.
* `planner.py:33-34` calls revisit a peer-stance feature. The rule applies in every stance;
  for oracle only the move is coerced, and the concept is stamped as reviewed.
* `learner_model.py:15` defines `last_review_ex` as the exercise of the last revisit turn.
  A revisit turn that abstains asks nothing about the concept and stamps it all the same.
* `PRIVACY.md:95-96` says the only trace of a distress turn is a `distress` event. An
  overlay carried by the request is stored and traced before the scan.
* `README.md:3-6` says no solution can leak. The gate reads `message`; `check_question` is
  returned ungated.
* `VALIDATION.md:502-504` says a leaking draft is blocked or rewritten. The rewrite removes code and
  keeps the prose, also when the prose was the reason.
* `consent.py:13` says consenting learners get the durable store. A failed look-up reads as no consent,
  so one database error sends a consenting learner's answered work to an ephemeral store;
  `ConsentedWorkIsKept` excludes that request.
* `VALIDATION.md:544-546` lists a `reflection_recorded` event. It has 19 characters; on
  Postgres it is refused and `_emit` swallows the error, leaving the reflection untraced.
* `memory.py:47-48` says intake artifacts are "never clobbered here". A turn writes back
  the values it read: when another request saves goals between that read and the load
  inside `save_learner_state`, the ORM sees a difference and writes the old value.
  `UndisturbedCommitsAreLocal` is the promise that remains.
* `process_measures.md` section 5 counts consecutive turns and runs as an engaged span;
  `_engaged_span` counts every event of the slice, companions of a turn included.
  That part of `ProcessMeasuresAreRight` is stated for traces without them.
* `withholding_solution` also marks blocks whose reason was prose alone, while section 2 of
  `process_measures.md` reads it as a caught snippet that meets the goal.
* `process_measures.md:212` promises `learner_model_measures.csv`; `extract_measures.py` never
  calls `compute_learner_model_measures`.
* `measures.py:488` takes all turns of a session to have one stance; a stance belongs to a request.
* `corpus_kb.py:70` says passages of score zero are not returned. Ids are not checked for
  duplicates; of two records with one id, a hit on the second returns the first, whatever its
  score. `HitsAreTheBest` is stated for unique ids.
* `governance.py:186-192` drops a passage that `is_solution`. One whose
  grading was killed, or whose output spoilt the verdict, does: `ContextIsFit` excludes these.
* `distress.py:16` and `CONTRIBUTING.md:19` say no verbatim distressing content is stored. An
  overlay's raw text is stored as it came, and nothing scans it: `DistressLeavesNoWords`
  speaks of goals, reflections and events.
* `prompts.py:318` says the learner's raw text is never injected. The phrases for the overlay are
  canonical, but `context.serialize` puts its raw values and the reflections in the user message.
* `CONTRIBUTING.md:18` says not to add verbatim learner text to the trace. The payloads of
  `goal_set`, `reflection_recorded` and `goal_alignment_check` carry it.
* Whether a turn traces a `goal_alignment_check` goes by the verdict stored with the goals,
  while the prompts look again: goals that only the running release takes for harm are declined
  in the prompt and traced as aligned. `AlignmentIsOfHonoredGoals` excludes goals that
  another release judged.
* `telemetry.py:6` promises the tokens and cost of a turn's calls. A first answer that is asked
  for again is billed and not counted, nor is a call that fails; when a provider reports no
  usage the cost is 0.0, not unknown. `UsageIsBilled` states what is left.
* `parse_json` returns any JSON value; a list or a number passes `json` and makes the
  component that reads it raise.
* `measures.py:60-61` and `process_measures.md` use the metric as a lower-is-better proxy for
  progress. `core/domain/types.py:167-170` says it is not direction-normalized, and the pack's
  regression exercise reports r2 with the goal `>=` (`ds-regression.json`): a student whose r2
  rises from 0.2 to 0.6 made no progress, one whose r2 falls did, and a span of falling scores is
  productive. `OutcomeIsProgress` and `SpanClassIsProgress` state what is decided, a lower
  number, and say nothing of a better run.
* `measures.py:58-61` gives a failed run, or one without a metric, 1.0. The loss of `ds-mlp.json`
  has no bound: a crash after a loss of 2.3 is progress, and a loss of 2.3 after a crash
  is none.
* A training that diverges reports a metric that is not a number, which JSON as Python reads it
  lets through (a Postgres trace would refuse it, SQLite and memory keep it). If it is the
  exercise's first run, `min` (`measures.py:243-246`, `291`) stays not-a-number
  and nothing afterwards is progress; on any later run it is passed over. Two such runs in a row
  are never a repeated error (`measures.py:219`), as not-a-number does not equal itself.
* `measures.py:58-60` avoids infinity for failed runs because it would make the slope
  not-a-number. An infinite metric of a run's own does: with one first, or minus infinity
  anywhere, no span is productive, however far the metric fell.
* A first run that fails or has no metric still counts as progress (the prior minimum is
  infinity), and a span that ends solved without lowering its metric can be labelled
  stuck. Both are what the definitions say once read with the code's `_metric`.

## 9. What is not modelled, and why

* **Text**: prompts, wording, regular expressions, JSON layout. Only what decisions
  depend on is kept, as flags.
* **Time**: no rule reads the time stamps of concepts; trace order stands for time.
* **PII boundary** of the Quad sidecar: text again; its pseudonyms are the learners' names here.
* **Five of the overlay's seven knobs** differ from the one modelled only in their words.
* **Session end**: ephemeral stores are never removed by the code, so there is nothing to state.
* **Processes a student's program starts**: a timeout kills the child only; the grader's
  result does not depend on what is left.
* **Configuration, preflight, domain data, behavioural benchmark, scripts, front end**:
  settings are constants of the modules, preflight prints a report, the taxonomy and exercises
  are data, the benchmark and the scripts call the system from outside, and of the browser
  only the order in which it may send requests matters, which the modules leave free.

## 10. Plan

Built, in this order: ConceptRules → LearnerModel → TutorTurn (composes ConceptRules, refines
LearnerModel) → ConsentRouting → LearnerRecord, LearnerStore → Grading → Measures → LearnerStudy
→ Retrieval → EphemeralStore (second implementation of LearnerRecord) → ModelCalls →
TutorSession (composes TutorTurn and the intakes), each with the proofs of its safety and
action properties.

Next, models: the Quad PII boundary as a function on what leaves the process; an abstract
contract of a turn (asked → answered once or failed; what a reply may contain) that TutorTurn
refines, for composition with ConsentRouting.

Next, proofs: that contract, as a refinement; that hits come in the order of their scores,
ties by position, which the proof of `HitsAreTheBest` has and does not state.
