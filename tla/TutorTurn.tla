----------------------------- MODULE TutorTurn -----------------------------
(***************************************************************************)
(* One learner's tutor turns, from the request to the reply:               *)
(* backend/app/agent/orchestrator.py (_run_turn) with the components it    *)
(* calls: planner, reasoner and self-evaluation (the LLM's answers are     *)
(* inputs), worked-example verification, governance, memory and the trace. *)
(* One action per stage; turns are sequential.  An exception in a stage    *)
(* ends the turn with an error response (main.sol_turn), keeping whatever  *)
(* the earlier stages had already stored.                                  *)
(*                                                                         *)
(* Text is abstracted to what the code looks at: the code snippets the     *)
(* leak gate extracts, and whether the prose discloses the answer, berates *)
(* the student, or carries the gate's own redirect.  Confidences are whole *)
(* percentages.                                                            *)
(***************************************************************************)
EXTENDS ConceptRules, Integers, Sequences

CONSTANTS
    Snippets,        \* runnable code the tutor may write
    Solving,         \* those the grader accepts for the exercise at hand
    Broken,          \* those that do not run
    Requests,        \* what clients send
    PlannerReads,    \* what the planner's model may answer
    Drafts,          \* what the reasoner's model may answer
    Evals,           \* what the self-evaluation's model may answer
    MaxRefine, MaxEscalate, MaxRetry, TauEscalate, TauAbstain,  \* settings
    DistressRouting, DistressTrace,                             \* settings
    RejectedTypes,   \* event types the database's event_type column refuses
    MayFail,         \* whether providers and stores may raise
    MaxTurns         \* bound on the number of turns

Stances == {"peer", "oracle", "control"}
Affects == {"curious", "flow", "frustration", "disengaged"}
OracleMoves == {"observe", "co_reason", "diagnose", "worked_analogy", "stretch"}
PeerMoves == OracleMoves \cup {"reciprocate", "escalate", "encourage", "revisit", "reflect"}
EventTypes == {"overlay_set", "distress", "turn", "goal_alignment_check", "reflect",
               "retrieval"}
Percent == 0..100

\* asks, reflect, distress: what the student's latest message contains.
\* spoke: there is a student message at all, so retrieval runs.
Request ==
    {r \in [stance: Stances, teach: BOOLEAN, ex: Exercises, solved: BOOLEAN,
            repeated: BOOLEAN, asks: BOOLEAN, reflect: BOOLEAN, distress: BOOLEAN,
            spoke: BOOLEAN, goals: {"none", "honored", "declined"}, overlay: BOOLEAN] :
        r.asks \/ r.distress => r.spoke}

PlannerRead == [affect: Affects, move: PeerMoves \cup {"invalid"}]

Message == [code: SUBSET Snippets, prose: BOOLEAN, rude: BOOLEAN, redirect: BOOLEAN]

\* question: the code in check_question.  mid: a misconception the taxonomy
\* knows, or None.
Draft == [message: Message, question: SUBSET Snippets, conf: Percent,
          example: Snippets \cup {None}, mid: Misconceptions \cup {None}]

Eval == [revise: BOOLEAN, conf: Percent]

Plan == [move: PeerMoves, revisit: Concepts \cup {None}]

Reply == [message: Message, question: SUBSET Snippets, move: PeerMoves, conf: Percent,
          flag: {"none", "withholding_solution", "redirect_answer_seeking", "flag_escalate"},
          block: BOOLEAN, abstained: BOOLEAN, softened: BOOLEAN]

ASSUME TurnAssumption ==
    /\ Solving \subseteq Snippets /\ Broken \subseteq Snippets /\ None \notin Snippets
    /\ Requests \subseteq Request
    /\ PlannerReads \subseteq PlannerRead
    /\ Drafts \subseteq {d \in Draft : ~d.message.redirect}
    /\ Evals \subseteq Eval
    /\ MaxRefine \in Nat /\ MaxEscalate \in Nat /\ MaxRetry \in Nat
    /\ TauEscalate \in Percent /\ TauAbstain \in Percent
    /\ DistressRouting \in BOOLEAN /\ DistressTrace \in BOOLEAN /\ MayFail \in BOOLEAN
    /\ MaxTurns \in Nat

VARIABLES
    pc,           \* the stage the turn is in
    req,          \* the request being served
    plan,         \* plan["intervention"] and plan["revisit_concept"]
    draft,        \* the reasoner's current draft
    eval,         \* the self-evaluation of the draft
    refines, escalations, retries,   \* the loops' counters
    shown,        \* we_telemetry["shown"]
    reply,        \* the response being built
    pending,      \* event types still to append
    events,       \* event types this turn has appended
    concepts,     \* LearnerState.concepts
    signal,       \* history: the latest arguments of memory.update
    solves,       \* history: updates that solved an exercise owning the concept
    updates,      \* history: calls of memory.update
    learned,      \* history: this turn has called memory.update
    turns         \* history: number of turns begun

loop == <<plan, draft, eval, refines, escalations, retries, shown>>
memory == <<concepts, signal, solves, updates, learned>>
vars == <<pc, req, loop, reply, pending, events, memory, turns>>

-----------------------------------------------------------------------------
(* The planner's deterministic rules.                                      *)

NeedsSupport == {"frustration", "disengaged"}
Calm == {"observe", "co_reason"}

\* Affect-adaptive rules, peer only.
AffectMove(stance, p) ==
    CASE stance = "oracle" -> p.move
      [] stance # "oracle" /\ p.affect \in NeedsSupport -> "encourage"
      [] stance # "oracle" /\ p.affect = "flow" /\ p.move \in {"diagnose", "worked_analogy"}
           -> "observe"
      [] OTHER -> p.move

\* The same error twice running turns a calm move into a diagnosis.
CauseMove(r, move) == IF r.repeated /\ move \in Calm THEN "diagnose" ELSE move

GoalMove(stance, move) ==
    IF move \in {"stretch", "observe"} \cup (IF stance = "oracle" THEN {} ELSE {"reciprocate"})
    THEN move ELSE "stretch"

BadCoerce(stance, move) ==   \* one menu for both stances
    IF move \in PeerMoves THEN move ELSE IF stance = "oracle" THEN "diagnose" ELSE "co_reason"

Coerce(stance, move) ==
    CASE stance = "oracle" /\ move \notin OracleMoves -> "diagnose"
      [] stance # "oracle" /\ move \notin PeerMoves -> "co_reason"
      [] OTHER -> move

BadRulesOverlay(r, p, due) ==   \* the revisit rule no longer comes last
    IF due # None THEN [move |-> "revisit", revisit |-> due]
    ELSE [move |-> Coerce(r.stance, AffectMove(r.stance, p)), revisit |-> None]

\* due: the first concept due for review, or None.
RulesOverlay(r, p, due) ==
    LET cause == CauseMove(r, AffectMove(r.stance, p))
        revisits == ~r.solved /\ due # None /\ cause \in Calm
    IN CASE r.stance # "oracle" /\ r.teach -> [move |-> "reciprocate", revisit |-> None]
         [] r.stance # "oracle" /\ ~r.teach /\ r.reflect -> [move |-> "reflect", revisit |-> None]
         [] OTHER ->
              [move |-> Coerce(r.stance, IF r.solved THEN GoalMove(r.stance, p.move)
                                         ELSE IF revisits THEN "revisit" ELSE cause),
               revisit |-> IF revisits THEN due ELSE None]

\* due_review[0]: whichever member the frozenset yields first, None if empty.
FirstDue(m, ex) == IF DueReview(m, ex) = {} THEN {None} ELSE DueReview(m, ex)

-----------------------------------------------------------------------------
(* Governance: the leak gate, the rewrite and the tone softener.           *)

Canned == [code |-> {}, prose |-> FALSE, rude |-> FALSE, redirect |-> FALSE]

\* leak_evidence: a snippet meets the goal, or the prose discloses.  The gate's
\* own redirect ("just paste the whole thing") trips the prose patterns too.
LeakFails(msg) == msg.code \cap Solving # {} \/ msg.prose \/ msg.redirect

BadBlocks(stance, msg) ==   \* the grader alone, no prose signal
    stance = "peer" /\ msg.code \cap Solving # {}

\* leak_profile.verify: only the peer stance is gated.
Blocks(stance, msg) == stance = "peer" /\ LeakFails(msg)

\* governance.check
Flag(r, move, msg) ==
    CASE Blocks(r.stance, msg) -> "withholding_solution"
      [] ~Blocks(r.stance, msg) /\ move = "escalate" -> "flag_escalate"
      [] OTHER -> IF r.stance = "peer" /\ r.asks THEN "redirect_answer_seeking" ELSE "none"

Lower(a, b) == IF a < b THEN a ELSE b

BadSafeRewrite(d) ==   \* redirects without redacting
    [d EXCEPT !.message = [@ EXCEPT !.redirect = TRUE], !.conf = Lower(@, 60)]

\* Strips every code span, keeps the prose, adds the redirect, caps confidence.
SafeRewrite(d) ==
    [d EXCEPT !.message = [@ EXCEPT !.code = {}, !.redirect = TRUE], !.conf = Lower(@, 60)]

\* soften_if_berating, peer only.
Softens(stance, msg) == stance = "peer" /\ msg.rude

Soften(d) == [d EXCEPT !.message = Canned, !.conf = Lower(@, 50)]

\* A peer whose evaluation is below the floor abstains.
Abstains(r, e) == r.stance = "peer" /\ e.conf < TauAbstain

BadAbstain(d) == [d EXCEPT !.question = {}, !.conf = Lower(@, 30)]   \* keeps the draft

Abstain(d) == [d EXCEPT !.message = Canned, !.question = {}, !.conf = Lower(@, 30)]

\* The stated confidence: a suppressed draft must not look confident.
Headline(e, d, capped) == IF capped THEN Lower(e.conf, d.conf) ELSE e.conf

-----------------------------------------------------------------------------
(* The turn.                                                               *)

BlankPlan == [move |-> "observe", revisit |-> None]
BlankDraft == [message |-> Canned, question |-> {}, conf |-> 0, example |-> None, mid |-> None]
BlankEval == [revise |-> FALSE, conf |-> 0]

\* A fixed reply: no model wrote any of it.
FixedReply(move, flag) ==
    [message |-> Canned, question |-> {}, move |-> move, conf |-> 100, flag |-> flag,
     block |-> FALSE, abstained |-> FALSE, softened |-> FALSE]

Init ==
    /\ pc = "idle"
    /\ req = None
    /\ plan = BlankPlan /\ draft = BlankDraft /\ eval = BlankEval
    /\ refines = 0 /\ escalations = 0 /\ retries = 0
    /\ shown = FALSE
    /\ reply = FixedReply("observe", "none")
    /\ pending = <<>>
    /\ events = <<>>
    /\ concepts = EmptyMap
    /\ signal = None
    /\ solves = [c \in Concepts |-> 0]
    /\ updates = 0
    /\ learned = FALSE
    /\ turns = 0

Ended == {"idle", "answered", "failed"}

\* A request arrives.  An overlay it carries is stored before anything else;
\* its audit event is best effort (overlay._emit swallows exceptions).
Accept(r) ==
    /\ pc \in Ended
    /\ turns < MaxTurns
    /\ pc' = "routing"
    /\ req' = r
    /\ plan' = BlankPlan /\ draft' = BlankDraft /\ eval' = BlankEval
    /\ refines' = 0 /\ escalations' = 0 /\ retries' = 0
    /\ shown' = FALSE
    /\ reply' = FixedReply("observe", "none")
    /\ pending' = <<>>
    /\ \/ events' = IF r.overlay THEN <<"overlay_set">> ELSE <<>>
       \/ MayFail /\ r.overlay /\ events' = <<>>
    /\ learned' = FALSE
    /\ turns' = turns + 1
    /\ UNCHANGED <<concepts, signal, solves, updates>>

BadDistressed(r) == DistressRouting /\ r.distress /\ r.stance = "peer"

\* The distress scan, in any stance and before the control branch.
Distressed(r) == DistressRouting /\ r.distress

\* _distress_turn: a fixed frame, and at most the additive event.
DistressTurn ==
    /\ pc = "routing"
    /\ Distressed(req)
    /\ reply' = FixedReply("escalate", "flag_escalate")
    /\ pending' = IF DistressTrace THEN <<"distress">> ELSE <<>>
    /\ pc' = "trace"
    /\ UNCHANGED <<req, loop, events, memory, turns>>

\* _control_turn: a fixed message and a turn event, no model.
ControlTurn ==
    /\ pc = "routing"
    /\ ~Distressed(req) /\ req.stance = "control"
    /\ reply' = FixedReply("observe", "none")
    /\ pending' = <<"turn">>
    /\ pc' = "trace"
    /\ UNCHANGED <<req, loop, events, memory, turns>>

PlanMove(p) ==
    /\ pc = "routing"
    /\ ~Distressed(req) /\ req.stance # "control"
    /\ \E due \in FirstDue(concepts, req.ex) : plan' = RulesOverlay(req, p, due)
    /\ pc' = "drafting"
    /\ UNCHANGED <<req, draft, eval, refines, escalations, retries, shown, reply, pending,
                   events, memory, turns>>

\* The reasoner writes a draft and the self-evaluation judges it.
Respond(d, e) == draft' = d /\ eval' = e

FirstDraft(d, e) ==
    /\ pc = "drafting"
    /\ Respond(d, e)
    /\ pc' = "loop"
    /\ UNCHANGED <<req, plan, refines, escalations, retries, shown, reply, pending, events,
                   memory, turns>>

\* The two loops run one after the other: no refine follows an escalation.
Refinable == escalations = 0 /\ eval.revise /\ refines < MaxRefine

Refine(d, e) ==
    /\ pc = "loop" /\ Refinable
    /\ Respond(d, e)
    /\ refines' = refines + 1
    /\ UNCHANGED <<pc, req, plan, escalations, retries, shown, reply, pending, events,
                   memory, turns>>

BadEscalatable == ~Refinable /\ eval.conf < TauAbstain /\ escalations < MaxEscalate - 1

Escalatable == ~Refinable /\ eval.conf < TauEscalate /\ escalations < MaxEscalate

BadEscalate(d, e) ==   \* does not count
    /\ pc = "loop" /\ Escalatable
    /\ Respond(d, e)
    /\ UNCHANGED <<pc, req, plan, refines, escalations, retries, shown, reply, pending,
                   events, memory, turns>>

Escalate(d, e) ==
    /\ pc = "loop" /\ Escalatable
    /\ Respond(d, e)
    /\ escalations' = escalations + 1
    /\ UNCHANGED <<pc, req, plan, refines, retries, shown, reply, pending, events,
                   memory, turns>>

Settled == pc = "loop" /\ ~Refinable /\ ~Escalatable
HasExample == plan.move = "worked_analogy" /\ draft.example # None

BadVerified(x) == x # None /\ x \notin Broken   \* the non-solution check is dropped

\* verify_worked_example: it runs and does not solve the exercise.
Verified(x) == x # None /\ x \notin Broken \cup Solving

\* Inside the worked-example block: just entered, or after a retry.
Verifying == (Settled /\ HasExample) \/ pc = "example"

RetryExample(d, e) ==
    /\ Verifying /\ ~Verified(draft.example)
    /\ retries < MaxRetry
    /\ Respond(d, e)
    /\ retries' = retries + 1
    /\ pc' = "example"
    /\ UNCHANGED <<req, plan, refines, escalations, shown, reply, pending, events,
                   memory, turns>>

ShowExample ==
    /\ Verifying /\ Verified(draft.example)
    /\ draft' = [draft EXCEPT !.message.code = @ \cup {draft.example}]
    /\ shown' = TRUE
    /\ pc' = "gate"
    /\ UNCHANGED <<req, plan, eval, refines, escalations, retries, reply, pending, events,
                   memory, turns>>

\* The fallback line replaces the example: no code is added.
WithholdExample ==
    /\ Verifying /\ ~Verified(draft.example)
    /\ retries >= MaxRetry
    /\ pc' = "gate"
    /\ UNCHANGED <<req, loop, reply, pending, events, memory, turns>>

\* Abstention, then the leak gate, then the softener, then the stated confidence.
Gate ==
    /\ (Settled /\ ~HasExample) \/ pc = "gate"
    /\ LET abstains == Abstains(req, eval)
           judged == IF abstains THEN Abstain(draft) ELSE draft
           move == IF abstains THEN "escalate" ELSE plan.move
           block == Blocks(req.stance, judged.message)
           gated == IF block THEN SafeRewrite(judged) ELSE judged
           softens == Softens(req.stance, gated.message)
           final == IF softens THEN Soften(gated) ELSE gated
       IN /\ draft' = final
          /\ plan' = [plan EXCEPT !.move = move]
          /\ reply' = [message |-> final.message, question |-> final.question,
                       move |-> move, flag |-> Flag(req, move, judged.message),
                       conf |-> Headline(eval, final, block \/ softens),
                       block |-> block, abstained |-> abstains, softened |-> softens]
    /\ pc' = "remember"
    /\ UNCHANGED <<req, eval, refines, escalations, retries, shown, pending, events,
                   memory, turns>>

BadTurnEvents(r, move) ==   \* the reflect event replaces the turn event
    <<IF move = "reflect" THEN "reflect" ELSE "turn">>
    \o (IF r.goals = "honored" THEN <<"goal_alignment_check">> ELSE <<>>)
    \o (IF r.spoke THEN <<"retrieval">> ELSE <<>>)

\* The events of an ordinary turn, in the order they are appended.
TurnEvents(r, move) ==
    <<"turn">>
    \o (IF r.goals = "honored" THEN <<"goal_alignment_check">> ELSE <<>>)
    \o (IF move = "reflect" THEN <<"reflect">> ELSE <<>>)
    \o (IF r.spoke THEN <<"retrieval">> ELSE <<>>)

\* memory.update, before any event of the turn is written.
Remember ==
    /\ pc = "remember"
    /\ concepts' = UpdateConcepts(concepts, req.ex, req.solved, draft.mid, req.repeated,
                                  plan.revisit)
    /\ signal' = [ex |-> req.ex, met |-> req.solved, mid |-> draft.mid,
                  repeated |-> req.repeated, revisit |-> plan.revisit]
    /\ solves' = [c \in Concepts |->
                    solves[c] + (IF req.solved /\ OwnConcept[req.ex] = c THEN 1 ELSE 0)]
    /\ updates' = updates + 1
    /\ learned' = TRUE
    /\ pending' = TurnEvents(req, reply.move)
    /\ pc' = "trace"
    /\ UNCHANGED <<req, loop, reply, events, turns>>

\* append_event commits one row; a type the column cannot hold raises.
AppendEvent ==
    /\ pc = "trace" /\ pending # <<>>
    /\ IF Head(pending) \in RejectedTypes
       THEN pc' = "failed" /\ UNCHANGED <<pending, events>>
       ELSE /\ events' = Append(events, Head(pending))
            /\ pending' = Tail(pending)
            /\ UNCHANGED pc
    /\ UNCHANGED <<req, loop, reply, memory, turns>>

Answer ==
    /\ pc = "trace" /\ pending = <<>>
    /\ pc' = "answered"
    /\ UNCHANGED <<req, loop, reply, pending, events, memory, turns>>

\* A provider, the store or the response model raises: 502 (or 500), no rollback.
Fail ==
    /\ MayFail /\ pc \notin Ended
    /\ pc' = "failed"
    /\ UNCHANGED <<req, loop, reply, pending, events, memory, turns>>

Serve ==
    \/ DistressTurn \/ ControlTurn
    \/ \E p \in PlannerReads : PlanMove(p)
    \/ \E d \in Drafts, e \in Evals :
          FirstDraft(d, e) \/ Refine(d, e) \/ Escalate(d, e) \/ RetryExample(d, e)
    \/ ShowExample \/ WithholdExample \/ Gate \/ Remember \/ AppendEvent \/ Answer \/ Fail

Next == (\E r \in Requests : Accept(r)) \/ Serve

\* The request's worker thread keeps running until the turn ends.
Spec == Init /\ [][Next]_vars /\ WF_vars(Serve)

-----------------------------------------------------------------------------
Stages == Ended \cup {"routing", "drafting", "loop", "example", "gate", "remember", "trace"}

\* The reply has been composed (and is delivered when pc = "answered").
Composed == pc \in {"remember", "trace", "answered"}

TypeInv ==
    /\ pc \in Stages
    /\ req \in Requests \cup {None}
    /\ pc # "idle" => req \in Requests
    /\ plan \in Plan /\ draft \in Draft /\ eval \in Eval
    /\ refines \in Nat /\ escalations \in Nat /\ retries \in Nat
    /\ shown \in BOOLEAN
    /\ reply \in Reply
    /\ pending \in Seq(EventTypes) /\ events \in Seq(EventTypes)
    /\ concepts \in ConceptMap
    /\ signal \in Signal \cup {None}
    /\ solves \in [Concepts -> Nat]
    /\ updates \in Nat /\ learned \in BOOLEAN /\ turns \in Nat

\* No code snippet that meets the exercise goal is in a peer reply's message,
\* whichever draft ships (first, refined, escalated, regenerated), whether or not
\* a worked example was appended to it (governance.py's HARD RULE).
NoSolutionReachesPeer ==
    Composed /\ req.stance = "peer" => reply.message.code \cap Solving = {}

\* A peer reply that still trips the leak signal says that something was withheld,
\* and one that says so carries the redirect or the kinder replacement: nothing a
\* later stage does to the message slips past the earlier verdict.
LeakIsAccountedFor ==
    Composed /\ req.stance = "peer" =>
        /\ LeakFails(reply.message) => reply.block
        /\ reply.block => /\ reply.flag = "withholding_solution"
                          /\ reply.message.redirect \/ reply.softened

WantsSupport == DistressRouting /\ req.distress

\* Oracle answers: outside distress routing no gate fires, it never abstains, and
\* its move stays in the answer-giver's menu (planner.py, "flag_escalate can never
\* fire for oracle").
OracleIsNeverGoverned ==
    Composed /\ req.stance = "oracle" /\ ~WantsSupport =>
        /\ reply.flag = "none" /\ reply.move \in OracleMoves
        /\ ~reply.block /\ ~reply.abstained /\ ~reply.softened

\* An abstention always reaches the instructor: the canned message passes the leak
\* gate, so no other flag can take the place of flag_escalate.
AbstentionIsFlagged ==
    Composed /\ reply.abstained =>
        /\ reply.flag = "flag_escalate" /\ reply.move = "escalate"
        /\ ~reply.block /\ ~reply.softened

\* An example reported as shown was verified in its final, possibly regenerated,
\* form, and is in the reply unless the whole draft was replaced or redacted.
ShownExampleIsVerified ==
    Composed /\ shown =>
        /\ draft.example \in Snippets \ (Broken \cup Solving)
        /\ \/ draft.example \in reply.message.code
           \/ reply.abstained \/ reply.block \/ reply.softened

\* When no worked example was regenerated, a turn abstains only after every
\* escalation was spent.
AbstentionFollowsEscalation ==
    Composed /\ reply.abstained /\ retries = 0 /\ TauAbstain <= TauEscalate =>
        escalations = MaxEscalate

Traced(type) == \E i \in DOMAIN events : events[i] = type

\* Memory and trace agree: a turn event of a tutored turn is written only after
\* memory was updated, an answered turn outside distress routing has exactly one,
\* and control and distress turns leave memory alone.
TraceMatchesMemory ==
    /\ Traced("turn") => learned \/ req.stance = "control"
    /\ pc = "answered" /\ ~WantsSupport =>
          \E i \in DOMAIN events :
            events[i] = "turn" /\ \A j \in DOMAIN events : events[j] = "turn" => i = j
    /\ learned => ~WantsSupport /\ req.stance # "control"

\* A distress signal is routed to a human in every stance, and the turn leaves no
\* trace but the distress event, after that of the overlay the request carried.
DistressIsRouted ==
    Composed /\ WantsSupport =>
        /\ reply.flag = "flag_escalate"
        /\ \A i \in DOMAIN events :
              events[i] = "distress" \/ (events[i] = "overlay_set" /\ i = 1 /\ req.overlay)

\* Every accepted request is answered or fails: the refine, escalation and
\* regeneration loops are bounded whatever the models answer.
EveryTurnEnds == pc = "routing" ~> pc \in {"answered", "failed"}

\* Turn by turn, memory behaves as LearnerModel says, with no free-text tags: the
\* arguments the pipeline hands to memory.update meet the guard LearnerModel puts
\* on a revisit.
Model == INSTANCE LearnerModel WITH
            Topics <- {}, tags <- [grasped |-> {}, shaky |-> {}], turns <- updates
ImplementsLearnerModel == Model!Spec

-----------------------------------------------------------------------------
(* What the documentation says and the code does not do.                   *)

\* db.py: "no code path requires Postgres. The models are portable as-is".
NoTurnFails == pc # "failed"
=============================================================================
