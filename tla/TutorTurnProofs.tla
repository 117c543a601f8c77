-------------------------- MODULE TutorTurnProofs --------------------------
(***************************************************************************)
(* Theorems about TutorTurn, for every taxonomy, every set of requests and *)
(* of model answers, and every setting of the loops' bounds and floors;    *)
(* then about TutorSession, for every set of words and every sequence of   *)
(* releases.  What was proved of the turn carries over: a step of the      *)
(* session is a step of the turn, or leaves the turn alone.                *)
(***************************************************************************)
EXTENDS TutorSession, ConceptRulesProofs

-----------------------------------------------------------------------------
(* What the operators return.                                              *)

\* The smaller of two percentages is one, and below both.
LEMMA LowerIs ==
    ASSUME NEW a \in Percent, NEW b \in Percent
    PROVE  Lower(a, b) \in Percent /\ Lower(a, b) <= a /\ Lower(a, b) <= b
  BY DEF Lower, Percent

LEMMA CannedType == Canned \in Message
  BY DEF Canned, Message

\* The rewrite removes all code and adds the redirect.
LEMMA SafeRewriteIs ==
    ASSUME NEW d \in Draft
    PROVE  /\ SafeRewrite(d) \in Draft
           /\ SafeRewrite(d).message.code = {} /\ SafeRewrite(d).message.redirect
           /\ SafeRewrite(d).conf <= 60
<1>1. d.conf \in Percent /\ d.message \in Message  BY DEF Draft
<1>2. 60 \in Percent  BY DEF Percent
<1>3. Lower(d.conf, 60) \in Percent /\ Lower(d.conf, 60) <= 60  BY <1>1, <1>2, LowerIs
<1> DEFINE m == [d.message EXCEPT !.code = {}, !.redirect = TRUE]
<1>4. m \in Message /\ m.code = {} /\ m.redirect  BY <1>1 DEF Message
<1>5. SafeRewrite(d) = [d EXCEPT !.message = m, !.conf = Lower(d.conf, 60)]
  BY DEF SafeRewrite
<1> HIDE DEF m
<1>6. QED  BY <1>3, <1>4, <1>5 DEF Draft

\* The softener and the abstention replace the whole message.
LEMMA SoftenIs ==
    ASSUME NEW d \in Draft
    PROVE  Soften(d) \in Draft /\ Soften(d).message = Canned /\ Soften(d).conf <= 50
<1>1. d.conf \in Percent /\ 50 \in Percent  BY DEF Draft, Percent
<1>2. Lower(d.conf, 50) \in Percent /\ Lower(d.conf, 50) <= 50  BY <1>1, LowerIs
<1>3. QED  BY <1>2, CannedType DEF Soften, Draft

LEMMA AbstainIs ==
    ASSUME NEW d \in Draft
    PROVE  Abstain(d) \in Draft /\ Abstain(d).message = Canned
<1>1. d.conf \in Percent /\ 30 \in Percent  BY DEF Draft, Percent
<1>2. Lower(d.conf, 30) \in Percent  BY <1>1, LowerIs
<1>3. QED  BY <1>2, CannedType DEF Abstain, Draft

LEMMA ShownType ==
    ASSUME NEW d \in Draft, d.example # None
    PROVE  [d EXCEPT !.message.code = @ \cup {d.example}] \in Draft
<1>1. d.message \in Message /\ d.example \in Snippets  BY DEF Draft
<1> DEFINE m == [d.message EXCEPT !.code = @ \cup {d.example}]
<1>2. m \in Message  BY <1>1 DEF Message
<1>3. [d EXCEPT !.message.code = @ \cup {d.example}] = [d EXCEPT !.message = m]
  OBVIOUS
<1> HIDE DEF m
<1>4. QED  BY <1>2, <1>3 DEF Draft

LEMMA FixedReplyType ==
    /\ FixedReply("observe", "none") \in Reply
    /\ FixedReply("escalate", "flag_escalate") \in Reply
<1>1. 100 \in Percent  BY DEF Percent
<1>2. QED  BY <1>1, CannedType DEF FixedReply, Reply, PeerMoves, OracleMoves

\* Whatever the planner's model answers, the move is in the stance's menu.
LEMMA RulesOverlayIs ==
    ASSUME NEW r \in Request, NEW p \in PlannerRead, NEW due \in Concepts \cup {None}
    PROVE  /\ RulesOverlay(r, p, due) \in Plan
           /\ r.stance = "oracle" => RulesOverlay(r, p, due).move \in OracleMoves
           /\ RulesOverlay(r, p, due).revisit # None =>
                /\ RulesOverlay(r, p, due).revisit = due
                /\ ~r.solved /\ ~r.repeated
<1>1. \A move : /\ Coerce("oracle", move) \in OracleMoves
                /\ \A s : s # "oracle" => Coerce(s, move) \in PeerMoves
  BY DEF Coerce, OracleMoves, PeerMoves
<1>2. OracleMoves \subseteq PeerMoves  BY DEF PeerMoves
<1> DEFINE cause == CauseMove(r, AffectMove(r.stance, p))
           revisits == ~r.solved /\ due # None /\ cause \in Calm
           chosen == IF r.solved THEN GoalMove(r.stance, p.move)
                     ELSE IF revisits THEN "revisit" ELSE cause
<1>3. revisits => ~r.repeated /\ ~r.solved /\ due # None
  BY DEF CauseMove, Calm
<1>4. RulesOverlay(r, p, due) =
        CASE r.stance # "oracle" /\ r.teach -> [move |-> "reciprocate", revisit |-> None]
          [] r.stance # "oracle" /\ ~r.teach /\ r.reflect ->
               [move |-> "reflect", revisit |-> None]
          [] OTHER -> [move |-> Coerce(r.stance, chosen),
                       revisit |-> IF revisits THEN due ELSE None]
  BY DEF RulesOverlay
<1>5. Coerce(r.stance, chosen) \in PeerMoves
      /\ (r.stance = "oracle" => Coerce(r.stance, chosen) \in OracleMoves)
  BY <1>1, <1>2
<1> HIDE DEF revisits, chosen
<1>6. CASE r.stance # "oracle" /\ (r.teach \/ r.reflect)
  <2>1. \/ RulesOverlay(r, p, due) = [move |-> "reciprocate", revisit |-> None]
        \/ RulesOverlay(r, p, due) = [move |-> "reflect", revisit |-> None]
    BY <1>4, <1>6
  <2>2. QED  BY <1>6, <2>1 DEF Plan, PeerMoves
<1>7. CASE ~(r.stance # "oracle" /\ (r.teach \/ r.reflect))
  <2>1. RulesOverlay(r, p, due) = [move |-> Coerce(r.stance, chosen),
                                   revisit |-> IF revisits THEN due ELSE None]
    BY <1>4, <1>7
  <2>2. QED  BY <1>3, <1>5, <2>1 DEF Plan
<1>8. QED  BY <1>6, <1>7

\* A concept due for review is one of the taxonomy's.
LEMMA FirstDueIs ==
    ASSUME NEW m, NEW ex \in Exercises, NEW due \in FirstDue(m, ex)
    PROVE  due \in Concepts \cup {None} /\ (due # None => due \in DueReview(m, ex))
  BY ConceptAssumption DEF FirstDue, DueReview

LEMMA ShortSeq ==
    ASSUME NEW S, NEW e \in S
    PROVE  <<>> \in Seq(S) /\ <<e>> \in Seq(S)
  OBVIOUS

LEMMA TurnEventsType == ASSUME NEW r, NEW move PROVE TurnEvents(r, move) \in Seq(EventTypes)
<1> DEFINE g == IF r.goals = "honored" THEN <<"goal_alignment_check">> ELSE <<>>
           f == IF move = "reflect" THEN <<"reflect">> ELSE <<>>
           k == IF r.spoke THEN <<"retrieval">> ELSE <<>>
<1>1. /\ <<"turn">> \in Seq(EventTypes) /\ g \in Seq(EventTypes)
      /\ f \in Seq(EventTypes) /\ k \in Seq(EventTypes)
  <2>1. {"turn", "goal_alignment_check", "reflect", "retrieval"} \subseteq EventTypes
    BY DEF EventTypes
  <2>2. QED  BY <2>1, ShortSeq
<1>2. TurnEvents(r, move) = <<"turn">> \o g \o f \o k  BY DEF TurnEvents
<1> HIDE DEF g, f, k
<1>3. QED  BY <1>1, <1>2

-----------------------------------------------------------------------------
(* Type correctness.                                                       *)

\* The answers of the models, whichever they are.
LEMMA RespondTypes ==
    ASSUME NEW d \in Drafts, NEW e \in Evals
    PROVE  d \in Draft /\ e \in Eval
  BY TurnAssumption

\* The gate composes a reply out of a draft.
LEMMA GateTypes ==
    ASSUME TypeInv, Gate, req \in Requests
    PROVE  draft' \in Draft /\ plan' \in Plan /\ reply' \in Reply
<1>1. draft \in Draft /\ plan \in Plan /\ eval \in Eval  BY DEF TypeInv
<1> DEFINE abstains == Abstains(req, eval)
           judged == IF abstains THEN Abstain(draft) ELSE draft
           move == IF abstains THEN "escalate" ELSE plan.move
           block == Blocks(req.stance, judged.message)
           gated == IF block THEN SafeRewrite(judged) ELSE judged
           softens == Softens(req.stance, gated.message)
           final == IF softens THEN Soften(gated) ELSE gated
<1>2. judged \in Draft  BY <1>1, AbstainIs
<1>3. move \in PeerMoves  BY <1>1 DEF Plan, PeerMoves
<1>4. /\ draft' = final /\ plan' = [plan EXCEPT !.move = move]
      /\ reply' = [message |-> final.message, question |-> final.question,
                   move |-> move, flag |-> Flag(req, move, judged.message),
                   conf |-> Headline(eval, final, block \/ softens),
                   block |-> block, abstained |-> abstains, softened |-> softens]
  BY DEF Gate
<1>5. Flag(req, move, judged.message)
        \in {"none", "withholding_solution", "redirect_answer_seeking", "flag_escalate"}
  BY DEF Flag
<1>6. abstains \in BOOLEAN /\ block \in BOOLEAN
  BY DEF Abstains, Blocks
<1> HIDE DEF judged
<1>7. gated \in Draft  BY <1>2, SafeRewriteIs
<1>8. gated.message.rude \in BOOLEAN  BY <1>7 DEF Draft, Message
<1>9. softens \in BOOLEAN  BY <1>8 DEF Softens
<1> HIDE DEF gated
<1>10. final \in Draft  BY <1>7, SoftenIs
<1> HIDE DEF final
<1>11. Headline(eval, final, block \/ softens) \in Percent
  <2>1. eval.conf \in Percent /\ final.conf \in Percent  BY <1>1, <1>10 DEF Eval, Draft
  <2>2. QED  BY <2>1, LowerIs DEF Headline
<1>12. plan' \in Plan  BY <1>1, <1>3, <1>4 DEF Plan
<1> HIDE DEF move, block, softens, abstains
<1>13. final.message \in Message /\ final.question \in SUBSET Snippets  BY <1>10 DEF Draft
<1>14. reply' \in Reply
  BY <1>3, <1>4, <1>5, <1>6, <1>9, <1>11, <1>13 DEF Reply
<1>15. QED  BY <1>4, <1>10, <1>12, <1>14

LEMMA InitTypes == Init => TypeInv
<1> SUFFICES ASSUME Init PROVE TypeInv
  OBVIOUS
<1>1. plan \in Plan  BY DEF Init, BlankPlan, Plan, PeerMoves, OracleMoves
<1>2. 0 \in Percent  BY DEF Percent
<1>3. draft \in Draft /\ eval \in Eval
  BY <1>2, CannedType DEF Init, BlankDraft, BlankEval, Draft, Eval
<1>4. reply \in Reply  BY FixedReplyType DEF Init
<1>5. concepts \in ConceptMap  BY DEF Init, EmptyMap, ConceptMap
<1>6. pending \in Seq(EventTypes) /\ events \in Seq(EventTypes)  BY DEF Init
<1>7. solves \in [Concepts -> Nat]  BY DEF Init
<1>8. QED  BY <1>1, <1>3, <1>4, <1>5, <1>6, <1>7 DEF Init, TypeInv, Stages, Ended

\* Every step keeps every variable in its type.
LEMMA NextTypes == TypeInv /\ [Next]_vars => TypeInv'
<1> SUFFICES ASSUME TypeInv, [Next]_vars PROVE TypeInv'
  OBVIOUS
<1> USE DEF TypeInv
<1>1. ASSUME NEW r \in Requests, Accept(r) PROVE TypeInv'
  <2>1. plan' \in Plan  BY <1>1 DEF Accept, BlankPlan, Plan, PeerMoves, OracleMoves
  <2>2. 0 \in Percent  BY DEF Percent
  <2>3. draft' \in Draft /\ eval' \in Eval
    BY <1>1, <2>2, CannedType DEF Accept, BlankDraft, BlankEval, Draft, Eval
  <2>4. reply' \in Reply  BY <1>1, FixedReplyType DEF Accept
  <2>5. <<>> \in Seq(EventTypes) /\ <<"overlay_set">> \in Seq(EventTypes)
    <3>1. "overlay_set" \in EventTypes  BY DEF EventTypes
    <3>2. QED  BY <3>1, ShortSeq
  <2>6. events' \in Seq(EventTypes) /\ pending' \in Seq(EventTypes)
    BY <1>1, <2>5 DEF Accept
  <2>7. /\ pc' = "routing" /\ req' = r /\ refines' = 0 /\ escalations' = 0 /\ retries' = 0
        /\ shown' = FALSE /\ learned' = FALSE /\ turns' = turns + 1
        /\ UNCHANGED <<concepts, signal, solves, updates>>
    BY <1>1 DEF Accept
  <2>8. r \in Requests  BY <1>1
  <2>9. /\ pc' \in Stages /\ req' \in Requests
        /\ refines' \in Nat /\ escalations' \in Nat /\ retries' \in Nat
        /\ shown' \in BOOLEAN /\ learned' \in BOOLEAN /\ turns' \in Nat
    <3>1. pc' \in Stages /\ req' \in Requests  BY <2>7, <2>8 DEF Stages, Ended
    <3>2. refines' \in Nat /\ escalations' \in Nat /\ retries' \in Nat  BY <2>7
    <3>3. shown' \in BOOLEAN /\ learned' \in BOOLEAN  BY <2>7
    <3>4. turns' \in Nat  BY <2>7
    <3>5. QED  BY <3>1, <3>2, <3>3, <3>4
  <2>10. /\ concepts' \in ConceptMap /\ signal' \in Signal \cup {None}
         /\ solves' \in [Concepts -> Nat] /\ updates' \in Nat
    BY <2>7
  <2>11. QED  BY <2>1, <2>3, <2>4, <2>6, <2>9, <2>10
<1>2. CASE DistressTurn
  <2>1. <<>> \in Seq(EventTypes) /\ <<"distress">> \in Seq(EventTypes)
    <3>1. "distress" \in EventTypes  BY DEF EventTypes
    <3>2. QED  BY <3>1, ShortSeq
  <2>2. QED  BY <1>2, <2>1, FixedReplyType DEF DistressTurn, Stages, Ended, loop, memory
<1>3. CASE ControlTurn
  <2>1. <<"turn">> \in Seq(EventTypes)
    <3>1. "turn" \in EventTypes  BY DEF EventTypes
    <3>2. QED  BY <3>1, ShortSeq
  <2>2. QED  BY <1>3, <2>1, FixedReplyType DEF ControlTurn, Stages, Ended, loop, memory
<1>4. ASSUME NEW p \in PlannerReads, PlanMove(p) PROVE TypeInv'
  <2>1. req \in Requests  BY <1>4 DEF PlanMove
  <2>2. req \in Request /\ p \in PlannerRead  BY <2>1, TurnAssumption
  <2>3. req.ex \in Exercises  BY <2>2 DEF Request
  <2>4. PICK due \in FirstDue(concepts, req.ex) : plan' = RulesOverlay(req, p, due)
    BY <1>4 DEF PlanMove
  <2>5. due \in Concepts \cup {None}  BY <2>3, FirstDueIs
  <2>6. plan' \in Plan  BY <2>2, <2>4, <2>5, RulesOverlayIs
  <2>7. QED  BY <1>4, <2>6 DEF PlanMove, Stages, Ended, memory
<1>5. ASSUME NEW d \in Drafts, NEW e \in Evals,
             FirstDraft(d, e) \/ Refine(d, e) \/ Escalate(d, e) \/ RetryExample(d, e)
      PROVE  TypeInv'
  <2>1. draft' \in Draft /\ eval' \in Eval
    BY <1>5, RespondTypes DEF FirstDraft, Refine, Escalate, RetryExample, Respond
  <2>2. CASE FirstDraft(d, e)
    BY <2>1, <2>2 DEF FirstDraft, Stages, Ended, memory
  <2>3. CASE Refine(d, e)
    BY <2>1, <2>3 DEF Refine, Stages, Ended, memory
  <2>4. CASE Escalate(d, e)
    BY <2>1, <2>4 DEF Escalate, Stages, Ended, memory
  <2>5. CASE RetryExample(d, e)
    <3>1. pc # "idle"  BY <2>5 DEF RetryExample, Verifying, Settled
    <3>2. QED  BY <2>1, <2>5, <3>1 DEF RetryExample, Stages, Ended, memory
  <2>6. QED  BY <1>5, <2>2, <2>3, <2>4, <2>5
<1>6. CASE ShowExample
  <2>1. draft' \in Draft  BY <1>6, ShownType DEF ShowExample, Verified
  <2>2. pc # "idle"  BY <1>6 DEF ShowExample, Verifying, Settled
  <2>3. QED  BY <1>6, <2>1, <2>2 DEF ShowExample, Stages, Ended, memory
<1>7. CASE WithholdExample
  <2>1. pc # "idle"  BY <1>7 DEF WithholdExample, Verifying, Settled
  <2>2. QED  BY <1>7, <2>1 DEF WithholdExample, Stages, Ended, loop, memory
<1>8. CASE Gate
  <2>1. req \in Requests  BY <1>8 DEF Gate, Settled
  <2>2. draft' \in Draft /\ plan' \in Plan /\ reply' \in Reply  BY <1>8, <2>1, GateTypes
  <2>3. /\ pc' = "remember"
        /\ UNCHANGED <<req, eval, refines, escalations, retries, shown, pending, events,
                       concepts, signal, solves, updates, learned, turns>>
    BY <1>8 DEF Gate, memory
  <2>4. QED  BY <2>1, <2>2, <2>3 DEF Stages, Ended
<1>9. CASE Remember
  <2>1. req \in Request  BY <1>9, TurnAssumption DEF Remember
  <2>2. signal' \in Signal
    <3>1. req.ex \in Exercises /\ req.solved \in BOOLEAN /\ req.repeated \in BOOLEAN
      BY <2>1 DEF Request
    <3>2. draft.mid \in Misconceptions \cup {None} /\ plan.revisit \in Concepts \cup {None}
      BY DEF Draft, Plan
    <3>3. QED  BY <1>9, <3>1, <3>2 DEF Remember, Signal
  <2>3. concepts' = UpdateConcepts(concepts, signal'.ex, signal'.met, signal'.mid,
                                   signal'.repeated, signal'.revisit)
    BY <1>9 DEF Remember
  <2>4. concepts' \in ConceptMap  BY <2>2, <2>3, UpdateRule
  <2>5. solves' \in [Concepts -> Nat]  BY <1>9 DEF Remember
  <2>6. pending' \in Seq(EventTypes)  BY <1>9, TurnEventsType DEF Remember
  <2>7. updates' \in Nat /\ learned' \in BOOLEAN /\ pc' = "trace"
    BY <1>9 DEF Remember
  <2>8. UNCHANGED <<req, plan, draft, eval, refines, escalations, retries, shown, reply,
                    events, turns>>
    BY <1>9 DEF Remember, loop
  <2>9. req \in Requests  BY <1>9 DEF Remember
  <2>10. QED
    BY <2>2, <2>4, <2>5, <2>6, <2>7, <2>8, <2>9 DEF Stages, Ended
<1>10. CASE AppendEvent
  <2>1. pending' \in Seq(EventTypes) /\ events' \in Seq(EventTypes)
    <3>1. pending # <<>> /\ pending \in Seq(EventTypes)  BY <1>10 DEF AppendEvent
    <3>2. Head(pending) \in EventTypes /\ Tail(pending) \in Seq(EventTypes)  BY <3>1
    <3>3. \/ UNCHANGED <<pending, events>>
          \/ pending' = Tail(pending) /\ events' = Append(events, Head(pending))
      BY <1>10 DEF AppendEvent
    <3>4. events \in Seq(EventTypes) /\ pending \in Seq(EventTypes)  OBVIOUS
    <3>5. Append(events, Head(pending)) \in Seq(EventTypes)  BY <3>2, <3>4
    <3>6. QED  BY <3>2, <3>3, <3>4, <3>5
  <2>2. pc' \in {"trace", "failed"} /\ req \in Requests  BY <1>10 DEF AppendEvent
  <2>3. UNCHANGED <<req, loop, reply, memory, turns>>  BY <1>10 DEF AppendEvent
  <2>4. QED  BY <2>1, <2>2, <2>3 DEF Stages, Ended, loop, memory
<1>11. CASE Answer
  BY <1>11 DEF Answer, Stages, Ended, loop, memory
<1>12. CASE Fail
  BY <1>12 DEF Fail, Stages, Ended, loop, memory
<1>13. CASE UNCHANGED vars
  BY <1>13 DEF vars, loop, memory
<1>14. QED
  BY <1>1, <1>2, <1>3, <1>4, <1>5, <1>6, <1>7, <1>8, <1>9, <1>10, <1>11, <1>12, <1>13
  DEF Next, Serve

\* Every variable keeps its type for good: in particular every stage hands the next
\* a well-formed plan, draft and reply, and the stored concept map stays well formed.
THEOREM TypeCorrect == Spec => []TypeInv
  BY InitTypes, NextTypes, PTL DEF Spec

-----------------------------------------------------------------------------
(* The gate.                                                               *)

\* What every earlier stage has established when a later one starts: a tutored
\* turn is neither control nor distress and has not touched memory, oracle plans
\* stay in oracle's menu, and a planned revisit is still due.
Planned == {"drafting", "loop", "example", "gate"}

StageInv ==
    /\ pc \in Planned \cup {"remember"} =>
         /\ ~WantsSupport /\ req.stance # "control"
         /\ plan.revisit # None =>
              plan.revisit \in DueReview(concepts, req.ex) /\ ~req.solved /\ ~req.repeated
    /\ pc \in Planned => (req.stance = "oracle" => plan.move \in OracleMoves)
    /\ pc \in Planned \cup {"routing", "remember"} => ~learned
    /\ updates <= turns /\ turns <= MaxTurns
    /\ pc \notin Ended /\ ~learned => updates < turns

ReplyInv == NoSolutionReachesPeer /\ LeakIsAccountedFor /\ OracleIsNeverGoverned

TurnInv == TypeInv /\ StageInv /\ ReplyInv

\* The gate's reply meets every promise, whatever draft reaches it.
LEMMA GateReply ==
    ASSUME TypeInv, StageInv, Gate
    PROVE  ReplyInv'
<1>1. draft \in Draft /\ plan \in Plan /\ eval \in Eval  BY DEF TypeInv
<1>2. pc \in Planned /\ req' = req  BY DEF Gate, Settled, Planned
<1> DEFINE abstains == Abstains(req, eval)
           judged == IF abstains THEN Abstain(draft) ELSE draft
           move == IF abstains THEN "escalate" ELSE plan.move
           block == Blocks(req.stance, judged.message)
           gated == IF block THEN SafeRewrite(judged) ELSE judged
           softens == Softens(req.stance, gated.message)
           final == IF softens THEN Soften(gated) ELSE gated
<1>3. /\ reply' = [message |-> final.message, question |-> final.question,
                   move |-> move, flag |-> Flag(req, move, judged.message),
                   conf |-> Headline(eval, final, block \/ softens),
                   block |-> block, abstained |-> abstains, softened |-> softens]
  BY DEF Gate
<1>4. judged \in Draft  BY <1>1, AbstainIs
<1>5. Flag(req, move, judged.message) =
        IF block THEN "withholding_solution"
        ELSE IF move = "escalate" THEN "flag_escalate"
        ELSE IF req.stance = "peer" /\ req.asks THEN "redirect_answer_seeking" ELSE "none"
  BY DEF Flag
<1>6. block <=> req.stance = "peer" /\ LeakFails(judged.message)  BY DEF Blocks
<1>7. abstains => req.stance = "peer"  BY DEF Abstains
<1>8. req.stance = "oracle" => ~abstains /\ move \in OracleMoves
  BY <1>2, <1>7 DEF StageInv
<1> HIDE DEF judged, move, abstains
<1>9. gated \in Draft
      /\ (block => gated.message.code = {} /\ gated.message.redirect)
      /\ (~block => gated = judged)
  BY <1>4, SafeRewriteIs
<1> HIDE DEF block
<1>10. softens => req.stance = "peer"  BY DEF Softens
<1> HIDE DEF gated
<1>11. /\ softens => final.message = Canned
       /\ ~softens => final = gated
  BY <1>9, SoftenIs
<1> HIDE DEF softens, final
<1>12. Canned.code = {} /\ ~LeakFails(Canned)  BY DEF Canned, LeakFails
<1>13. /\ reply'.message = final.message /\ reply'.move = move
       /\ reply'.flag = Flag(req, move, judged.message)
       /\ reply'.block = block /\ reply'.abstained = abstains /\ reply'.softened = softens
  BY <1>3
<1>14. NoSolutionReachesPeer'
  <2>1. ~LeakFails(judged.message) => judged.message.code \cap Solving = {}
    BY DEF LeakFails
  <2>2. req.stance = "peer" => final.message.code \cap Solving = {}
    BY <2>1, <1>6, <1>9, <1>11, <1>12
  <2>3. QED  BY <2>2, <1>2, <1>13 DEF NoSolutionReachesPeer
<1>15. LeakIsAccountedFor'
  <2>1. req.stance = "peer" => (LeakFails(final.message) => block)
    BY <1>6, <1>9, <1>11, <1>12
  <2>2. block => final.message.redirect \/ softens  BY <1>9, <1>11
  <2>3. block => reply'.flag = "withholding_solution"  BY <1>5, <1>13
  <2>4. LeakFails(reply'.message) <=> LeakFails(final.message)  BY <1>13
  <2>5. reply'.message.redirect <=> final.message.redirect  BY <1>13
  <2>6. (reply'.block <=> block) /\ (reply'.softened <=> softens)  BY <1>13
  <2>7. ASSUME req.stance = "peer"
        PROVE  /\ LeakFails(reply'.message) => reply'.block
               /\ reply'.block => /\ reply'.flag = "withholding_solution"
                                  /\ reply'.message.redirect \/ reply'.softened
    BY <2>1, <2>2, <2>3, <2>4, <2>5, <2>6, <2>7
  <2>8. LeakFails(reply)' = LeakFails(reply')  BY DEF LeakFails
  <2>9. QED  BY <2>7, <1>2 DEF LeakIsAccountedFor, LeakFails
<1>16. OracleIsNeverGoverned'
  <2>1. ASSUME req.stance = "oracle"
        PROVE  /\ reply'.flag = "none" /\ reply'.move \in OracleMoves
               /\ ~reply'.block /\ ~reply'.abstained /\ ~reply'.softened
    <3>1. ~block /\ ~abstains /\ ~softens  BY <2>1, <1>6, <1>8, <1>10
    <3>2. move \in OracleMoves /\ move # "escalate"  BY <2>1, <1>8 DEF OracleMoves
    <3>3. QED  BY <2>1, <3>1, <3>2, <1>5, <1>13
  <2>2. QED  BY <2>1, <1>2 DEF OracleIsNeverGoverned
<1>17. QED  BY <1>14, <1>15, <1>16 DEF ReplyInv

\* The fixed replies do too.
LEMMA FixedReplies ==
    ASSUME DistressTurn \/ ControlTurn
    PROVE  ReplyInv'
<1>1. /\ reply'.message = Canned /\ req' = req
      /\ ~reply'.block /\ ~reply'.abstained /\ ~reply'.softened
  BY DEF DistressTurn, ControlTurn, FixedReply
<1>2. WantsSupport \/ req.stance = "control"
  BY DEF DistressTurn, ControlTurn, WantsSupport, Distressed
<1>3. WantsSupport' = WantsSupport  BY <1>1 DEF WantsSupport
<1>4. Canned.code = {} /\ ~LeakFails(Canned)  BY DEF Canned, LeakFails
<1>5. NoSolutionReachesPeer'  BY <1>1, <1>4 DEF NoSolutionReachesPeer
<1>6. LeakIsAccountedFor'  BY <1>1, <1>4 DEF LeakIsAccountedFor, LeakFails
<1>7. OracleIsNeverGoverned'  BY <1>1, <1>2, <1>3 DEF OracleIsNeverGoverned
<1>8. QED  BY <1>5, <1>6, <1>7 DEF ReplyInv

-----------------------------------------------------------------------------
(* The invariant.                                                          *)

LEMMA InitTurnInv == Init => TurnInv
<1> SUFFICES ASSUME Init PROVE TurnInv
  OBVIOUS
<1>1. TypeInv  BY InitTypes
<1>2. StageInv
  BY TurnAssumption DEF Init, StageInv, Planned, Ended
<1>3. ReplyInv
  BY DEF Init, ReplyInv, NoSolutionReachesPeer, LeakIsAccountedFor, OracleIsNeverGoverned,
         Composed
<1>4. QED  BY <1>1, <1>2, <1>3 DEF TurnInv

\* A step that leaves the request and the reply alone, and enters no stage in which
\* a reply is composed that it was not in already, keeps what the reply promises.
LEMMA ReplyKept ==
    ASSUME ReplyInv, UNCHANGED <<req, reply>>, Composed' => Composed
    PROVE  ReplyInv'
  BY DEF ReplyInv, NoSolutionReachesPeer, LeakIsAccountedFor, OracleIsNeverGoverned,
         WantsSupport, LeakFails

LEMMA NextReply == TurnInv /\ [Next]_vars => ReplyInv'
<1> SUFFICES ASSUME TypeInv, StageInv, ReplyInv, [Next]_vars PROVE ReplyInv'
  BY DEF TurnInv
<1>1. ASSUME pc' \notin {"remember", "trace", "answered"} PROVE ReplyInv'
  BY <1>1 DEF ReplyInv, NoSolutionReachesPeer, LeakIsAccountedFor, OracleIsNeverGoverned,
              Composed
<1>2. ASSUME NEW r \in Requests, Accept(r) PROVE ReplyInv'
  BY <1>1, <1>2 DEF Accept
<1>3. CASE DistressTurn \/ ControlTurn  BY <1>3, FixedReplies
<1>4. ASSUME NEW p \in PlannerReads, PlanMove(p) PROVE ReplyInv'
  BY <1>1, <1>4 DEF PlanMove
<1>5. ASSUME NEW d \in Drafts, NEW e \in Evals,
             FirstDraft(d, e) \/ Refine(d, e) \/ Escalate(d, e) \/ RetryExample(d, e)
      PROVE  ReplyInv'
  BY <1>1, <1>5 DEF FirstDraft, Refine, Escalate, RetryExample
<1>6. CASE ShowExample \/ WithholdExample  BY <1>1, <1>6 DEF ShowExample, WithholdExample
<1>7. CASE Gate  BY <1>7, GateReply
<1>8. CASE Remember \/ AppendEvent \/ Answer
  BY <1>1, <1>8, ReplyKept DEF Remember, AppendEvent, Answer, Composed
<1>9. CASE Fail  BY <1>1, <1>9 DEF Fail
<1>10. CASE UNCHANGED vars  BY <1>10, ReplyKept DEF vars, Composed
<1>11. QED  BY <1>2, <1>3, <1>4, <1>5, <1>6, <1>7, <1>8, <1>9, <1>10 DEF Next, Serve

LEMMA NextStage == TurnInv /\ [Next]_vars => StageInv'
<1> SUFFICES ASSUME TypeInv, StageInv, [Next]_vars PROVE StageInv'
  BY DEF TurnInv
<1> USE DEF StageInv, Planned, Ended, WantsSupport
<1>0. turns \in Nat /\ updates \in Nat /\ MaxTurns \in Nat  BY TurnAssumption DEF TypeInv
<1>1. ASSUME NEW r \in Requests, Accept(r) PROVE StageInv'
  BY <1>0, <1>1 DEF Accept
<1>2. CASE DistressTurn \/ ControlTurn
  BY <1>2 DEF DistressTurn, ControlTurn, memory
<1>3. ASSUME NEW p \in PlannerReads, PlanMove(p) PROVE StageInv'
  <2>1. req \in Request /\ p \in PlannerRead
    BY <1>3, TurnAssumption DEF PlanMove, TypeInv
  <2>2. req.ex \in Exercises  BY <2>1 DEF Request
  <2>3. PICK due \in FirstDue(concepts, req.ex) : plan' = RulesOverlay(req, p, due)
    BY <1>3 DEF PlanMove
  <2>4. due \in Concepts \cup {None} /\ (due # None => due \in DueReview(concepts, req.ex))
    BY <2>2, FirstDueIs
  <2>5. /\ req.stance = "oracle" => plan'.move \in OracleMoves
        /\ plan'.revisit # None =>
             plan'.revisit \in DueReview(concepts, req.ex) /\ ~req.solved /\ ~req.repeated
    BY <2>1, <2>3, <2>4, RulesOverlayIs
  <2>6. /\ pc = "routing" /\ pc' = "drafting" /\ ~Distressed(req) /\ req.stance # "control"
        /\ UNCHANGED <<req, concepts, updates, learned, turns>>
    BY <1>3 DEF PlanMove, memory
  <2>7. QED  BY <2>5, <2>6 DEF Distressed
<1>4. ASSUME NEW d \in Drafts, NEW e \in Evals,
             FirstDraft(d, e) \/ Refine(d, e) \/ Escalate(d, e) \/ RetryExample(d, e)
      PROVE  StageInv'
  BY <1>4 DEF FirstDraft, Refine, Escalate, RetryExample, Verifying, Settled, memory
<1>5. CASE ShowExample \/ WithholdExample
  BY <1>5 DEF ShowExample, WithholdExample, Verifying, Settled, memory, loop
<1>6. CASE Gate
  <2>1. plan'.revisit = plan.revisit  BY <1>6 DEF Gate, TypeInv, Plan
  <2>2. /\ pc \in Planned /\ pc' = "remember"
        /\ UNCHANGED <<req, concepts, updates, learned, turns>>
    BY <1>6 DEF Gate, Settled, memory
  <2>3. QED  BY <2>1, <2>2
<1>7. CASE Remember
  BY <1>0, <1>7 DEF Remember
<1>8. CASE AppendEvent \/ Answer \/ Fail
  BY <1>8 DEF AppendEvent, Answer, Fail, memory, loop
<1>9. CASE UNCHANGED vars  BY <1>9 DEF vars, memory, loop
<1>10. QED  BY <1>1, <1>2, <1>3, <1>4, <1>5, <1>6, <1>7, <1>8, <1>9 DEF Next, Serve

LEMMA NextTurnInv == TurnInv /\ [Next]_vars => TurnInv'
  BY NextTypes, NextReply, NextStage DEF TurnInv

LEMMA TurnInvariant == Spec => []TurnInv
  BY InitTurnInv, NextTurnInv, PTL DEF Spec

\* For any taxonomy, any answers of the three models and any settings, no peer reply
\* contains code that the grader accepts.
THEOREM SolutionNeverReachesPeer == Spec => []NoSolutionReachesPeer
<1>1. TurnInv => NoSolutionReachesPeer  BY DEF TurnInv, ReplyInv
<1>2. QED  BY TurnInvariant, <1>1, PTL

\* A peer reply that trips the leak signal is always a blocked one, and a blocked one
\* always carries a replacement.
THEOREM EveryLeakIsAccountedFor == Spec => []LeakIsAccountedFor
<1>1. TurnInv => LeakIsAccountedFor  BY DEF TurnInv, ReplyInv
<1>2. QED  BY TurnInvariant, <1>1, PTL

\* No gate, abstention or peer move ever applies to an oracle turn.
THEOREM OracleAnswers == Spec => []OracleIsNeverGoverned
<1>1. TurnInv => OracleIsNeverGoverned  BY DEF TurnInv, ReplyInv
<1>2. QED  BY TurnInvariant, <1>1, PTL

-----------------------------------------------------------------------------
(* Worked examples and abstention.                                         *)

\* What the loops leave behind: an example counts as shown only from the gate on,
\* and the gate finds it verified and in the draft; a turn comes to the gate without
\* having regenerated an example only when no escalation was left to take.
LoopInv ==
    /\ shown => pc \in {"gate", "remember", "trace", "answered", "failed"}
    /\ shown /\ pc = "gate" =>
         Verified(draft.example) /\ draft.example \in draft.message.code
    /\ pc = "example" => retries > 0
    /\ escalations <= MaxEscalate
    /\ pc = "gate" /\ retries = 0 =>
         ~(eval.conf < TauEscalate /\ escalations < MaxEscalate)

AbstentionInv == AbstentionIsFlagged /\ ShownExampleIsVerified /\ AbstentionFollowsEscalation

\* The gate's reply is true of the example and of the escalations behind it.
LEMMA GateAbstention ==
    ASSUME TypeInv, LoopInv, Gate
    PROVE  AbstentionInv'
<1>1. draft \in Draft /\ plan \in Plan /\ eval \in Eval  BY DEF TypeInv
<1> DEFINE abstains == Abstains(req, eval)
           judged == IF abstains THEN Abstain(draft) ELSE draft
           move == IF abstains THEN "escalate" ELSE plan.move
           block == Blocks(req.stance, judged.message)
           gated == IF block THEN SafeRewrite(judged) ELSE judged
           softens == Softens(req.stance, gated.message)
           final == IF softens THEN Soften(gated) ELSE gated
<1>2. /\ draft' = final /\ pc' = "remember"
      /\ reply' = [message |-> final.message, question |-> final.question,
                   move |-> move, flag |-> Flag(req, move, judged.message),
                   conf |-> Headline(eval, final, block \/ softens),
                   block |-> block, abstained |-> abstains, softened |-> softens]
      /\ UNCHANGED <<req, eval, escalations, retries, shown>>
  BY DEF Gate
<1>3. judged \in Draft /\ judged.example = draft.example
      /\ (abstains => judged.message = Canned) /\ (~abstains => judged = draft)
  BY <1>1, AbstainIs DEF Abstain, Draft
<1>4. ~LeakFails(Canned) /\ ~Canned.rude  BY DEF Canned, LeakFails
<1>5. abstains => ~block  BY <1>3, <1>4 DEF Blocks
<1>6. Flag(req, move, judged.message) =
        IF block THEN "withholding_solution"
        ELSE IF move = "escalate" THEN "flag_escalate"
        ELSE IF req.stance = "peer" /\ req.asks THEN "redirect_answer_seeking" ELSE "none"
  BY DEF Flag
<1>7. abstains => move = "escalate"  OBVIOUS
<1>8. abstains <=> req.stance = "peer" /\ eval.conf < TauAbstain  BY DEF Abstains
<1> HIDE DEF judged, move, abstains
<1>9. gated.example = draft.example /\ (~block => gated = judged)
  BY <1>3 DEF SafeRewrite, Draft
<1>10. abstains => ~softens  BY <1>3, <1>4, <1>5, <1>9 DEF Softens
<1> HIDE DEF block, gated
<1>11. final.example = draft.example /\ (~softens => final = gated)
  <2>1. gated \in Draft \/ gated \notin Draft  OBVIOUS
  <2>2. Soften(gated).example = gated.example  BY DEF Soften
  <2>3. QED  BY <1>9, <2>2
<1> HIDE DEF softens, final
<1>12. /\ reply'.abstained = abstains /\ reply'.block = block /\ reply'.softened = softens
       /\ reply'.flag = Flag(req, move, judged.message) /\ reply'.move = move
       /\ reply'.message = final.message
  BY <1>2
<1>13. AbstentionIsFlagged'
  BY <1>5, <1>6, <1>7, <1>10, <1>12 DEF AbstentionIsFlagged
<1>14. ShownExampleIsVerified'
  <2>1. shown => pc = "gate"
    BY DEF Gate, Settled, LoopInv
  <2>2. ASSUME shown
        PROVE  /\ draft.example \in Snippets \ (Broken \cup Solving)
               /\ draft.example \in draft.message.code
    <3>1. Verified(draft.example) /\ draft.example \in draft.message.code
      BY <2>1, <2>2 DEF LoopInv
    <3>2. draft.example \in Snippets \cup {None}  BY <1>1 DEF Draft
    <3>3. QED  BY <3>1, <3>2 DEF Verified
  <2>3. ~abstains /\ ~block /\ ~softens => final.message = draft.message
    BY <1>3, <1>9, <1>11
  <2>4. draft'.example = draft.example  BY <1>2, <1>11
  <2>5. shown' = shown  BY <1>2
  <2>6. QED  BY <2>2, <2>3, <2>4, <2>5, <1>12 DEF ShownExampleIsVerified
<1>15. AbstentionFollowsEscalation'
  <2>1. ASSUME abstains, retries = 0, TauAbstain <= TauEscalate
        PROVE  escalations = MaxEscalate
    <3>1. eval.conf \in Nat /\ TauAbstain \in Nat /\ TauEscalate \in Nat
          /\ escalations \in Nat /\ MaxEscalate \in Nat
      <4>1. eval.conf \in Percent  BY <1>1 DEF Eval
      <4>2. TauAbstain \in Percent /\ TauEscalate \in Percent /\ MaxEscalate \in Nat
        BY TurnAssumption
      <4>3. escalations \in Nat  BY DEF TypeInv
      <4>4. Percent \subseteq Nat  BY DEF Percent
      <4>5. QED  BY <4>1, <4>2, <4>3, <4>4
    <3>2. eval.conf < TauEscalate  BY <3>1, <2>1, <1>8
    <3>3. ~(eval.conf < TauEscalate /\ escalations < MaxEscalate)
      BY <2>1, <3>2 DEF Gate, Settled, Escalatable, LoopInv
    <3>4. escalations <= MaxEscalate  BY DEF LoopInv
    <3>5. QED  BY <3>1, <3>2, <3>3, <3>4
  <2>2. UNCHANGED <<escalations, retries>>  BY <1>2
  <2>3. QED  BY <2>1, <2>2, <1>12 DEF AbstentionFollowsEscalation
<1>16. QED  BY <1>13, <1>14, <1>15 DEF AbstentionInv

LEMMA NextLoop ==
    ASSUME TypeInv, LoopInv, [Next]_vars
    PROVE  LoopInv'
<1>0. /\ escalations \in Nat /\ retries \in Nat /\ MaxEscalate \in Nat /\ draft \in Draft
  BY TurnAssumption DEF TypeInv
<1>1. ASSUME NEW r \in Requests, Accept(r) PROVE LoopInv'
  BY <1>0, <1>1 DEF Accept, LoopInv
<1>2. CASE DistressTurn \/ ControlTurn
  BY <1>2 DEF DistressTurn, ControlTurn, LoopInv, loop
<1>3. ASSUME NEW p \in PlannerReads, PlanMove(p) PROVE LoopInv'
  BY <1>3 DEF PlanMove, LoopInv
<1>4. ASSUME NEW d \in Drafts, NEW e \in Evals,
             FirstDraft(d, e) \/ Refine(d, e) \/ Escalate(d, e) \/ RetryExample(d, e)
      PROVE  LoopInv'
  <2>1. CASE FirstDraft(d, e) \/ Refine(d, e)
    BY <2>1 DEF FirstDraft, Refine, LoopInv
  <2>2. CASE Escalate(d, e)
    BY <1>0, <2>2 DEF Escalate, Escalatable, LoopInv
  <2>3. CASE RetryExample(d, e)
    BY <1>0, <2>3 DEF RetryExample, Verifying, Settled, LoopInv
  <2>4. QED  BY <1>4, <2>1, <2>2, <2>3
<1>5. CASE ShowExample
  <2>1. /\ pc' = "gate" /\ UNCHANGED <<eval, escalations, retries>>
        /\ Verified(draft.example)
        /\ draft' = [draft EXCEPT !.message.code = @ \cup {draft.example}]
    BY <1>5 DEF ShowExample
  <2>2. draft.message \in Message  BY <1>0 DEF Draft
  <2>3. draft'.example = draft.example
    BY <1>0, <2>1 DEF Draft
  <2>4. draft.example \in draft'.message.code
    BY <1>0, <2>1, <2>2 DEF Draft, Message
  <2>5. retries = 0 => ~(eval.conf < TauEscalate /\ escalations < MaxEscalate)
    BY <1>0, <1>5 DEF ShowExample, Verifying, Settled, Escalatable, LoopInv
  <2>6. Verified(draft'.example)  BY <2>1, <2>3
  <2>7. Verified(draft.example)' <=> Verified(draft'.example)  BY DEF Verified
  <2>8. escalations <= MaxEscalate  BY DEF LoopInv
  <2>9. QED  BY <2>1, <2>3, <2>4, <2>5, <2>6, <2>7, <2>8 DEF LoopInv
<1>6. CASE WithholdExample
  <2>1. ~shown  BY <1>6 DEF WithholdExample, Verifying, Settled, LoopInv
  <2>2. retries = 0 => ~(eval.conf < TauEscalate /\ escalations < MaxEscalate)
    BY <1>0, <1>6 DEF WithholdExample, Verifying, Settled, Escalatable, LoopInv
  <2>3. QED  BY <1>6, <2>1, <2>2 DEF WithholdExample, loop, LoopInv
<1>7. CASE Gate  BY <1>7 DEF Gate, LoopInv
<1>8. CASE Remember \/ AppendEvent \/ Answer \/ Fail
  BY <1>8 DEF Remember, AppendEvent, Answer, Fail, loop, LoopInv
<1>9. CASE UNCHANGED vars  BY <1>9 DEF vars, loop, LoopInv, Verified
<1>10. QED  BY <1>1, <1>2, <1>3, <1>4, <1>5, <1>6, <1>7, <1>8, <1>9 DEF Next, Serve

LEMMA NextAbstention ==
    ASSUME TypeInv, LoopInv, AbstentionInv, [Next]_vars
    PROVE  AbstentionInv'
<1> USE DEF AbstentionInv
<1>1. ASSUME pc' \notin {"remember", "trace", "answered"} PROVE AbstentionInv'
  BY <1>1 DEF AbstentionIsFlagged, ShownExampleIsVerified, AbstentionFollowsEscalation,
              Composed
<1>2. ASSUME NEW r \in Requests, Accept(r) PROVE AbstentionInv'
  BY <1>1, <1>2 DEF Accept
<1>3. CASE DistressTurn \/ ControlTurn
  <2>1. ~reply'.abstained
    BY <1>3 DEF DistressTurn, ControlTurn, FixedReply
  <2>2. ~shown'
    BY <1>3 DEF DistressTurn, ControlTurn, loop, LoopInv
  <2>3. QED
    BY <2>1, <2>2
    DEF AbstentionIsFlagged, ShownExampleIsVerified, AbstentionFollowsEscalation
<1>4. ASSUME NEW p \in PlannerReads, PlanMove(p) PROVE AbstentionInv'
  BY <1>1, <1>4 DEF PlanMove
<1>5. ASSUME NEW d \in Drafts, NEW e \in Evals,
             FirstDraft(d, e) \/ Refine(d, e) \/ Escalate(d, e) \/ RetryExample(d, e)
      PROVE  AbstentionInv'
  BY <1>1, <1>5 DEF FirstDraft, Refine, Escalate, RetryExample
<1>6. CASE ShowExample \/ WithholdExample  BY <1>1, <1>6 DEF ShowExample, WithholdExample
<1>7. CASE Gate  BY <1>7, GateAbstention
<1>8. ASSUME UNCHANGED <<reply, loop>>, Composed' => Composed PROVE AbstentionInv'
  BY <1>8 DEF AbstentionIsFlagged, ShownExampleIsVerified, AbstentionFollowsEscalation, loop
<1>9. CASE Remember \/ AppendEvent \/ Answer
  BY <1>1, <1>8, <1>9 DEF Remember, AppendEvent, Answer, Composed
<1>10. CASE Fail  BY <1>1, <1>10 DEF Fail
<1>11. CASE UNCHANGED vars  BY <1>8, <1>11 DEF vars, Composed
<1>12. QED
  BY <1>2, <1>3, <1>4, <1>5, <1>6, <1>7, <1>9, <1>10, <1>11 DEF Next, Serve

LEMMA LoopInvariant == Spec => [](TypeInv /\ LoopInv /\ AbstentionInv)
<1>1. Init => TypeInv /\ LoopInv /\ AbstentionInv
  BY InitTypes, TurnAssumption
  DEF Init, LoopInv, AbstentionInv, AbstentionIsFlagged, ShownExampleIsVerified,
      AbstentionFollowsEscalation, Composed
<1>2. TypeInv /\ LoopInv /\ AbstentionInv /\ [Next]_vars
        => (TypeInv /\ LoopInv /\ AbstentionInv)'
  BY NextTypes, NextLoop, NextAbstention
<1>3. QED  BY <1>1, <1>2, PTL DEF Spec

\* For any models and thresholds an abstention is flagged to the instructor, and no
\* later gate or softener takes the flag's place.
THEOREM AbstentionsAreFlagged == Spec => []AbstentionIsFlagged
<1>1. AbstentionInv => AbstentionIsFlagged  BY DEF AbstentionInv
<1>2. QED  BY LoopInvariant, <1>1, PTL

\* However often the example was regenerated, one reported as shown ran, did not solve
\* the exercise, and is in the reply unless the draft was replaced or redacted.
THEOREM ShownExamplesAreVerified == Spec => []ShownExampleIsVerified
<1>1. AbstentionInv => ShownExampleIsVerified  BY DEF AbstentionInv
<1>2. QED  BY LoopInvariant, <1>1, PTL

\* For any loop bounds and floors, abstention is the last resort of a turn that
\* regenerated no example.
THEOREM AbstentionIsLastResort == Spec => []AbstentionFollowsEscalation
<1>1. AbstentionInv => AbstentionFollowsEscalation  BY DEF AbstentionInv
<1>2. QED  BY LoopInvariant, <1>1, PTL

-----------------------------------------------------------------------------
(* The trace.                                                              *)

Occurs(type, s) == \E i \in DOMAIN s : s[i] = type

\* A turn event leads, and there is no other.
Led(s) ==
    /\ s \in Seq(EventTypes) /\ s # <<>> /\ s[1] = "turn"
    /\ \A i \in DOMAIN s : s[i] = "turn" => i = 1

One(s) == \E i \in DOMAIN s : s[i] = "turn" /\ \A j \in DOMAIN s : s[j] = "turn" => i = j

\* Nothing but the distress event, after that of the overlay the request carried.
Quiet ==
    \A i \in DOMAIN events :
        events[i] = "distress" \/ (events[i] = "overlay_set" /\ i = 1 /\ req.overlay)

LEMMA OccursIn ==
    /\ \A type : ~Occurs(type, <<>>)
    /\ \A type, e : Occurs(type, <<e>>) <=> e = type
  BY DEF Occurs

LEMMA ConcatIs ==
    ASSUME NEW s \in Seq(EventTypes), NEW t \in Seq(EventTypes)
    PROVE  /\ s \o t \in Seq(EventTypes)
           /\ \A type : Occurs(type, s \o t) <=> Occurs(type, s) \/ Occurs(type, t)
           /\ Led(s) /\ ~Occurs("turn", t) => Led(s \o t)
<1> DEFINE u == s \o t
<1>1. u \in Seq(EventTypes) /\ Len(u) = Len(s) + Len(t)  OBVIOUS
<1>2. \A i \in 1..Len(s) : u[i] = s[i]  OBVIOUS
<1>3. \A i \in 1..Len(t) : u[Len(s) + i] = t[i]  OBVIOUS
<1>4. Len(s) \in Nat /\ Len(t) \in Nat  OBVIOUS
<1>5. DOMAIN s = 1..Len(s) /\ DOMAIN t = 1..Len(t) /\ DOMAIN u = 1..Len(u)  BY <1>1
<1> HIDE DEF u
<1>6. \A i \in DOMAIN u :
        \/ i \in DOMAIN s /\ u[i] = s[i]
        \/ ~(i \in DOMAIN s) /\ \E j \in DOMAIN t : u[i] = t[j]
  <2>1. SUFFICES ASSUME NEW i \in DOMAIN u
                 PROVE  \/ i \in DOMAIN s /\ u[i] = s[i]
                        \/ ~(i \in DOMAIN s) /\ \E j \in DOMAIN t : u[i] = t[j]
    OBVIOUS
  <2>2. i \in 1..(Len(s) + Len(t))  BY <1>1, <1>5
  <2>3. CASE i <= Len(s)
    <3>1. i \in 1..Len(s)  BY <1>4, <2>2, <2>3
    <3>2. QED  BY <3>1, <1>2, <1>5
  <2>4. CASE ~(i <= Len(s))
    <3>1. i - Len(s) \in 1..Len(t) /\ Len(s) + (i - Len(s)) = i /\ i \notin 1..Len(s)
      BY <1>4, <2>2, <2>4
    <3>2. QED  BY <3>1, <1>3, <1>5
  <2>5. QED  BY <2>3, <2>4
<1>7. \A i \in DOMAIN s : i \in DOMAIN u /\ u[i] = s[i]
  BY <1>1, <1>2, <1>4, <1>5
<1>8. \A i \in DOMAIN t : Len(s) + i \in DOMAIN u /\ u[Len(s) + i] = t[i]
  BY <1>1, <1>3, <1>4, <1>5
<1>9. ASSUME NEW type
      PROVE  Occurs(type, u) <=> Occurs(type, s) \/ Occurs(type, t)
  BY <1>6, <1>7, <1>8 DEF Occurs
<1>10. ASSUME Led(s), ~Occurs("turn", t) PROVE Led(u)
  <2>1. 1 \in DOMAIN s  BY <1>4, <1>5, <1>10 DEF Led
  <2>2. u[1] = "turn" /\ 1 \in DOMAIN u  BY <2>1, <1>7, <1>10 DEF Led
  <2>3. u # <<>>  BY <2>2, <1>1, <1>5
  <2>4. \A i \in DOMAIN u : u[i] = "turn" => i = 1
    BY <1>6, <1>10 DEF Led, Occurs
  <2>5. QED  BY <1>1, <2>2, <2>3, <2>4 DEF Led
<1>11. QED  BY <1>1, <1>9, <1>10 DEF u

\* The events of an ordinary turn: the turn event first and once, and the goals'
\* event if the turn honored goals.
LEMMA TurnEventsAre ==
    ASSUME NEW r, NEW move
    PROVE  /\ Led(TurnEvents(r, move))
           /\ Occurs("goal_alignment_check", TurnEvents(r, move)) <=> r.goals = "honored"
<1> DEFINE a == <<"turn">>
           g == IF r.goals = "honored" THEN <<"goal_alignment_check">> ELSE <<>>
           f == IF move = "reflect" THEN <<"reflect">> ELSE <<>>
           k == IF r.spoke THEN <<"retrieval">> ELSE <<>>
<1>1. /\ a \in Seq(EventTypes) /\ g \in Seq(EventTypes)
      /\ f \in Seq(EventTypes) /\ k \in Seq(EventTypes)
  <2>1. {"turn", "goal_alignment_check", "reflect", "retrieval"} \subseteq EventTypes
    BY DEF EventTypes
  <2>2. QED  BY <2>1, ShortSeq
<1>2. TurnEvents(r, move) = ((a \o g) \o f) \o k
  <2>1. TurnEvents(r, move) = a \o g \o f \o k  BY DEF TurnEvents
  <2>2. QED  BY <2>1
<1>3. Led(a) /\ ~Occurs("goal_alignment_check", a)
  <2>1. a # <<>> /\ a[1] = "turn" /\ DOMAIN a = {1}  OBVIOUS
  <2>2. QED  BY <1>1, <2>1 DEF Led, Occurs
<1>4. ~Occurs("turn", g) /\ (Occurs("goal_alignment_check", g) <=> r.goals = "honored")
  <2>1. CASE r.goals = "honored"
    <3>1. g = <<"goal_alignment_check">>  BY <2>1
    <3>2. QED  BY <2>1, <3>1, OccursIn
  <2>2. CASE r.goals # "honored"
    <3>1. g = <<>>  BY <2>2
    <3>2. QED  BY <2>2, <3>1, OccursIn
  <2>3. QED  BY <2>1, <2>2
<1>5. ~Occurs("turn", f) /\ ~Occurs("goal_alignment_check", f)
  <2>1. f = <<"reflect">> \/ f = <<>>  OBVIOUS
  <2>2. QED  BY <2>1, OccursIn
<1>6. ~Occurs("turn", k) /\ ~Occurs("goal_alignment_check", k)
  <2>1. k = <<"retrieval">> \/ k = <<>>  OBVIOUS
  <2>2. QED  BY <2>1, OccursIn
<1> HIDE DEF a, g, f, k
<1>7. /\ a \o g \in Seq(EventTypes) /\ Led(a \o g)
      /\ Occurs("goal_alignment_check", a \o g) <=> r.goals = "honored"
  BY <1>1, <1>3, <1>4, ConcatIs
<1>8. /\ (a \o g) \o f \in Seq(EventTypes) /\ Led((a \o g) \o f)
      /\ Occurs("goal_alignment_check", (a \o g) \o f) <=> r.goals = "honored"
  <2> DEFINE ag == a \o g
  <2> HIDE DEF ag
  <2>1. /\ ag \in Seq(EventTypes) /\ Led(ag)
        /\ Occurs("goal_alignment_check", ag) <=> r.goals = "honored"
    BY <1>7 DEF ag
  <2>2. /\ ag \o f \in Seq(EventTypes) /\ Led(ag \o f)
        /\ Occurs("goal_alignment_check", ag \o f) <=> r.goals = "honored"
    BY <1>1, <1>5, <2>1, ConcatIs
  <2>3. QED  BY <2>2 DEF ag
<1>9. QED
  <2> DEFINE agf == (a \o g) \o f
  <2> HIDE DEF agf
  <2>1. /\ agf \in Seq(EventTypes) /\ Led(agf)
        /\ Occurs("goal_alignment_check", agf) <=> r.goals = "honored"
    BY <1>8 DEF agf
  <2>2. /\ Led(agf \o k)
        /\ Occurs("goal_alignment_check", agf \o k) <=> r.goals = "honored"
    BY <1>1, <1>6, <2>1, ConcatIs
  <2>3. TurnEvents(r, move) = agf \o k  BY <1>2 DEF agf
  <2>4. QED  BY <2>2, <2>3

\* Moving the first pending event to the trace.
LEMMA AppendIs ==
    ASSUME NEW s \in Seq(EventTypes), NEW q \in Seq(EventTypes), q # <<>>
    PROVE  /\ \A type : Occurs(type, Append(s, Head(q))) <=> Occurs(type, s) \/ Head(q) = type
           /\ \A type : Occurs(type, q) <=> Occurs(type, Tail(q)) \/ Head(q) = type
           /\ Led(q) => Head(q) = "turn" /\ ~Occurs("turn", Tail(q))
           /\ ~Occurs("turn", s) /\ Head(q) = "turn" => One(Append(s, Head(q)))
           /\ One(s) /\ Head(q) # "turn" => One(Append(s, Head(q)))
<1> DEFINE h == Head(q)
           t == Tail(q)
           u == Append(s, h)
<1>1. h = q[1] /\ t \in Seq(EventTypes) /\ Len(q) = Len(t) + 1  OBVIOUS
<1>2. \A i \in 1..Len(t) : t[i] = q[i + 1]  OBVIOUS
<1>3. h \in EventTypes /\ u \in Seq(EventTypes) /\ Len(u) = Len(s) + 1  OBVIOUS
<1>4. u[Len(s) + 1] = h /\ \A i \in 1..Len(s) : u[i] = s[i]  OBVIOUS
<1>5. Len(s) \in Nat /\ Len(t) \in Nat  BY <1>1
<1>6. /\ DOMAIN s = 1..Len(s) /\ DOMAIN q = 1..(Len(t) + 1)
      /\ DOMAIN t = 1..Len(t) /\ DOMAIN u = 1..(Len(s) + 1)
  BY <1>1, <1>3
<1> HIDE DEF h, t, u
<1>7. \A i \in DOMAIN u : (i \in DOMAIN s /\ u[i] = s[i]) \/ (i = Len(s) + 1 /\ u[i] = h)
  BY <1>4, <1>5, <1>6
<1>8. /\ Len(s) + 1 \in DOMAIN u /\ Len(s) + 1 \notin DOMAIN s
      /\ \A i \in DOMAIN s : i \in DOMAIN u /\ u[i] = s[i]
  BY <1>4, <1>5, <1>6
<1>9. 1 \in DOMAIN q /\ \A i \in DOMAIN t : i + 1 \in DOMAIN q /\ i + 1 # 1 /\ t[i] = q[i + 1]
  BY <1>2, <1>5, <1>6
<1>10. \A i \in DOMAIN q : i = 1 \/ \E j \in DOMAIN t : t[j] = q[i]
  <2>1. SUFFICES ASSUME NEW i \in DOMAIN q, i # 1 PROVE \E j \in DOMAIN t : t[j] = q[i]
    OBVIOUS
  <2>2. i - 1 \in 1..Len(t) /\ (i - 1) + 1 = i  BY <2>1, <1>5, <1>6
  <2>3. QED  BY <2>2, <1>2, <1>6
<1>11. \A type : Occurs(type, u) <=> Occurs(type, s) \/ h = type
  BY <1>4, <1>7, <1>8 DEF Occurs
<1>12. \A type : Occurs(type, q) <=> Occurs(type, t) \/ h = type
  BY <1>1, <1>9, <1>10 DEF Occurs
<1>13. Led(q) => h = "turn" /\ ~Occurs("turn", t)
  BY <1>1, <1>9 DEF Led, Occurs
<1>14. ~Occurs("turn", s) /\ h = "turn" => One(u)
  BY <1>4, <1>7, <1>8 DEF Occurs, One
<1>15. One(s) /\ h # "turn" => One(u)
  BY <1>7, <1>8 DEF One
<1>16. QED  BY <1>11, <1>12, <1>13, <1>14, <1>15 DEF h, t, u

\* What is in the trace, and what is still to come, stage by stage.
Tutored == ~WantsSupport /\ req.stance # "control"

TraceInv ==
    /\ learned => Tutored
    /\ Traced("turn") => learned \/ req.stance = "control"
    /\ pc \in Planned \cup {"routing", "remember"} =>
         /\ Quiet /\ ~Occurs("turn", events) /\ ~Occurs("goal_alignment_check", events)
    /\ pc \in {"trace", "answered"} /\ WantsSupport =>
         /\ reply.flag = "flag_escalate" /\ Quiet
         /\ pending = <<>> \/ pending = <<"distress">>
    /\ pc \in {"trace", "answered"} /\ ~WantsSupport =>
         /\ learned \/ req.stance = "control"
         /\ \/ pc = "trace" /\ Led(pending) /\ ~Occurs("turn", events)
            \/ One(events) /\ ~Occurs("turn", pending)
    /\ pc \in {"trace", "answered"} /\ Tutored =>
         (Occurs("goal_alignment_check", events) \/ Occurs("goal_alignment_check", pending)
            <=> req.goals = "honored")

TraceVars == <<req, reply, pending, events, learned>>

LEMMA TraceKept ==
    ASSUME TraceInv, UNCHANGED TraceVars,
           pc' \in Planned \cup {"remember"} => pc \in Planned \cup {"routing", "remember"},
           pc' # "routing", pc' \notin {"trace", "answered"} \/ pc' = pc
    PROVE  TraceInv'
  BY DEF TraceInv, TraceVars, Tutored, WantsSupport, Quiet, Traced, Occurs, One, Led

LEMMA InitTrace == Init => TraceInv
  BY DEF Init, TraceInv, Planned, Traced

LEMMA AcceptTrace ==
    ASSUME NEW r \in Requests, Accept(r)
    PROVE  TraceInv'
<1>1. /\ pc' = "routing" /\ ~learned' /\ req' = r
      /\ events' = <<>> \/ (events' = <<"overlay_set">> /\ r.overlay)
  BY DEF Accept
<1>2. ~Occurs("turn", events') /\ ~Occurs("goal_alignment_check", events')
  BY <1>1, OccursIn
<1>3. Quiet'
  <2>1. CASE events' = <<>>  BY <2>1 DEF Quiet
  <2>2. CASE events' = <<"overlay_set">> /\ r.overlay  BY <1>1, <2>2 DEF Quiet
  <2>3. QED  BY <1>1, <2>1, <2>2
<1>4. /\ Traced("turn")' <=> Occurs("turn", events')
      /\ \A type : Occurs(type, events)' <=> Occurs(type, events')
  BY DEF Traced, Occurs
<1>5. QED  BY <1>1, <1>2, <1>3, <1>4 DEF TraceInv

LEMMA FixedTrace ==
    ASSUME TraceInv, StageInv, DistressTurn \/ ControlTurn
    PROVE  TraceInv'
<1>1. /\ pc = "routing" /\ pc' = "trace" /\ ~learned /\ UNCHANGED <<req, events, learned>>
  BY DEF DistressTurn, ControlTurn, memory, StageInv
<1>2. Quiet /\ ~Occurs("turn", events) /\ ~Traced("turn")
  BY <1>1 DEF TraceInv, Occurs, Traced
<1>3. /\ (Quiet' <=> Quiet) /\ (Traced("turn")' <=> Traced("turn"))
      /\ WantsSupport' = WantsSupport
      /\ (Occurs("turn", events)' <=> Occurs("turn", events))
  BY <1>1 DEF Quiet, Traced, WantsSupport, Occurs
<1>4. CASE DistressTurn
  <2>1. /\ WantsSupport /\ reply'.flag = "flag_escalate"
        /\ pending' = <<>> \/ pending' = <<"distress">>
    BY <1>4 DEF DistressTurn, Distressed, WantsSupport, FixedReply
  <2>2. QED  BY <1>1, <1>2, <1>3, <2>1 DEF TraceInv, Tutored, Planned
<1>5. CASE ControlTurn
  <2>1. ~WantsSupport /\ req.stance = "control" /\ pending' = <<"turn">>
    BY <1>5 DEF ControlTurn, Distressed, WantsSupport
  <2>2. Led(<<"turn">>)
    <3>1. "turn" \in EventTypes  BY DEF EventTypes
    <3>2. <<"turn">> \in Seq(EventTypes)  BY <3>1, ShortSeq
    <3>3. QED  BY <3>2 DEF Led
  <2>3. Led(pending)' <=> Led(pending')  BY DEF Led
  <2>4. Led(pending')  BY <2>1, <2>2
  <2>5. QED  BY <1>1, <1>2, <1>3, <2>1, <2>3, <2>4 DEF TraceInv, Tutored, Planned
<1>6. QED  BY <1>4, <1>5

LEMMA RememberTrace ==
    ASSUME TraceInv, StageInv, Remember
    PROVE  TraceInv'
<1>1. /\ pc = "remember" /\ pc' = "trace" /\ learned'
      /\ pending' = TurnEvents(req, reply.move) /\ UNCHANGED <<req, events>>
  BY DEF Remember
<1>2. Tutored  BY <1>1 DEF StageInv, Tutored
<1>3. ~Occurs("turn", events) /\ ~Occurs("goal_alignment_check", events)
  BY <1>1 DEF TraceInv
<1>4. /\ Led(pending')
      /\ Occurs("goal_alignment_check", pending') <=> req.goals = "honored"
  BY <1>1, TurnEventsAre
<1>5. /\ WantsSupport' = WantsSupport /\ Tutored' = Tutored
      /\ Led(pending)' <=> Led(pending')
      /\ \A type : Occurs(type, pending)' <=> Occurs(type, pending')
      /\ \A type : Occurs(type, events)' <=> Occurs(type, events)
  BY <1>1 DEF WantsSupport, Tutored, Led, Occurs
<1>6. QED  BY <1>1, <1>2, <1>3, <1>4, <1>5 DEF TraceInv, Planned, Tutored, Traced, Occurs

LEMMA AppendTrace ==
    ASSUME TypeInv, TraceInv, AppendEvent
    PROVE  TraceInv'
<1>1. /\ pc = "trace" /\ pending # <<>> /\ UNCHANGED <<req, reply, learned>>
      /\ pending \in Seq(EventTypes) /\ events \in Seq(EventTypes)
  BY DEF AppendEvent, memory, TypeInv
<1>2. CASE pc' = "failed" /\ UNCHANGED <<pending, events>>
  BY <1>1, <1>2, TraceKept DEF TraceVars, Planned
<1>3. CASE /\ events' = Append(events, Head(pending)) /\ pending' = Tail(pending)
           /\ pc' = pc
  <2> DEFINE h == Head(pending)
  <2>1. /\ \A type : Occurs(type, events') <=> Occurs(type, events) \/ h = type
        /\ \A type : Occurs(type, pending) <=> Occurs(type, pending') \/ h = type
        /\ Led(pending) => h = "turn" /\ ~Occurs("turn", pending')
        /\ ~Occurs("turn", events) /\ h = "turn" => One(events')
        /\ One(events) /\ h # "turn" => One(events')
    BY <1>1, <1>3, AppendIs
  <2>2. /\ WantsSupport' = WantsSupport /\ Tutored' = Tutored
        /\ \A type : Occurs(type, events)' <=> Occurs(type, events')
        /\ \A type : Occurs(type, pending)' <=> Occurs(type, pending')
        /\ (Traced("turn") <=> Occurs("turn", events))
        /\ (Traced("turn")' <=> Occurs("turn", events'))
        /\ (One(events)' <=> One(events'))
    BY <1>1 DEF WantsSupport, Tutored, Occurs, Traced, One
  <2>3. ASSUME WantsSupport
        PROVE  Quiet' /\ pending' = <<>> /\ h = "distress"
    <3>1. pending = <<"distress">> /\ Quiet  BY <1>1, <2>3 DEF TraceInv
    <3>2. h = "distress" /\ pending' = <<>>  BY <1>3, <3>1
    <3>3. Quiet'
      <4>1. \A i \in DOMAIN events' : (i \in DOMAIN events /\ events'[i] = events[i])
                                      \/ events'[i] = "distress"
        BY <1>1, <1>3, <3>2
      <4>2. QED  BY <1>1, <3>1, <4>1 DEF Quiet
    <3>4. QED  BY <3>2, <3>3
  <2> HIDE DEF h
  <2>4. ASSUME ~WantsSupport
        PROVE  /\ learned \/ req.stance = "control"
               /\ One(events') /\ ~Occurs("turn", pending')
    BY <1>1, <2>1, <2>4 DEF TraceInv
  <2>5. Tutored =>
          (Occurs("goal_alignment_check", events') \/ Occurs("goal_alignment_check", pending')
             <=> req.goals = "honored")
    BY <1>1, <2>1 DEF TraceInv
  <2>6. Traced("turn")' => learned' \/ req'.stance = "control"
    BY <1>1, <2>1, <2>2, <2>3, <2>4 DEF TraceInv
  <2>7. /\ pc' = "trace" /\ (learned => Tutored) /\ (WantsSupport => reply.flag = "flag_escalate")
    BY <1>1, <1>3 DEF TraceInv
  <2>8. QED
    BY <1>1, <2>2, <2>3, <2>4, <2>5, <2>6, <2>7 DEF TraceInv, Planned
<1>4. QED  BY <1>1, <1>2, <1>3 DEF AppendEvent

LEMMA NextTrace ==
    ASSUME TypeInv, StageInv, TraceInv, [Next]_vars
    PROVE  TraceInv'
<1>1. ASSUME NEW r \in Requests, Accept(r) PROVE TraceInv'  BY <1>1, AcceptTrace
<1>2. CASE DistressTurn \/ ControlTurn  BY <1>2, FixedTrace
<1>3. ASSUME NEW p \in PlannerReads, PlanMove(p) PROVE TraceInv'
  BY <1>3, TraceKept DEF PlanMove, TraceVars, memory, Planned
<1>4. ASSUME NEW d \in Drafts, NEW e \in Evals,
             FirstDraft(d, e) \/ Refine(d, e) \/ Escalate(d, e) \/ RetryExample(d, e)
      PROVE  TraceInv'
  BY <1>4, TraceKept
  DEF FirstDraft, Refine, Escalate, RetryExample, Verifying, Settled, TraceVars, memory, Planned
<1>5. CASE ShowExample \/ WithholdExample
  BY <1>5, TraceKept
  DEF ShowExample, WithholdExample, Verifying, Settled, TraceVars, memory, Planned
<1>6. CASE Gate
  <2>1. /\ pc \in Planned /\ pc' = "remember" /\ UNCHANGED <<req, pending, events, learned>>
    BY <1>6 DEF Gate, Settled, memory, Planned
  <2>2. QED
    BY <2>1 DEF TraceInv, Planned, Tutored, WantsSupport, Quiet, Traced, Occurs
<1>7. CASE Remember  BY <1>7, RememberTrace
<1>8. CASE AppendEvent  BY <1>8, AppendTrace
<1>9. CASE Answer
  <2>1. /\ pc = "trace" /\ pc' = "answered" /\ pending = <<>> /\ UNCHANGED TraceVars
    BY <1>9 DEF Answer, TraceVars, memory
  <2>2. ~Led(pending)  BY <2>1 DEF Led
  <2>3. QED
    BY <2>1, <2>2
    DEF TraceInv, TraceVars, Planned, Tutored, WantsSupport, Quiet, Traced, Occurs, One
<1>10. CASE Fail
  BY <1>10, TraceKept DEF Fail, TraceVars, memory, Planned
<1>11. CASE UNCHANGED vars
  <2>1. UNCHANGED TraceVars /\ pc' = pc  BY <1>11 DEF vars, TraceVars, memory
  <2>2. QED
    BY <2>1
    DEF TraceInv, TraceVars, Tutored, WantsSupport, Quiet, Traced, Occurs, One, Led
<1>12. QED
  BY <1>1, <1>2, <1>3, <1>4, <1>5, <1>6, <1>7, <1>8, <1>9, <1>10, <1>11 DEF Next, Serve

LEMMA NextTurnTrace == TurnInv /\ TraceInv /\ [Next]_vars => (TurnInv /\ TraceInv)'
  BY NextTurnInv, NextTrace DEF TurnInv

LEMMA TraceInvariant == Spec => [](TurnInv /\ TraceInv)
<1>1. Init => TurnInv /\ TraceInv  BY InitTurnInv, InitTrace
<1>2. QED  BY <1>1, NextTurnTrace, PTL DEF Spec

LEMMA TraceMatches == TurnInv /\ TraceInv => TraceMatchesMemory /\ DistressIsRouted
<1> SUFFICES ASSUME TypeInv, StageInv, TraceInv
             PROVE  TraceMatchesMemory /\ DistressIsRouted
  BY DEF TurnInv
<1>1. TraceMatchesMemory
  BY DEF TraceMatchesMemory, TraceInv, Tutored, One
<1>2. DistressIsRouted
  BY DEF DistressIsRouted, Composed, TraceInv, StageInv, Quiet
<1>3. QED  BY <1>1, <1>2

\* Memory and trace agree, wherever a turn fails and whichever event types the
\* database refuses.
THEOREM TraceIsOfMemory == Spec => []TraceMatchesMemory
  BY TraceInvariant, TraceMatches, PTL

\* In every stance, a message with a distress signal is routed to a human and leaves
\* no other trace than its event and that of the overlay stored before the scan.
THEOREM DistressGoesToAHuman == Spec => []DistressIsRouted
  BY TraceInvariant, TraceMatches, PTL

-----------------------------------------------------------------------------
(* The pipeline implements LearnerModel.                                   *)

\* The instance's operators are the ones the pipeline uses.
LEMMA SameRules ==
    ASSUME NEW m, NEW ex, NEW met, NEW mid, NEW repeated, NEW revisit
    PROVE  /\ Model!UpdateConcepts(m, ex, met, mid, repeated, revisit)
                = UpdateConcepts(m, ex, met, mid, repeated, revisit)
           /\ Model!DueReview(m, ex) = DueReview(m, ex)
  BY DEF Model!UpdateConcepts, Model!Touch, Model!Solve, Model!Misconceive, Model!Repeat,
         Model!Review, Model!Firm, Model!EntryOf, Model!DefaultEntry, Model!DueReview,
         UpdateConcepts, Touch, Solve, Misconceive, Repeat, Review, Firm, EntryOf,
         DefaultEntry, DueReview

LEMMA ModelInit == Init => Model!Init
  BY DEF Init, Model!Init, EmptyMap, Model!EmptyMap

\* The turn's call of memory.update is an Update of the model.
LEMMA RememberIsUpdate ==
    ASSUME TurnInv, Remember
    PROVE  Model!Next
<1>1. TypeInv /\ StageInv /\ pc = "remember"  BY DEF TurnInv, Remember
<1> DEFINE s == [ex |-> req.ex, met |-> req.solved, mid |-> draft.mid,
                 repeated |-> req.repeated, revisit |-> plan.revisit]
<1>2. s \in Model!Signal
  <2>1. req \in Request  BY <1>1, TurnAssumption DEF TypeInv
  <2>2. req.ex \in Exercises /\ req.solved \in BOOLEAN /\ req.repeated \in BOOLEAN
    BY <2>1 DEF Request
  <2>3. draft.mid \in Misconceptions \cup {None} /\ plan.revisit \in Concepts \cup {None}
    BY <1>1 DEF TypeInv, Draft, Plan
  <2>4. QED  BY <2>2, <2>3 DEF Model!Signal
<1>3. updates < MaxTurns
  <2>1. updates < turns /\ turns <= MaxTurns  BY <1>1 DEF StageInv, Ended
  <2>2. updates \in Nat /\ turns \in Nat /\ MaxTurns \in Nat
    BY <1>1, TurnAssumption DEF TypeInv
  <2>3. QED  BY <2>1, <2>2
<1>4. s.revisit # None => s.revisit \in Model!DueReview(concepts, s.ex) /\ ~s.met /\ ~s.repeated
  BY <1>1, SameRules DEF StageInv
<1>5. concepts' = Model!UpdateConcepts(concepts, s.ex, s.met, s.mid, s.repeated, s.revisit)
  BY SameRules DEF Remember
<1>6. /\ signal' = s
      /\ solves' = [c \in Concepts |->
                      solves[c] + (IF s.met /\ OwnConcept[s.ex] = c THEN 1 ELSE 0)]
      /\ updates' = updates + 1
  BY DEF Remember
<1>7. [grasped |-> {}, shaky |-> {}] =
        Model!MergeMemory([grasped |-> {}, shaky |-> {}], {}, {})
  BY DEF Model!MergeMemory, Model!MergeGrasped, Model!MergeShaky
<1> HIDE DEF s
<1>8. Model!Update(s, {}, {})
  BY <1>3, <1>4, <1>5, <1>6, <1>7 DEF Model!Update
<1>9. QED  BY <1>2, <1>8 DEF Model!Next

LEMMA ModelStep == TurnInv /\ [Next]_vars => [Model!Next]_(Model!vars)
<1> SUFFICES ASSUME TurnInv, [Next]_vars PROVE [Model!Next]_(Model!vars)
  OBVIOUS
<1>1. CASE Remember  BY <1>1, RememberIsUpdate
<1>2. ASSUME UNCHANGED <<concepts, signal, solves, updates>>
      PROVE  UNCHANGED Model!vars
  BY <1>2 DEF Model!vars
<1>3. ASSUME Next, ~Remember PROVE UNCHANGED <<concepts, signal, solves, updates>>
  <2>1. ASSUME NEW r \in Requests, Accept(r)
        PROVE  UNCHANGED <<concepts, signal, solves, updates>>
    BY <2>1 DEF Accept
  <2>2. ASSUME NEW p \in PlannerReads, PlanMove(p)
        PROVE  UNCHANGED <<concepts, signal, solves, updates>>
    BY <2>2 DEF PlanMove, memory
  <2>3. ASSUME NEW d \in Drafts, NEW e \in Evals,
               FirstDraft(d, e) \/ Refine(d, e) \/ Escalate(d, e) \/ RetryExample(d, e)
        PROVE  UNCHANGED <<concepts, signal, solves, updates>>
    BY <2>3 DEF FirstDraft, Refine, Escalate, RetryExample, memory
  <2>4. ASSUME DistressTurn \/ ControlTurn \/ ShowExample \/ WithholdExample \/ Gate
               \/ AppendEvent \/ Answer \/ Fail
        PROVE  UNCHANGED <<concepts, signal, solves, updates>>
    BY <2>4 DEF DistressTurn, ControlTurn, ShowExample, WithholdExample, Gate, AppendEvent,
                Answer, Fail, memory
  <2>5. QED  BY <1>3, <2>1, <2>2, <2>3, <2>4 DEF Next, Serve
<1>4. CASE UNCHANGED vars  BY <1>2, <1>4 DEF vars, memory
<1>5. QED  BY <1>1, <1>2, <1>3, <1>4

\* Every behaviour of the pipeline is one of LearnerModel: whatever the models answer
\* and wherever a turn fails, the arguments that reach memory.update are those
\* LearnerModel allows, so its theorems (two solves suffice, grasped sticks) hold of
\* whole turns.
THEOREM TurnsImplementLearnerModel == Spec => ImplementsLearnerModel
<1>1. Init => Model!Init  BY ModelInit
<1>2. TurnInv /\ [Next]_vars => [Model!Next]_(Model!vars)  BY ModelStep
<1>3. QED  BY TurnInvariant, <1>1, <1>2, PTL DEF Spec, ImplementsLearnerModel, Model!Spec

-----------------------------------------------------------------------------
(* The session.                                                            *)

\* What is on record about the learner's words, and what the turn took from it.
GoalsInv ==
    goals # None /\ goals.honored => goals.text # None /\ goals.text \notin goals.by

OverlayInv ==
    overlay # None =>
        \A k \in Knobs : overlay[k].value # None => overlay[k].raw \in Vocabulary[k]

WordsInv ==
    DistressRouting =>
        /\ TextOf(goals) \notin Crisis
        /\ \A r \in reflections : r.text \notin Crisis /\ r.goal \notin Crisis
        /\ told \cap Crisis = {}

StandingInv == pc \notin Ended => req.goals = Standing(req.stance)

SessionInv ==
    /\ TurnInv /\ TraceInv
    /\ SessionTypeInv /\ GoalsInv /\ OverlayInv /\ WordsInv /\ StandingInv

-----------------------------------------------------------------------------
(* The steps.                                                              *)

LEMMA NoneIsNoWord == None \notin Words /\ None \notin Crisis
  BY SessionAssumption

\* A step of the session is one of the turn, or leaves the turn alone.
LEMMA SessionStep == [SessionNext]_session => [Next]_vars
<1> SUFFICES ASSUME [SessionNext]_session PROVE [Next]_vars
  OBVIOUS
<1>1. ASSUME Intake PROVE [Next]_vars  BY <1>1 DEF Intake
<1>2. ASSUME NEW r \in Requests, Begin(r) PROVE [Next]_vars  BY <1>2 DEF Begin, Next
<1>3. CASE Proceed  BY <1>3 DEF Proceed, Next
<1>4. ASSUME NEW d \in Detectors, Release(d) PROVE [Next]_vars  BY <1>4 DEF Release
<1>5. CASE UNCHANGED session  BY <1>5 DEF session
<1>6. QED
  BY <1>1, <1>2, <1>3, <1>4, <1>5 DEF SessionNext, SetGoals, ClearGoals, AddReflection, SetOverlay

\* A step of the turn that is under way serves the request it began with.
LEMMA ServeIs == Serve => pc \notin Ended /\ req' = req
<1> SUFFICES ASSUME Serve PROVE pc \notin Ended /\ req' = req
  OBVIOUS
<1> USE DEF Ended
<1>1. ASSUME NEW p \in PlannerReads, PlanMove(p) PROVE pc \notin Ended /\ req' = req
  BY <1>1 DEF PlanMove
<1>2. ASSUME NEW d \in Drafts, NEW e \in Evals,
             FirstDraft(d, e) \/ Refine(d, e) \/ Escalate(d, e) \/ RetryExample(d, e)
      PROVE  pc \notin Ended /\ req' = req
  BY <1>2 DEF FirstDraft, Refine, Escalate, RetryExample, Verifying, Settled
<1>3. ASSUME ShowExample \/ WithholdExample \/ Gate
      PROVE  pc \notin Ended /\ req' = req
  BY <1>3 DEF ShowExample, WithholdExample, Gate, Verifying, Settled
<1>4. ASSUME DistressTurn \/ ControlTurn \/ Remember \/ AppendEvent \/ Answer \/ Fail
      PROVE  pc \notin Ended /\ req' = req
  BY <1>4 DEF DistressTurn, ControlTurn, Remember, AppendEvent, Answer, Fail
<1>5. QED  BY <1>1, <1>2, <1>3, <1>4 DEF Serve

-----------------------------------------------------------------------------
(* What the intakes store.                                                 *)

LEMMA GoalsFromIs ==
    ASSUME SessionTypeInv, NEW t \in Words
    PROVE  LET g == GoalsFrom(t)
           IN /\ g \in Goals
              /\ g.honored => g.text # None /\ g.text \notin g.by
              /\ DistressRouting => g.text \notin Crisis
<1>1. t # None /\ None \notin Crisis  BY NoneIsNoWord
<1>2. CASE Suppressed(t)
  <2>1. GoalsFrom(t) = [text |-> None, honored |-> FALSE, by |-> detector]
    BY <1>2 DEF GoalsFrom
  <2>2. None \in Spoken /\ detector \in Detectors  BY DEF Spoken, SessionTypeInv
  <2>3. GoalsFrom(t) \in Goals  BY <2>1, <2>2 DEF Goals
  <2>4. QED  BY <1>1, <2>1, <2>3
<1>3. CASE ~Suppressed(t)
  <2>1. PICK b \in BOOLEAN : b = (t \notin detector)  OBVIOUS
  <2>2. GoalsFrom(t) = [text |-> t, honored |-> b, by |-> detector]
    BY <1>3, <2>1 DEF GoalsFrom
  <2>3. DistressRouting => t \notin Crisis  BY <1>3 DEF Suppressed
  <2>4. t \in Spoken /\ detector \in Detectors  BY DEF Spoken, SessionTypeInv
  <2>5. GoalsFrom(t) \in Goals  BY <2>2, <2>4 DEF Goals
  <2>6. b => t \notin detector  BY <2>1
  <2>7. QED  BY <1>1, <2>2, <2>3, <2>5, <2>6
<1>4. QED  BY <1>2, <1>3

LEMMA TextOfIs ==
    ASSUME SessionTypeInv
    PROVE  TextOf(goals) \in Spoken
  BY DEF SessionTypeInv, TextOf, Goals, Spoken

LEMMA ReflectionFromIs ==
    ASSUME SessionTypeInv, WordsInv, NEW t \in Words
    PROVE  LET r == ReflectionFrom(t)
           IN /\ r \in Reflection
              /\ DistressRouting => r.text \notin Crisis /\ r.goal \notin Crisis
<1>1. None \notin Crisis  BY NoneIsNoWord
<1>2. TextOf(goals) \in Spoken /\ t \in Spoken /\ None \in Spoken
  BY TextOfIs DEF Spoken
<1>3. CASE Suppressed(t)
  BY <1>1, <1>2, <1>3 DEF ReflectionFrom, Reflection
<1>4. CASE ~Suppressed(t)
  <2>1. ReflectionFrom(t) = [text |-> t, goal |-> TextOf(goals)]
    BY <1>4 DEF ReflectionFrom
  <2>2. DistressRouting => t \notin Crisis /\ TextOf(goals) \notin Crisis
    BY <1>4 DEF Suppressed, WordsInv
  <2>3. QED  BY <1>2, <2>1, <2>2 DEF Reflection
<1>5. QED  BY <1>3, <1>4

LEMMA NormalizeIs ==
    ASSUME SessionTypeInv, NEW o \in Overlays
    PROVE  /\ Normalize(o) \in Overlay \cup {None}
           /\ Normalize(o) # None =>
                \A k \in Knobs :
                    Normalize(o)[k].value # None => Normalize(o)[k].raw \in Vocabulary[k]
<1>1. o \in [Knobs -> Spoken]  BY SessionAssumption
<1>2. ASSUME NEW k \in Knobs
      PROVE  /\ FieldFrom(k, o[k]) \in Field
             /\ FieldFrom(k, o[k]).value # None => FieldFrom(k, o[k]).raw \in Vocabulary[k]
  <2>1. o[k] \in Spoken /\ None \in Spoken  BY <1>1 DEF Spoken
  <2>2. (o[k] \notin detector) \in BOOLEAN  OBVIOUS
  <2>3. QED  BY <2>1, <2>2 DEF FieldFrom, Field
<1>3. CASE \A k \in Knobs : o[k] = None
  BY <1>3 DEF Normalize
<1>4. CASE ~\A k \in Knobs : o[k] = None
  <2>1. Normalize(o) = [k \in Knobs |-> FieldFrom(k, o[k])]  BY <1>4 DEF Normalize
  <2>2. QED  BY <1>2, <2>1 DEF Overlay
<1>5. QED  BY <1>3, <1>4

\* An event adds the words of its payload, or nothing.
LEMMA EmittedIs ==
    ASSUME SessionTypeInv, WordsInv, NEW type, NEW words \in SUBSET Spoken,
           Emitted(type, words), DistressRouting => words \cap Crisis = {}
    PROVE  told' \subseteq Words /\ (DistressRouting => told' \cap Crisis = {})
<1>1. told' \subseteq told \cup (words \ {None})  BY DEF Emitted
<1>2. words \ {None} \subseteq Words  BY DEF Spoken
<1>3. QED  BY <1>1, <1>2 DEF SessionTypeInv, WordsInv

-----------------------------------------------------------------------------
(* The invariant.                                                          *)

LEMMA InitSession == SessionInit => SessionInv
<1> SUFFICES ASSUME SessionInit PROVE SessionInv
  OBVIOUS
<1>1. TurnInv /\ TraceInv  BY InitTurnInv, InitTrace DEF SessionInit
<1>2. SessionTypeInv  BY DEF SessionInit, SessionTypeInv
<1>3. GoalsInv /\ OverlayInv  BY DEF SessionInit, GoalsInv, OverlayInv
<1>4. WordsInv  BY NoneIsNoWord DEF SessionInit, WordsInv, TextOf
<1>5. StandingInv  BY DEF SessionInit, Init, StandingInv, Ended
<1>6. QED  BY <1>1, <1>2, <1>3, <1>4, <1>5 DEF SessionInv

\* Everything but the turn's own invariants, which SessionStep carries over.
RecordInv == SessionTypeInv /\ GoalsInv /\ OverlayInv /\ WordsInv

LEMMA SetGoalsRecord ==
    ASSUME RecordInv, NEW t \in Words, SetGoals(t)
    PROVE  RecordInv'
<1> USE DEF RecordInv
<1> DEFINE g == GoalsFrom(t)
<1>1. /\ goals' = g /\ Emitted("goal_set", {goals'.text})
      /\ UNCHANGED <<reflections, overlay, detector>> /\ intakes' = intakes + 1
  BY DEF SetGoals, Intake
<1>2. /\ g \in Goals
      /\ g.honored => g.text # None /\ g.text \notin g.by
      /\ DistressRouting => g.text \notin Crisis
  BY GoalsFromIs
<1> HIDE DEF g
<1>3. g.text \in Spoken  BY <1>2 DEF Goals
<1>4. told' \subseteq Words /\ (DistressRouting => told' \cap Crisis = {})
  <2>1. {g.text} \in SUBSET Spoken /\ (DistressRouting => {g.text} \cap Crisis = {})
    BY <1>2, <1>3
  <2>2. Emitted("goal_set", {g.text})  BY <1>1
  <2>3. QED  BY <2>1, <2>2, EmittedIs
<1>5. SessionTypeInv'  BY <1>1, <1>2, <1>4 DEF SessionTypeInv
<1>6. GoalsInv'  BY <1>1, <1>2 DEF GoalsInv
<1>7. OverlayInv'  BY <1>1 DEF OverlayInv
<1>8. WordsInv'
  <2>1. TextOf(goals') \in {None, g.text}  BY <1>1 DEF TextOf
  <2>2. TextOf(goals)' = TextOf(goals')  BY DEF TextOf
  <2>3. QED  BY <1>1, <1>2, <1>4, <2>1, <2>2, NoneIsNoWord DEF WordsInv
<1>9. QED  BY <1>5, <1>6, <1>7, <1>8

LEMMA AddReflectionRecord ==
    ASSUME RecordInv, NEW t \in Words, AddReflection(t)
    PROVE  RecordInv'
<1> USE DEF RecordInv
<1> DEFINE r == ReflectionFrom(t)
<1>1. /\ reflections' = reflections \cup {r}
      /\ Emitted("reflection_recorded", {r.text, r.goal})
      /\ UNCHANGED <<goals, overlay, detector>> /\ intakes' = intakes + 1
  BY DEF AddReflection, Intake
<1>2. /\ r \in Reflection
      /\ DistressRouting => r.text \notin Crisis /\ r.goal \notin Crisis
  BY ReflectionFromIs
<1> HIDE DEF r
<1>3. told' \subseteq Words /\ (DistressRouting => told' \cap Crisis = {})
  <2>1. {r.text, r.goal} \in SUBSET Spoken
    BY <1>2 DEF Reflection
  <2>2. DistressRouting => {r.text, r.goal} \cap Crisis = {}  BY <1>2
  <2>3. QED  BY <1>1, <2>1, <2>2, EmittedIs
<1>4. SessionTypeInv'  BY <1>1, <1>2, <1>3 DEF SessionTypeInv
<1>5. GoalsInv' /\ OverlayInv'  BY <1>1 DEF GoalsInv, OverlayInv
<1>6. WordsInv'
  <2>1. TextOf(goals)' = TextOf(goals)  BY <1>1 DEF TextOf
  <2>2. QED  BY <1>1, <1>2, <1>3, <2>1 DEF WordsInv
<1>7. QED  BY <1>4, <1>5, <1>6

LEMMA BeginRecord ==
    ASSUME RecordInv, NEW o \in Overlays, overlay' \in {overlay, Normalize(o)},
           UNCHANGED <<detector, goals, reflections, told>>, intakes' \in Nat
    PROVE  RecordInv'
<1> USE DEF RecordInv
<1> DEFINE n == Normalize(o)
<1>1. /\ n \in Overlay \cup {None}
      /\ n # None => \A k \in Knobs : n[k].value # None => n[k].raw \in Vocabulary[k]
  BY NormalizeIs
<1> HIDE DEF n
<1>2. overlay' \in {overlay, n}  BY DEF n
<1>3. SessionTypeInv'  BY <1>1, <1>2 DEF SessionTypeInv
<1>4. OverlayInv'  BY <1>1, <1>2 DEF OverlayInv
<1>5. GoalsInv'  BY DEF GoalsInv
<1>6. WordsInv'
  <2>1. TextOf(goals)' = TextOf(goals)  BY DEF TextOf
  <2>2. QED  BY <2>1 DEF WordsInv
<1>7. QED  BY <1>3, <1>4, <1>5, <1>6

\* A stored event quotes no more than the goals on record.
LEMMA ProceedRecord ==
    ASSUME RecordInv, Proceed
    PROVE  RecordInv'
<1> USE DEF RecordInv
<1>1. /\ told' = told \cup Quoted
      /\ UNCHANGED <<detector, goals, reflections, overlay, intakes>>
  BY DEF Proceed, said
<1>2. Quoted \subseteq {TextOf(goals)} \ {None}  BY DEF Quoted
<1>3. TextOf(goals) \in Spoken /\ (DistressRouting => TextOf(goals) \notin Crisis)
  BY TextOfIs DEF WordsInv
<1>4. told' \subseteq Words /\ (DistressRouting => told' \cap Crisis = {})
  BY <1>1, <1>2, <1>3 DEF Spoken, SessionTypeInv, WordsInv
<1>5. SessionTypeInv'  BY <1>1, <1>4 DEF SessionTypeInv
<1>6. GoalsInv' /\ OverlayInv'  BY <1>1 DEF GoalsInv, OverlayInv
<1>7. TextOf(goals)' = TextOf(goals)  BY <1>1 DEF TextOf
<1>8. WordsInv'  BY <1>1, <1>4, <1>7 DEF WordsInv
<1>9. QED  BY <1>5, <1>6, <1>8

LEMMA NextRecord == RecordInv /\ [SessionNext]_session => RecordInv'
<1> SUFFICES ASSUME RecordInv, [SessionNext]_session PROVE RecordInv'
  OBVIOUS
<1>0. intakes \in Nat /\ intakes + 1 \in Nat  BY DEF RecordInv, SessionTypeInv
<1>1. ASSUME NEW t \in Words, SetGoals(t) PROVE RecordInv'
  BY <1>1, SetGoalsRecord
<1>2. ASSUME NEW t \in Words, AddReflection(t) PROVE RecordInv'
  BY <1>2, AddReflectionRecord
<1>3. ASSUME UNCHANGED <<reflections, overlay, told, detector>>,
             goals' \in {goals, None}, intakes' \in Nat
      PROVE  RecordInv'
  <2>1. TextOf(goals)' \in {TextOf(goals), None}  BY <1>3 DEF TextOf
  <2>2. WordsInv'  BY <1>3, <2>1, NoneIsNoWord DEF RecordInv, WordsInv
  <2>3. SessionTypeInv'  BY <1>3 DEF RecordInv, SessionTypeInv
  <2>4. GoalsInv' /\ OverlayInv'  BY <1>3 DEF RecordInv, GoalsInv, OverlayInv
  <2>5. QED  BY <2>2, <2>3, <2>4 DEF RecordInv
<1>4. CASE ClearGoals  BY <1>0, <1>3, <1>4 DEF ClearGoals, Intake
<1>5. ASSUME NEW o \in Overlays, SetOverlay(o) PROVE RecordInv'
  BY <1>0, <1>5, BeginRecord DEF SetOverlay, Intake
<1>6. ASSUME NEW r \in Requests, Begin(r) PROVE RecordInv'
  <2>1. CASE overlay' = overlay
    BY <1>0, <1>3, <1>6, <2>1 DEF Begin
  <2>2. CASE overlay' # overlay
    <3>1. PICK o \in Overlays : overlay' = Normalize(o)  BY <1>6, <2>2 DEF Begin
    <3>2. QED  BY <1>0, <1>6, <3>1, BeginRecord DEF Begin
  <2>3. QED  BY <2>1, <2>2
<1>7. CASE Proceed  BY <1>7, ProceedRecord
<1>8. ASSUME NEW d \in Detectors, Release(d) PROVE RecordInv'
  <2>1. /\ detector' = d /\ UNCHANGED <<goals, reflections, overlay, told, intakes>>
    BY <1>8 DEF Release, said
  <2>2. TextOf(goals)' = TextOf(goals)  BY <2>1 DEF TextOf
  <2>3. SessionTypeInv'  BY <2>1 DEF RecordInv, SessionTypeInv
  <2>4. GoalsInv' /\ OverlayInv'  BY <2>1 DEF RecordInv, GoalsInv, OverlayInv
  <2>5. WordsInv'  BY <2>1, <2>2 DEF RecordInv, WordsInv
  <2>6. QED  BY <2>3, <2>4, <2>5 DEF RecordInv
<1>9. CASE UNCHANGED session
  BY <1>0, <1>3, <1>9 DEF session, said
<1>10. QED
  BY <1>1, <1>2, <1>4, <1>5, <1>6, <1>7, <1>8, <1>9 DEF SessionNext

\* The goals do not change under a turn.
LEMMA NextStanding == StandingInv /\ [SessionNext]_session => StandingInv'
<1> SUFFICES ASSUME StandingInv, [SessionNext]_session PROVE StandingInv'
  OBVIOUS
<1>1. ASSUME pc \in Ended, UNCHANGED vars PROVE StandingInv'
  BY <1>1 DEF StandingInv, vars
<1>2. ASSUME NEW r \in Requests, Begin(r) PROVE StandingInv'
  <2>1. req' = r /\ r.goals = Standing(r.stance) /\ goals' = goals
    BY <1>2 DEF Begin, Accept
  <2>2. Standing(req.stance)' = Standing(r.stance)  BY <2>1 DEF Standing
  <2>3. QED  BY <2>1, <2>2 DEF StandingInv
<1>3. ASSUME pc \notin Ended, req' = req, goals' = goals PROVE StandingInv'
  <2>1. Standing(req.stance)' = Standing(req.stance)  BY <1>3 DEF Standing
  <2>2. QED  BY <1>3, <2>1 DEF StandingInv
<1>4. CASE Proceed  BY <1>3, <1>4, ServeIs DEF Proceed, said
<1>5. CASE UNCHANGED session
  <2>1. req' = req /\ goals' = goals /\ pc' = pc  BY <1>5 DEF session, said, vars
  <2>2. Standing(req.stance)' = Standing(req.stance)  BY <2>1 DEF Standing
  <2>3. QED  BY <2>1, <2>2 DEF StandingInv
<1>6. ASSUME Intake \/ \E d \in Detectors : Release(d) PROVE StandingInv'
  BY <1>1, <1>6 DEF Intake, Release
<1>7. QED
  BY <1>2, <1>4, <1>5, <1>6
  DEF SessionNext, SetGoals, ClearGoals, AddReflection, SetOverlay

LEMMA SessionInvariant == SessionSpec => []SessionInv
<1>1. SessionInit => SessionInv  BY InitSession
<1>2. SessionInv /\ [SessionNext]_session => SessionInv'
  BY SessionStep, NextTurnTrace, NextRecord, NextStanding DEF SessionInv, RecordInv
<1>3. QED  BY <1>1, <1>2, PTL DEF SessionSpec

-----------------------------------------------------------------------------
(* Theorems.                                                               *)

\* Type correctness of the turn and of the learner's words.
THEOREM SessionTypes == SessionSpec => [](TypeInv /\ SessionTypeInv)
<1>1. SessionInv => TypeInv /\ SessionTypeInv  BY DEF SessionInv, TurnInv
<1>2. QED  BY <1>1, SessionInvariant, PTL

\* Whatever the releases' detectors flag and in whichever order they come, no prompt
\* honors a goal or a knob that the storing or the running release takes for harm.
THEOREM HarmIsDeclined == SessionSpec => []HarmIsNeverHonored
<1>1. SessionInv => HarmIsNeverHonored
  <2> SUFFICES ASSUME SessionInv PROVE HarmIsNeverHonored
    OBVIOUS
  <2>1. GoalsFraming(goals) = "honor" => goals.text \notin detector \cup goals.by
    <3> SUFFICES ASSUME GoalsFraming(goals) = "honor"
                 PROVE  goals.text \notin detector \cup goals.by
      OBVIOUS
    <3>1. TextOf(goals) # None /\ ~RequestsHarm(goals)  BY DEF GoalsFraming
    <3>2. goals # None /\ goals.honored /\ goals.text \notin detector
      BY <3>1 DEF TextOf, RequestsHarm
    <3>3. QED  BY <3>2 DEF SessionInv, GoalsInv
  <2>2. ASSUME overlay # None, NEW k \in Adopted(overlay)
        PROVE  overlay[k].honored /\ overlay[k].raw \notin detector
    <3>1. /\ k \in Knobs /\ overlay[k].value # None /\ overlay[k].honored
          /\ overlay[k].raw \notin detector \/ k = "language"
      BY <2>2 DEF Adopted
    <3>2. CASE k = "language"
      <4>1. overlay[k].raw \in Vocabulary["language"]
        BY <2>2, <3>1, <3>2 DEF SessionInv, OverlayInv
      <4>2. detector \in Detectors  BY DEF SessionInv, SessionTypeInv
      <4>3. Vocabulary["language"] \cap detector = {}
        BY <3>1, <3>2, <4>2, SessionAssumption
      <4>4. QED  BY <3>1, <4>1, <4>3
    <3>3. QED  BY <3>1, <3>2
  <2>3. QED  BY <2>1, <2>2 DEF HarmIsNeverHonored
<1>2. QED  BY <1>1, SessionInvariant, PTL

\* With routing on, no intake and no turn leaves a distress signal's words in the
\* record or in a stored event.
THEOREM DistressIsNotKept == SessionSpec => []DistressLeavesNoWords
<1>1. SessionInv => DistressLeavesNoWords
  BY TraceMatches DEF SessionInv, WordsInv, DistressLeavesNoWords
<1>2. QED  BY <1>1, SessionInvariant, PTL

\* What the trace counts as goal alignment is what the models were asked to honor.
THEOREM AlignmentIsHonest == SessionSpec => []AlignmentIsOfHonoredGoals
<1>1. SessionInv => AlignmentIsOfHonoredGoals
  <2> SUFFICES ASSUME SessionInv, pc = "trace", pending = <<>>, ~WantsSupport,
                      req.stance # "control", goals # None => goals.by = detector
               PROVE  Traced("goal_alignment_check") <=> GoalsFraming(goals) = "honor"
    BY DEF AlignmentIsOfHonoredGoals
  <2>1. Traced("goal_alignment_check") <=> req.goals = "honored"
    <3>1. ~Occurs("goal_alignment_check", pending)  BY DEF Occurs
    <3>2. Occurs("goal_alignment_check", events) <=> Traced("goal_alignment_check")
      BY DEF Occurs, Traced
    <3>3. QED  BY <3>1, <3>2 DEF SessionInv, TraceInv, Tutored
  <2>2. req.goals = Standing(req.stance)  BY DEF SessionInv, StandingInv, Ended
  <2>3. CASE goals = None
    BY <2>1, <2>2, <2>3 DEF Standing, GoalsFraming, TextOf
  <2>4. CASE goals # None /\ goals.honored
    <3>1. goals.text # None /\ goals.text \notin detector
      BY <2>4 DEF SessionInv, GoalsInv
    <3>2. Standing(req.stance) = "honored"  BY <2>4 DEF Standing
    <3>3. GoalsFraming(goals) = "honor"
      BY <2>4, <3>1 DEF GoalsFraming, TextOf, RequestsHarm
    <3>4. QED  BY <2>1, <2>2, <3>2, <3>3
  <2>5. CASE goals # None /\ ~goals.honored
    <3>1. Standing(req.stance) = "declined"  BY <2>5 DEF Standing
    <3>2. GoalsFraming(goals) # "honor"
      BY <2>5 DEF GoalsFraming, RequestsHarm
    <3>3. QED  BY <2>1, <2>2, <3>1, <3>2
  <2>6. QED  BY <2>3, <2>4, <2>5
<1>2. QED  BY <1>1, SessionInvariant, PTL
=============================================================================
