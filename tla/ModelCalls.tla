----------------------------- MODULE ModelCalls -----------------------------
(***************************************************************************)
(* What a tutor turn asks of the language model, and what it reports of    *)
(* it: backend/app/agent/llm.py (the providers' json methods), telemetry.py *)
(* (UsageMeter and the context variable that holds the turn's meter) and   *)
(* orchestrator.py run_turn.  The planner asks once, then every draft of   *)
(* the reasoner is followed by a self-evaluation; an openai-compatible     *)
(* client falls back from JSON mode to a plain completion, and asks once   *)
(* more for JSON when the answer does not parse.  One action per           *)
(* completion.  Worker threads serve turns of any learners side by side.   *)
(*                                                                         *)
(* Prompt and completion tokens are one number, 0 when the provider does   *)
(* not report them; latency and cost are left out.                         *)
(***************************************************************************)
EXTENDS Naturals

CONSTANTS
    Workers,      \* worker threads
    Tokens,       \* what a completion may cost
    MaxRounds,    \* drafts a turn may take: 1 + the loops' settings
    MaxTurns,     \* bound on the number of turns
    Absent        \* no turn, no meter, no reply

Providers == {"openai_compatible", "anthropic", "bedrock"}
Roles == {"planner", "reasoner", "self_eval"}

\* What parse_json makes of an answer: a JSON object, another JSON value, or
\* nothing (null included).
Parses == {"object", "other", "nothing"}
Answer == [parse: Parses, tokens: Tokens]

ASSUME CallsAssumption ==
    /\ Tokens \subseteq Nat
    /\ MaxRounds \in Nat \ {0} /\ MaxTurns \in Nat

Turns == 1..MaxTurns
Count == [Roles -> Nat]
Usage == [calls: Count, tokens: Count]

\* A turn under way.  stage: the completion it waits for ("ask" in JSON mode,
\* "plain" without, "reformat" the second request), or "compose" when the
\* models have been asked.  History: rounds, the drafts judged; billed, the
\* tokens of all its completions; used, those of the answers it used; retried,
\* whether one of these had to be asked for again.
Stages == {"ask", "plain", "reformat", "compose"}
Turn == [id: Turns, stage: Stages, role: Roles,
         rounds: Nat, billed: Count, used: Count, retried: BOOLEAN]

\* A reply's component_usage, beside the history of its turn.
Reply == [usage: Usage, rounds: Nat, billed: Count, used: Count, retried: BOOLEAN]

ASSUME AbsentAssumption == Absent \notin Turn \cup Reply \cup Nat

VARIABLES
    provider,   \* settings.provider
    turn,       \* per worker: the turn it is serving, or Absent
    context,    \* per worker: the turn whose meter the context variable holds, or Absent
    meters,     \* per turn: its UsageMeter
    begun,      \* number of turns begun
    replies     \* per turn: what it has replied, or Absent

vars == <<provider, turn, context, meters, begun, replies>>

None == [r \in Roles |-> 0]
Blank == [calls |-> None, tokens |-> None]

Init ==
    /\ provider \in Providers
    /\ turn = [w \in Workers |-> Absent]
    /\ context = [w \in Workers |-> Absent]
    /\ meters = [i \in Turns |-> Blank]
    /\ begun = 0
    /\ replies = [i \in Turns |-> Absent]

Waits(w) == turn[w] # Absent /\ turn[w].stage # "compose"

\* run_turn sets a meter of the turn's own.
Begin(w) ==
    /\ turn[w] = Absent /\ begun < MaxTurns
    /\ begun' = begun + 1
    /\ turn' = [turn EXCEPT ![w] =
            [id |-> begun + 1, stage |-> "ask", role |-> "planner",
             rounds |-> 0, billed |-> None, used |-> None, retried |-> FALSE]]
    /\ context' = [context EXCEPT ![w] = begun + 1]
    /\ UNCHANGED <<provider, meters, replies>>

\* run_turn's finally: the turn is over, answered or failed, and nobody holds
\* its meter any more.
End(w) ==
    /\ turn' = [turn EXCEPT ![w] = Absent]
    /\ context' = [context EXCEPT ![w] = Absent]
    /\ meters' = [meters EXCEPT ![turn[w].id] = Blank]

Plus(count, role, n) == [count EXCEPT ![role] = @ + n]

BadAdded(usage, role, tokens) ==   \* the last call's tokens, not their sum
    [calls |-> Plus(usage.calls, role, 1), tokens |-> [usage.tokens EXCEPT ![role] = tokens]]

\* UsageMeter.record.
Added(usage, role, tokens) ==
    [calls |-> Plus(usage.calls, role, 1), tokens |-> Plus(usage.tokens, role, tokens)]

BadMeter(w) == begun   \* one for the process: the turn begun last

\* The meter a provider records into.
Meter(w) == context[w]

\* Whether an answer that does not parse is asked for again.
Reformats(w) == provider = "openai_compatible" /\ turn[w].stage # "reformat"

BadAfterProse(w, tokens) ==   \* the call starts over
    [turn[w] EXCEPT !.stage = "ask"]

\* The turn, once the answer to its first request was of no use.
AfterProse(w, tokens) ==
    [turn[w] EXCEPT !.stage = "reformat", !.billed = Plus(@, turn[w].role, tokens)]

\* json: the answer does not parse.  Asked once more, or given up (ValueError).
AnswerProse(w, a) ==
    /\ Waits(w) /\ provider # "bedrock" /\ a.parse = "nothing"
    /\ \/ /\ Reformats(w)
          /\ turn' = [turn EXCEPT ![w] = AfterProse(w, a.tokens)]
          /\ UNCHANGED <<context, meters>>
       \/ ~Reformats(w) /\ End(w)
    /\ UNCHANGED <<provider, begun, replies>>

\* The turn, once it has used an answer.
AfterJson(w, tokens) ==
    LET t == turn[w] IN
    [t EXCEPT !.billed = Plus(@, t.role, tokens), !.used = Plus(@, t.role, tokens),
              !.retried = @ \/ t.stage = "reformat",
              !.rounds = IF t.role = "self_eval" THEN @ + 1 ELSE @]

\* The component after this one: a self-evaluation may send the turn round
\* again, or to its end.
Following(t) ==
    CASE t.role = "planner" -> {[t EXCEPT !.stage = "ask", !.role = "reasoner"]}
      [] t.role = "reasoner" -> {[t EXCEPT !.stage = "ask", !.role = "self_eval"]}
      [] t.role = "self_eval" ->
            {[t EXCEPT !.stage = "compose"]}
            \cup {again \in {[t EXCEPT !.stage = "ask", !.role = "reasoner"]} :
                    t.rounds < MaxRounds}

\* json returns: the call is metered, then the component reads the answer, and
\* raises when it is not an object.
AnswerJson(w, a) ==
    /\ Waits(w) /\ provider # "bedrock" /\ a.parse # "nothing"
    /\ \/ /\ a.parse = "object"
          /\ \E next \in Following(AfterJson(w, a.tokens)) : turn' = [turn EXCEPT ![w] = next]
          /\ meters' = [meters EXCEPT ![Meter(w)] = Added(@, turn[w].role, a.tokens)]
          /\ UNCHANGED context
       \/ a.parse = "other" /\ End(w)
    /\ UNCHANGED <<provider, begun, replies>>

\* A completion raises.  JSON mode may be what the endpoint refuses: asked
\* again without.  A raising reformat is swallowed, and nothing was parsed.
Raise(w) ==
    /\ Waits(w)
    /\ \/ /\ provider = "openai_compatible" /\ turn[w].stage = "ask"
          /\ turn' = [turn EXCEPT ![w].stage = "plain"]
          /\ UNCHANGED <<context, meters>>
       \/ /\ provider # "openai_compatible" \/ turn[w].stage # "ask"
          /\ End(w)
    /\ UNCHANGED <<provider, begun, replies>>

\* The reply carries the meter's by_component.
Compose(w) ==
    /\ turn[w] # Absent /\ turn[w].stage = "compose"
    /\ LET t == turn[w] IN
        replies' = [replies EXCEPT ![t.id] =
            [usage |-> meters[Meter(w)], rounds |-> t.rounds, billed |-> t.billed,
             used |-> t.used, retried |-> t.retried]]
    /\ End(w)
    /\ UNCHANGED <<provider, begun>>

\* The turn fails elsewhere: in the grader or a store.
Fail(w) ==
    /\ turn[w] # Absent /\ End(w)
    /\ UNCHANGED <<provider, begun, replies>>

Serve(w) ==
    \/ \E a \in Answer : AnswerProse(w, a) \/ AnswerJson(w, a)
    \/ Raise(w) \/ Compose(w) \/ Fail(w)

Next == \E w \in Workers : Begin(w) \/ Serve(w)

\* A completion answers or raises (the client has a timeout), and the thread
\* that serves a turn keeps running.
Spec == Init /\ [][Next]_vars /\ \A w \in Workers : WF_vars(Serve(w))

-----------------------------------------------------------------------------
TypeInv ==
    /\ provider \in Providers
    /\ turn \in [Workers -> Turn \cup {Absent}]
    /\ context \in [Workers -> Turns \cup {Absent}]
    /\ meters \in [Turns -> Usage]
    /\ begun \in 0..MaxTurns
    /\ replies \in [Turns -> Reply \cup {Absent}]

Answered == {i \in Turns : replies[i] # Absent}

\* The usage a reply reports is that of its own turn, all of it and nothing
\* else: one call of the planner, one of the reasoner and one of the
\* self-evaluation for every draft, and the tokens of the answers they used,
\* whatever other workers' turns, earlier turns or failed turns did meanwhile
\* (telemetry.py, "the orchestrator activates a meter for the turn").
UsageIsTheTurnsOwn ==
    \A i \in Answered :
        LET r == replies[i] IN
        /\ r.usage.calls["planner"] = 1
        /\ r.usage.calls["reasoner"] = r.rounds
        /\ r.usage.calls["self_eval"] = r.rounds
        /\ r.usage.tokens = r.used

\* It never exceeds what the provider billed, and falls short of it only when an
\* answer had to be asked for again: the first answer is then not counted.
UsageIsBilled ==
    \A i \in Answered :
        LET r == replies[i] IN
        /\ \A role \in Roles : r.usage.tokens[role] <= r.billed[role]
        /\ ~r.retried => r.usage.tokens = r.billed

\* Every turn is over some time, whatever the models answer: an answer that
\* does not parse is not asked for again and again.
EveryCallEnds == \A w \in Workers : turn[w] # Absent ~> turn[w] = Absent
=============================================================================
