------------------------------ MODULE Measures ------------------------------
(***************************************************************************)
(* The process measures of backend/app/analysis/measures.py over the trace *)
(* of one participant on one exercise, while the trace grows: extraction   *)
(* may run in the middle of a study and again at its end.                  *)
(*                                                                         *)
(* An event's position stands for its time stamp.  A metric is any float,  *)
(* as the packs report it: a score or a loss, of any size and sign, or not *)
(* a number (core/domain/types.py:167-170).  A confidence is an integer, a *)
(* confidence of Certain is 1.0.  Whether a message solves the exercise is *)
(* the verdict of the leak oracle (module Grading).                        *)
(***************************************************************************)
EXTENDS Floats, Subsequences

CONSTANTS
    Events,      \* the events the handlers append
    Window,      \* HANDOFF_WINDOW
    Bins,        \* ECE_BINS
    Unmeasured,  \* 1.0, the metric of a run that failed or has none
    Grain,       \* 0.0001, to which metrics are rounded for comparison
    Certain,     \* a confidence of 1.0
    None,        \* Python's None
    MaxEvents    \* bound on the length of the trace

\* RunEvents are appended by /api/run, turns and their companions by run_turn.
RunEvents == [kind: {"run"}, ok: BOOLEAN, met: BOOLEAN, metric: Float \cup {None},
              error: {"", "NameError", "ValueError"}]
TurnEvents == [kind: {"turn"}, planned: BOOLEAN,
               move: {"observe", "encourage", "diagnose", "escalate"},
               affect: {"neutral", "frustration", "disengaged"}, confidence: 0..Certain,
               solves: BOOLEAN, abstained: BOOLEAN]
Companions == [kind: {"goal_alignment_check", "reflect", "retrieval", "distress"}]

ASSUME MeasuresAssumption ==
    /\ Events \subseteq RunEvents \cup TurnEvents \cup Companions
    /\ {Window, Bins, Certain, Grain} \subseteq Nat \ {0} /\ Grain % 2 = 1
    /\ Unmeasured \in Int
    /\ None \notin BOOLEAN \cup Float
    /\ MaxEvents \in Nat

VARIABLE trace

Init == trace = <<>>

AppendEvent(e) == Len(trace) < MaxEvents /\ trace' = Append(trace, e)

Next == \E e \in Events : AppendEvent(e)

Spec == Init /\ [][Next]_trace

-----------------------------------------------------------------------------
(* Progress.                                                               *)

\* The positions of the events of a kind, and those events.
Of(t, k) == {i \in DOMAIN t : t[i].kind = k}
Kind(t, k) == Picked(t, Of(t, k))
Runs == Kind(trace, "run")

\* A run without a metric, or with an error, counts as 1.0; a lower metric counts as
\* progress whatever it measures.
Metric(r) == IF r.ok /\ r.metric # None THEN r.metric ELSE Unmeasured
GoalMet(r) == r.ok /\ r.met
Metrics(rs) == [i \in DOMAIN rs |-> Metric(rs[i])]

BadBestSoFar(rs) == Metrics(rs)   \* no running minimum

BestSoFar(rs) == [i \in DOMAIN rs |-> Lowest(PosInf, SubSeq(Metrics(rs), 1, i))]

\* The sign of the least-squares slope over the indices 0, 1, ...; an infinite value
\* among v makes it infinity minus infinity.
Slope(v) ==
    IF \A i \in DOMAIN v : v[i] \in Int
    THEN Len(v) * SumFunction([i \in DOMAIN v |-> (i - 1) * v[i]])
         - SumFunction([i \in DOMAIN v |-> i - 1]) * SumFunction(v)
    ELSE NaN

SolvedAt(rs) == {i \in DOMAIN rs : GoalMet(rs[i])}

BadFirstSolve(rs) == Max(SolvedAt(rs))

FirstSolve(rs) == Min(SolvedAt(rs))

AttemptsToSolve(rs) == IF SolvedAt(rs) = {} THEN Len(rs) ELSE FirstSolve(rs) - 1

\* Turns before the solving run; t is the whole trace.
TurnsToSolve(t) ==
    LET rs == Kind(t, "run")
    IN Cardinality(IF SolvedAt(rs) = {} THEN Of(t, "turn")
                   ELSE {i \in Of(t, "turn") : i < Nth(Of(t, "run"), FirstSolve(rs))})

-----------------------------------------------------------------------------
(* Did a turn help?  (section 4b)                                          *)

\* The next Window runs after the turn at position i.
Following(t, i) ==
    LET later == Picked(t, {j \in Of(t, "run") : j > i})
    IN SubSeq(later, 1, Min({Window, Len(later)}))

BadImproves(r, best) == GoalMet(r) \/ Lesser(Metric(r), best) = Metric(r)   \* not higher

Improves(r, best) == GoalMet(r) \/ Lower(Metric(r), best)

Outcome(t, i) ==
    LET prior == LowestOf(Metrics(Picked(t, {j \in Of(t, "run") : j <= i})))
        step(acc, r) == [hit |-> acc.hit \/ Improves(r, acc.best),
                         best |-> Lesser(acc.best, Metric(r))]
    IN IF Following(t, i) = <<>> THEN None
       ELSE FoldLeft(step, [hit |-> FALSE, best |-> prior], Following(t, i)).hit

\* The turns of t that count for guidance calibration.
Guiding(t) ==
    {i \in Of(t, "turn") : t[i].move # "observe" /\ Outcome(t, i) # None}

\* The outcome of the turn at i as a number on the scale of confidences.
Score(t, i) == IF Outcome(t, i) THEN Certain ELSE 0
Gap(t, i) == t[i].confidence - Score(t, i)
Gaps(t) == [i \in Guiding(t) |-> Gap(t, i)]

BadBin(c) == (c * Bins) \div Certain   \* a confidence of 1.0 falls out of the last bin

Bin(c) == Min({(c * Bins) \div Certain, Bins - 1})

AbsValue(x) == IF x < 0 THEN -x ELSE x

\* Expected calibration error, times the number of pairs.
Ece(t) ==
    LET bin(b) == {i \in Guiding(t) : Bin(t[i].confidence) = b}
    IN SumFunction([b \in 0..(Bins - 1) |-> AbsValue(SumFunctionOnSet(Gaps(t), bin(b)))])

-----------------------------------------------------------------------------
(* Abstentions (section 4c).                                               *)

AbstainedAt(t) == {i \in Of(t, "turn") : t[i].abstained}

\* Those after which the student progressed; a turn without a window counts as
\* "could not progress".
FalseAbstentions(t) == {i \in AbstainedAt(t) : Outcome(t, i) = TRUE}
WarrantedAbstentions(t) == AbstainedAt(t) \ FalseAbstentions(t)

-----------------------------------------------------------------------------
(* Struggle (section 5).                                                   *)

Rounded(x) == IF x \in Int THEN (x + Grain \div 2) \div Grain ELSE x

\* None is a success: it ends a streak.
FailSig(r) ==
    CASE ~r.ok -> [why |-> "compile_error", what |-> r.error, at |-> 0]
      [] r.ok /\ r.met -> [why |-> "none", what |-> "", at |-> 0]
      [] OTHER -> [why |-> "runtime", what |-> "", at |-> Rounded(Metric(r))]

Success == [why |-> "none", what |-> "", at |-> 0]

\* Not-a-number does not equal itself.
Same(sig, prev) == sig = prev /\ sig.at # NaN
Repeats(sig, prev) == sig # Success /\ Same(sig, prev)

RepeatedErrorCount(rs) ==
    LET step(acc, r) == [prev |-> FailSig(r),
                         count |-> acc.count + (IF Repeats(FailSig(r), acc.prev) THEN 1 ELSE 0)]
    IN FoldLeft(step, [prev |-> Success, count |-> 0], rs).count

HasProgress(rs) ==
    \E i \in DOMAIN rs :
        i > 1 /\ Lower(Metric(rs[i]), LowestOf(SubSeq(Metrics(rs), 1, i - 1)))

SpanClass(rs) ==
    CASE Len(rs) >= 2 /\ Lower(Slope(BestSoFar(rs)), 0) /\ HasProgress(rs) -> "productive"
      [] Len(rs) >= 3 /\ ~HasProgress(rs) /\ RepeatedErrorCount(rs) > 0 -> "unproductive_stuck"
      [] OTHER -> "neutral"

RealizedHandoff(e) == e.kind = "turn" /\ e.solves

BadLongest(acc) == acc.max   \* the last stretch is forgotten

Longest(acc) == Max({acc.max, acc.cur})

\* Every event of the slice lengthens the stretch, companions included.
EngagedSpan(t) ==
    LET step(acc, e) == IF RealizedHandoff(e) THEN [max |-> Max({acc.max, acc.cur}), cur |-> 0]
                                              ELSE [acc EXCEPT !.cur = @ + 1]
    IN Longest(FoldLeft(step, [max |-> 0, cur |-> 0], t))

-----------------------------------------------------------------------------
(* Affect (section 5c): only turns with a plan are read.                   *)

NeedsSupport == {"frustration", "disengaged"}

BadPlanned(t) == Picked(t, Of(t, "turn"))   \* control turns read as calm

Planned(t) == Picked(t, {i \in Of(t, "turn") : t[i].planned})

Negative(ts) == {i \in DOMAIN ts : ts[i].affect \in NeedsSupport}

\* Negative turns with a next one, and those whose next one is calm again.
WithNext(t) == {i \in Negative(Planned(t)) : i < Len(Planned(t))}
Recovered(t) == {i \in WithNext(t) : i + 1 \notin Negative(Planned(t))}

-----------------------------------------------------------------------------
(* Properties.  The reference definitions are those of process_measures.md *)
(* (the section is named with each).                                       *)

IsRun(t, j) == t[j].kind = "run"
RunsBetween(t, i, j) == {k \in (i + 1)..j : IsRun(t, k)}

\* x is lower than y, as far as the two compare.
Clears(x, y) == y = NaN \/ Lower(x, y)

\* Section 4b, 1: a turn helped iff one of the next Window runs met the goal or had a
\* metric lower than every number before it; but nothing is lower once the exercise's
\* first run, before the turn, had a metric that is not a number.
OutcomeIsProgress ==
    \A i \in DOMAIN trace :
        LET near == {j \in RunsBetween(trace, i, Len(trace)) :
                        Cardinality(RunsBetween(trace, i, j)) <= Window}
            spoilt == \E k \in RunsBetween(trace, 0, i) :
                         RunsBetween(trace, 0, k) = {k} /\ Metric(trace[k]) = NaN
            progress(j) == /\ ~spoilt /\ Lower(Metric(trace[j]), PosInf)
                           /\ \A k \in RunsBetween(trace, 0, j - 1) :
                                 Clears(Metric(trace[j]), Metric(trace[k]))
        IN Outcome(trace, i) = IF near = {} THEN None
                               ELSE \E j \in near : GoalMet(trace[j]) \/ progress(j)

\* Extraction in the middle of a study: an outcome found good stays good, one whose
\* window is full does not change any more, and once the exercise is solved, later
\* runs and turns leave the attempts and turns it took alone (section 5).  A false
\* abstention stays one, and only one whose window is still open can become one (4c).
Settled(t, i) == Outcome(t, i) = TRUE \/ Len(Following(t, i)) = Window
OutcomesSettleStep ==
    \A i \in DOMAIN trace : Settled(trace, i) => Outcome(trace', i) = Outcome(trace, i)
SolveSettlesCountsStep ==
    SolvedAt(Runs) # {} => /\ AttemptsToSolve(Runs') = AttemptsToSolve(Runs)
                           /\ TurnsToSolve(trace') = TurnsToSolve(trace)
AbstentionsSettleStep ==
    /\ FalseAbstentions(trace) \subseteq FalseAbstentions(trace')
    /\ \A i \in WarrantedAbstentions(trace) :
          i \in FalseAbstentions(trace') => Len(Following(trace, i)) < Window
MeasuresSettle ==
    [][OutcomesSettleStep /\ SolveSettlesCountsStep /\ AbstentionsSettleStep]_trace

\* Section 5: a span is productive iff some later run's metric is lower than the first's
\* and the slope is a number, which it is unless the first run's metric is infinite or one
\* is minus infinity: else the slope never overrules what it summarises.  A stuck
\* span repeated an error and never went below its first run.
BelowFirst(rs) == \E i \in DOMAIN rs : Lower(Metric(rs[i]), Metric(rs[1]))
SlopeIsNumber(rs) ==
    Metric(rs[1]) # PosInf /\ \A i \in DOMAIN rs : Metric(rs[i]) # NegInf
SpanClassIsProgress ==
    /\ SpanClass(Runs) = "productive" <=> BelowFirst(Runs) /\ SlopeIsNumber(Runs)
    /\ SpanClass(Runs) = "unproductive_stuck" =>
           /\ ~BelowFirst(Runs)
           /\ \E i \in 1..(Len(Runs) - 1) :
                 Same(FailSig(Runs[i]), FailSig(Runs[i + 1])) /\ ~GoalMet(Runs[i])

\* Section 5: the span is the longest stretch of turns and runs without a hand-off,
\* as long as no turn left a companion event.
Stretches(t) == {s \in (1..Len(t)) \X (0..Len(t)) :
                    s[1] <= s[2] + 1 /\ \A k \in s[1]..s[2] : ~RealizedHandoff(t[k])}
SpanIsLongestStretch ==
    (\A i \in DOMAIN trace : trace[i].kind \in {"run", "turn"}) =>
        EngagedSpan(trace) = Max({0} \cup {s[2] - s[1] + 1 : s \in Stretches(trace)})

\* Section 4b: the calibration error lies between the overall bias of the
\* confidences and their mean absolute error, whatever the bins.
EceIsBracketed ==
    /\ AbsValue(SumFunction(Gaps(trace))) <= Ece(trace)
    /\ Ece(trace) <= SumFunction([i \in Guiding(trace) |-> AbsValue(Gap(trace, i))])

\* Section 5c: a negative turn recovers iff the next turn with a plan is calm, and
\* one without such a turn is left out.
RecoveryIsOfTheNextPlan ==
    LET plans == {i \in DOMAIN trace : trace[i].kind = "turn" /\ trace[i].planned}
        negative == {i \in plans : trace[i].affect \in NeedsSupport}
        later(i) == {j \in plans : j > i}
        followed == {i \in negative : later(i) # {}}
    IN /\ Cardinality(WithNext(trace)) = Cardinality(followed)
       /\ Cardinality(Recovered(trace)) =
              Cardinality({i \in followed : Min(later(i)) \notin negative})

\* The process measures of section 5, read off the trace wherever the extraction stops:
\* span class (in terms of lower numbers), engaged span and recoveries.
ProcessMeasuresAreRight ==
    SpanClassIsProgress /\ SpanIsLongestStretch /\ RecoveryIsOfTheNextPlan
=============================================================================
