--------------------------- MODULE GradingProofs ---------------------------
(***************************************************************************)
(* What a verdict means, for any spec, any programs and any interruption.  *)
(* The invariant says what the harness knows of the program after each of  *)
(* its stages; the callers' conclusions follow from it.  And what of any   *)
(* sources reaches the prompt: the invariant of a request adds what the    *)
(* verdicts so far say of the hits they were about.                        *)
(***************************************************************************)
EXTENDS Retrieval, FiniteSetTheorems, WellFoundedInduction, TLAPS

\* No function answers "not a number": with one that does, a run is reported as
\* meeting a goal it does not meet.
NoNan ==
    \A t \in Tasks : \A i \in DOMAIN t.sources : \A c \in DOMAIN Checks :
        \A k \in DOMAIN t.sources[i].readings[c] :
            Checks[c] = "contract" => t.sources[i].readings[c][k] # "nan"

\* The first n checks of a program all pass.
PassesUpTo(p, n) == \A c \in 1..n : Passes(Checks[c], p.readings[c])

\* What the harness has found out about the source it runs.
Judged(p) ==
    \/ child.error /\ ~child.goal /\ p.body = "raises"
    \/ /\ ~child.error /\ p.body = "ends"
       /\ child.goal <=> PassesUpTo(p, Len(Checks))

\* Why a source has no verdict.
Excused(i) == i \in cut \/ Garbles(task.sources[i]) \/ ~Solves(task.sources[i])

ChildInv ==
    /\ pc = "body" => child = Fresh
    /\ pc = "check" => /\ Source.body = "ends" /\ ~child.error
                       /\ child.goal <=> PassesUpTo(Source, child.checked)
    /\ pc = "print" => child.error /\ ~child.goal /\ Source.body = "raises"
    /\ pc \in {"body", "check", "print"} => child.printed = "nothing"
    /\ pc \in Running /\ child.line => Garbles(Source)
    /\ pc \in {"exiting", "exited"} /\ HasVerdict => Judged(Source)
    /\ pc = "exiting" => HasVerdict \/ Garbles(Source)
    /\ pc = "exited" => HasVerdict \/ Excused(at)

\* Snippets already graded did not meet the goal.
LeakInv ==
    /\ pc \in {"next", "exited"} \cup Running => answer = "none"
    /\ pc = "next" => task \in Tasks
    /\ pc \in Running \cup {"exited"} => task.spec /\ task \in Tasks
    /\ task.op # "leak" => at = 1
    /\ pc \in Running \cup {"next", "exited"} => \A i \in 1..(at - 1) : Excused(i)
    /\ pc = "next" => at \in DOMAIN task.sources \/ (at = 1 /\ task.sources = <<>>)

Conclusions == (NoNan => GoalMetIsEarned) /\ VerifiedIsSafe /\ MissedSolutionsWereCut

GradingInv == TypeInv /\ ChildInv /\ LeakInv /\ Conclusions

-----------------------------------------------------------------------------
(* What the checks say of a program.                                       *)

\* A program the spec says is solved passes every check and breaks none.
LEMMA SolvesPasses ==
    ASSUME NEW p \in Program, Solves(p)
    PROVE  /\ p.body = "ends"
           /\ \A c \in DOMAIN Checks : /\ Passes(Checks[c], p.readings[c])
                                       /\ BrokenBy(p.readings[c]) = {}
<1>1. p.body = "ends"  BY DEF Solves
<1>2. ASSUME NEW c \in DOMAIN Checks  PROVE Passes(Checks[c], p.readings[c])
  <2>1. \A i \in DOMAIN p.readings[c] : p.readings[c][i] \in {"good", "spills"}
    BY DEF Solves
  <2>2. CASE Checks[c] = "contract"  BY <2>1, <2>2 DEF Passes, Breaks
  <2>3. CASE Checks[c] # "contract"
    <3>1. p.readings[c] \in Seq(Compared)
      BY <2>3, GradingAssumption DEF Program
    <3>2. \A i \in DOMAIN p.readings[c] : p.readings[c][i] \in Compared
      BY <3>1
    <3> QED  BY <2>1, <2>3, <3>2 DEF Passes, Compared
  <2> QED  BY <2>2, <2>3
<1>3. ASSUME NEW c \in DOMAIN Checks  PROVE BrokenBy(p.readings[c]) = {}
  BY DEF Solves, BrokenBy, Breaks
<1> QED  BY <1>1, <1>2, <1>3

\* A program that passes every check solves the exercise, if no function answers
\* "not a number".
LEMMA PassesSolves ==
    ASSUME NEW p \in Program, p.body = "ends", PassesUpTo(p, Len(Checks)),
           \A c \in DOMAIN Checks : \A k \in DOMAIN p.readings[c] :
                Checks[c] = "contract" => p.readings[c][k] # "nan"
    PROVE  Solves(p)
<1> SUFFICES ASSUME NEW c \in DOMAIN Checks, NEW k \in DOMAIN p.readings[c]
             PROVE  p.readings[c][k] \in {"good", "spills"}
  BY DEF Solves
<1>1. c \in 1..Len(Checks)  BY GradingAssumption
<1>2. Passes(Checks[c], p.readings[c])  BY <1>1 DEF PassesUpTo
<1>3. CASE Checks[c] = "contract"
  <2>1. p.readings[c] \in Seq(Reading)  BY DEF Program
  <2>2. p.readings[c][k] \in Reading  BY <2>1
  <2> QED  BY <1>2, <1>3, <2>2 DEF Passes, Breaks, Reading, Compared
<1>4. CASE Checks[c] # "contract"
  BY <1>2, <1>4 DEF Passes
<1> QED  BY <1>3, <1>4

\* The source under the harness is a program of a task that was asked.
LEMMA SourceFacts ==
    ASSUME GradingInv, pc \in Running \cup {"exited"}
    PROVE  /\ task \in Tasks /\ task \in Task /\ task.spec
           /\ at \in DOMAIN task.sources /\ at \in Nat /\ at \in 1..Len(task.sources)
           /\ Source = task.sources[at] /\ Source \in Program
           /\ Source.readings \in [DOMAIN Checks -> Seq(Reading)]
<1>1. task \in Tasks /\ task.spec /\ at \in DOMAIN task.sources
  BY DEF GradingInv, TypeInv, LeakInv
<1>2. task \in Task  BY <1>1, GradingAssumption
<1>3. task.sources \in Seq(Program)  BY <1>2 DEF Task
<1>4. Source = task.sources[at] /\ Source \in Program  BY <1>1, <1>3 DEF Source
<1> QED  BY <1>1, <1>2, <1>3, <1>4 DEF Program

\* A step that answers nothing leaves every conclusion as it was.
LEMMA QuietStep ==
    ASSUME GradingInv, UNCHANGED <<task, answer>>, cut \subseteq cut'
    PROVE  Conclusions'
BY DEF GradingInv, Conclusions, GoalMetIsEarned, VerifiedIsSafe, MissedSolutionsWereCut

-----------------------------------------------------------------------------
(* One lemma per action.                                                   *)

LEMMA BeginKeeps ==
    ASSUME GradingInv, NEW t \in Tasks, Begin(t), served' \in Nat  PROVE GradingInv'
<1>1. /\ pc' = "next" /\ task' = t /\ at' = 1 /\ child' = Fresh /\ answer' = "none"
      /\ cut' = {}
  BY DEF Begin
<1>2. t \in Task /\ t.sources \in Seq(Program)  BY GradingAssumption DEF Task
<1>3. TypeInv'
  BY <1>1, GradingAssumption DEF GradingInv, TypeInv, Fresh, Running, Answers
<1>4. ChildInv'  BY <1>1 DEF ChildInv, Running
<1>5. LeakInv'
  <2>1. t.sources = <<>> \/ 1 \in DOMAIN t.sources  BY <1>2
  <2> QED  BY <1>1, <2>1 DEF LeakInv, Running
<1>6. Conclusions'
  BY <1>1 DEF Conclusions, GoalMetIsEarned, VerifiedIsSafe, MissedSolutionsWereCut
<1> QED  BY <1>3, <1>4, <1>5, <1>6 DEF GradingInv

LEMMA AskKeeps ==
    ASSUME GradingInv, NEW t \in Tasks, Ask(t)  PROVE GradingInv'
<1>1. Begin(t) /\ served' \in Nat  BY DEF Ask, GradingInv, TypeInv
<1> QED  BY <1>1, BeginKeeps

\* A step that leaves the grading alone.
LEMMA RestKeeps ==
    ASSUME GradingInv, UNCHANGED <<pc, task, at, child, answer, cut>>, served' \in Nat
    PROVE  GradingInv'
BY DEF GradingInv, TypeInv, ChildInv, LeakInv, Conclusions, GoalMetIsEarned,
       VerifiedIsSafe, MissedSolutionsWereCut, Judged, Excused, HasVerdict, Source

LEMMA UnspecifiedKeeps ==
    ASSUME GradingInv, Unspecified  PROVE GradingInv'
<1>1. /\ pc' = "answered" /\ answer' = "exception"
      /\ UNCHANGED <<task, at, child, cut, served>> /\ task.op # "leak"
  BY DEF Unspecified, Reply
<1>2. TypeInv'  BY <1>1 DEF GradingInv, TypeInv, Running, Answers
<1>3. ChildInv' /\ LeakInv'  BY <1>1 DEF GradingInv, ChildInv, LeakInv, Running
<1>4. Conclusions'
  BY <1>1 DEF Conclusions, GoalMetIsEarned, VerifiedIsSafe, MissedSolutionsWereCut
<1> QED  BY <1>2, <1>3, <1>4 DEF GradingInv

LEMMA NothingToGradeKeeps ==
    ASSUME GradingInv, NothingToGrade  PROVE GradingInv'
<1>1. /\ pc' = "answered" /\ answer' \in {"not_solution", "does_not_run"}
      /\ UNCHANGED <<task, at, child, cut, served>>
      /\ task.sources = <<>> \/ ~task.spec
  BY DEF NothingToGrade, Reply
<1>2. TypeInv'  BY <1>1 DEF GradingInv, TypeInv, Running, Answers
<1>3. ChildInv' /\ LeakInv'  BY <1>1 DEF GradingInv, ChildInv, LeakInv, Running
<1>4. Conclusions'
  BY <1>1 DEF Conclusions, GoalMetIsEarned, VerifiedIsSafe, MissedSolutionsWereCut
<1> QED  BY <1>2, <1>3, <1>4 DEF GradingInv

LEMMA SpawnKeeps ==
    ASSUME GradingInv, Spawn  PROVE GradingInv'
<1>1. /\ pc = "next" /\ task.spec /\ task.sources # <<>>
      /\ pc' = "body" /\ child' = Fresh /\ UNCHANGED <<task, at, answer, cut, served>>
  BY DEF Spawn
<1>2. task \in Tasks /\ at \in DOMAIN task.sources
  BY <1>1 DEF GradingInv, LeakInv
<1>3. TypeInv'
  BY <1>1, <1>2, GradingAssumption DEF GradingInv, TypeInv, Fresh, Running
<1>4. ChildInv'
  BY <1>1 DEF ChildInv, Fresh, HasVerdict, Running
<1>5. LeakInv'
  <2>1. \A i : Excused(i)' = Excused(i)  BY <1>1 DEF Excused
  <2> QED  BY <1>1, <1>2, <2>1 DEF GradingInv, LeakInv, Running
<1>6. Conclusions'  BY <1>1, QuietStep
<1> QED  BY <1>3, <1>4, <1>5, <1>6 DEF GradingInv

\* A step of the child changes nothing but the child and its stage.
LEMMA ChildStep ==
    ASSUME GradingInv, pc \in Running, pc' \in Running \cup {"exited"},
           UNCHANGED <<task, at, answer, served>>, cut \subseteq cut', cut' \subseteq Nat,
           child' \in [checked: 0..Len(Checks), error: BOOLEAN, goal: BOOLEAN, line: BOOLEAN,
                       printed: {"nothing", "garbled", "verdict"}],
           ChildInv'
    PROVE  GradingInv'
<1>1. TypeInv'  BY DEF GradingInv, TypeInv, Running
<1>2. LeakInv'
  <2>1. \A i : Excused(i) => Excused(i)'  BY DEF Excused
  <2>2. at \in Nat  BY DEF GradingInv, TypeInv
  <2> QED  BY <2>1, <2>2 DEF GradingInv, LeakInv, Running
<1>3. Conclusions'  BY QuietStep
<1> QED  BY <1>1, <1>2, <1>3 DEF GradingInv

LEMMA RunBodyKeeps ==
    ASSUME GradingInv, RunBody  PROVE GradingInv'
<1>1. /\ pc = "body" /\ child = Fresh /\ UNCHANGED <<task, at, answer, cut, served>>
      /\ pc' = CASE Source.body = "ends" -> "check"
                 [] Source.body = "raises" -> "print"
                 [] Source.body = "quits" -> "exited"
      /\ child' = IF Source.body = "raises" THEN [child EXCEPT !.error = TRUE, !.goal = FALSE]
                                            ELSE child
      /\ Source.body # "hangs"
  BY DEF RunBody, GradingInv, ChildInv
<1>2. Source \in Program  BY <1>1, SourceFacts DEF Running
<1>3. Source.body \in {"ends", "raises", "quits"}  BY <1>1, <1>2 DEF Program
<1>4. UNCHANGED Source  BY <1>1 DEF Source
<1>5. CASE Source.body = "ends"
  <2>1. pc' = "check" /\ child' = Fresh  BY <1>1, <1>5
  <2>2. PassesUpTo(Source, 0)  BY DEF PassesUpTo
  <2>3. ChildInv'
    BY <1>4, <1>5, <2>1, <2>2 DEF ChildInv, Fresh, Running, PassesUpTo
  <2> QED
    BY <1>1, <2>1, <2>3, ChildStep, GradingAssumption DEF Running, Fresh, GradingInv, TypeInv
<1>6. CASE Source.body = "raises"
  <2>1. pc' = "print" /\ child' = [Fresh EXCEPT !.error = TRUE, !.goal = FALSE]
    BY <1>1, <1>6
  <2>2. ChildInv'  BY <1>4, <1>6, <2>1 DEF ChildInv, Fresh, Running
  <2> QED
    BY <1>1, <2>1, <2>2, ChildStep, GradingAssumption DEF Running, Fresh, GradingInv, TypeInv
<1>7. CASE Source.body = "quits"
  <2>1. pc' = "exited" /\ child' = Fresh  BY <1>1, <1>7
  <2>2. Excused(at)'
    BY <1>1, <1>7 DEF Excused, Solves, Source
  <2>3. ChildInv'
    BY <2>1, <2>2 DEF ChildInv, Fresh, Running, HasVerdict
  <2> QED
    BY <1>1, <2>1, <2>3, ChildStep, GradingAssumption DEF Running, Fresh, GradingInv, TypeInv
<1> QED  BY <1>3, <1>5, <1>6, <1>7

LEMMA RunCheckKeeps ==
    ASSUME GradingInv, RunCheck  PROVE GradingInv'
<1> DEFINE c == child.checked + 1
           r == Source.readings[c]
           passed == Passes(Checks[c], r)
<1>1. /\ pc = "check" /\ child.checked < Len(Checks)
      /\ UNCHANGED <<task, at, answer, cut, served>>
      /\ "hangs" \notin BrokenBy(r)
      /\ pc' = IF "quits" \in BrokenBy(r) THEN "exited" ELSE pc
      /\ child' = [child EXCEPT !.checked = c, !.goal = GoalAfter(@, passed),
                                !.line = @ \/ (Checks[c] = "contract" /\ Spills(r))]
  BY DEF RunCheck
<1>2. /\ child.checked \in Nat /\ child.goal \in BOOLEAN /\ child.line \in BOOLEAN
      /\ child.printed \in {"nothing", "garbled", "verdict"} /\ child.error = FALSE
      /\ child = [checked |-> child.checked, error |-> child.error, goal |-> child.goal,
                  line |-> child.line, printed |-> child.printed]
      /\ Source.body = "ends" /\ (child.goal <=> PassesUpTo(Source, child.checked))
      /\ child.line => Garbles(Source)
  BY <1>1 DEF GradingInv, TypeInv, ChildInv, Running
<1>3. Source \in Program /\ UNCHANGED Source /\ c \in DOMAIN Checks /\ c \in 1..Len(Checks)
  BY <1>1, <1>2, SourceFacts, GradingAssumption DEF Running, Source
<1>4. passed \in BOOLEAN /\ Spills(r) \in BOOLEAN  BY DEF Passes, Spills
<1>5. /\ child'.checked = c /\ child'.error = FALSE /\ child'.printed = child.printed
      /\ child'.goal = (child.goal /\ passed)
      /\ child'.line = (child.line \/ (Checks[c] = "contract" /\ Spills(r)))
      /\ child' \in [checked: 0..Len(Checks), error: BOOLEAN, goal: BOOLEAN, line: BOOLEAN,
                     printed: {"nothing", "garbled", "verdict"}]
  <2> DEFINE line == child.line \/ (Checks[c] = "contract" /\ Spills(r))
               goal == child.goal /\ passed
  <2>2. line \in BOOLEAN /\ goal \in BOOLEAN  OBVIOUS
  <2>3. child' = [checked |-> c, error |-> child.error, goal |-> goal, line |-> line,
                  printed |-> child.printed]
    <3>1. child' = [child EXCEPT !.checked = c, !.goal = goal, !.line = line]
      BY <1>1 DEF GoalAfter
    <3> HIDE DEF c, r, passed, line, goal
    <3> QED  BY <1>2, <3>1
  <2>4. c \in 0..Len(Checks)  BY <1>1, <1>2, GradingAssumption
  <2> HIDE DEF c, r, passed
  <2> QED  BY <1>2, <2>2, <2>3, <2>4
<1>6. child'.goal <=> PassesUpTo(Source, c)
  <2>1. PassesUpTo(Source, c) <=> PassesUpTo(Source, child.checked) /\ passed
    BY <1>2 DEF PassesUpTo
  <2> QED  BY <1>2, <1>5, <2>1
<1>7. child'.line => Garbles(Source)
  BY <1>2, <1>3, <1>5 DEF Garbles
<1>8. CASE "quits" \in BrokenBy(r)
  <2>1. pc' = "exited"  BY <1>1, <1>8
  <2>2. ~Solves(Source)  BY <1>3, <1>8, SolvesPasses
  <2>3. Excused(at)'  BY <1>1, <2>2 DEF Excused, Source
  <2>4. child'.printed # "verdict"
    BY <1>1, <1>5 DEF GradingInv, ChildInv
  <2>5. ChildInv'  BY <2>1, <2>3, <2>4 DEF ChildInv, HasVerdict, Running
  <2> QED  BY <1>1, <1>5, <2>1, <2>5, ChildStep DEF Running, GradingInv, TypeInv
<1>9. CASE "quits" \notin BrokenBy(r)
  <2>1. pc' = "check"  BY <1>1, <1>9
  <2>2. child'.printed = "nothing"  BY <1>1, <1>5 DEF GradingInv, ChildInv
  <2>3. ChildInv'
    BY <1>2, <1>3, <1>5, <1>6, <1>7, <2>1, <2>2 DEF ChildInv, Running
  <2> QED  BY <1>1, <1>5, <2>1, <2>3, ChildStep DEF Running, GradingInv, TypeInv
<1> QED  BY <1>8, <1>9

LEMMA PrintVerdictKeeps ==
    ASSUME GradingInv, PrintVerdict  PROVE GradingInv'
<1>1. /\ pc = "print" \/ (pc = "check" /\ child.checked = Len(Checks))
      /\ pc' = "exiting" /\ UNCHANGED <<task, at, answer, cut, served>>
      /\ child' = [child EXCEPT !.printed = IF child.line THEN "garbled" ELSE "verdict"]
  BY DEF PrintVerdict
<1>2. child \in [checked: 0..Len(Checks), error: BOOLEAN, goal: BOOLEAN, line: BOOLEAN,
                 printed: {"nothing", "garbled", "verdict"}]
  BY DEF GradingInv, TypeInv
<1>3. /\ child'.error = child.error /\ child'.goal = child.goal /\ child'.line = child.line
      /\ child'.printed = IF child.line THEN "garbled" ELSE "verdict"
      /\ child' \in [checked: 0..Len(Checks), error: BOOLEAN, goal: BOOLEAN, line: BOOLEAN,
                     printed: {"nothing", "garbled", "verdict"}]
  BY <1>1, <1>2
<1>4. UNCHANGED Source  BY <1>1 DEF Source
<1>5. Judged(Source)'
  BY <1>1, <1>3, <1>4 DEF GradingInv, ChildInv, Judged
<1>6. child.line => Garbles(Source)
  BY <1>1 DEF GradingInv, ChildInv, Running
<1>7. ChildInv'
  BY <1>1, <1>2, <1>3, <1>4, <1>5, <1>6 DEF ChildInv, HasVerdict, Running
<1> QED
  BY <1>1, <1>3, <1>7, ChildStep DEF Running, GradingInv, TypeInv

LEMMA ExitKeeps ==
    ASSUME GradingInv, Exit  PROVE GradingInv'
<1>1. /\ pc = "exiting" /\ pc' = "exited"
      /\ UNCHANGED <<task, at, child, answer, cut, served>>
  BY DEF Exit
<1>2. UNCHANGED Source /\ UNCHANGED HasVerdict  BY <1>1 DEF Source, HasVerdict
<1>3. ~HasVerdict => Excused(at)'
  BY <1>1 DEF GradingInv, ChildInv, Excused, Source
<1>4. HasVerdict => Judged(Source)'
  BY <1>1, <1>2 DEF GradingInv, ChildInv, Judged
<1>5. ChildInv'  BY <1>1, <1>2, <1>3, <1>4 DEF ChildInv, Running
<1> QED  BY <1>1, <1>5, ChildStep DEF Running, GradingInv, TypeInv

LEMMA InterruptKeeps ==
    ASSUME GradingInv, Interrupt  PROVE GradingInv'
<1>1. /\ pc \in Running /\ pc' = "exited" /\ child' = [child EXCEPT !.printed = "nothing"]
      /\ cut' = cut \cup {at} /\ UNCHANGED <<task, at, answer, served>>
  BY DEF Interrupt
<1>2. /\ child' \in [checked: 0..Len(Checks), error: BOOLEAN, goal: BOOLEAN, line: BOOLEAN,
                     printed: {"nothing", "garbled", "verdict"}]
      /\ child'.printed = "nothing" /\ at \in Nat /\ cut \subseteq Nat
  BY <1>1 DEF GradingInv, TypeInv
<1>3. ChildInv'  BY <1>1, <1>2 DEF ChildInv, HasVerdict, Excused, Running
<1> QED  BY <1>1, <1>2, <1>3, ChildStep DEF Running

\* What the source at hand is, once its child is gone: the verdict, if there is
\* one, is right about it, and if there is none there is a reason.
LEMMA VerdictIsRight ==
    ASSUME GradingInv, pc = "exited"
    PROVE  /\ NoNan /\ GoalMet => Solves(Source)
           /\ Ok => Source.body = "ends"
           /\ ~GoalMet => Excused(at)
           /\ Ok /\ ~GoalMet => ~Solves(Source)
           /\ GoalMet => Ok
<1>1. /\ task \in Tasks /\ at \in DOMAIN task.sources /\ Source = task.sources[at]
      /\ Source \in Program
  BY SourceFacts
<1>2. HasVerdict => Judged(Source)  BY DEF GradingInv, ChildInv
<1>3. Solves(Source) => Source.body = "ends" /\ PassesUpTo(Source, Len(Checks))
  BY <1>1, SolvesPasses, GradingAssumption DEF PassesUpTo
<1>4. GoalMet => Ok /\ Source.body = "ends" /\ PassesUpTo(Source, Len(Checks))
  BY <1>2 DEF GoalMet, Ok, Judged
<1>5. NoNan /\ GoalMet => Solves(Source)
  BY <1>1, <1>4, PassesSolves DEF NoNan
<1>6. Ok => Source.body = "ends"  BY <1>2 DEF Ok, Judged
<1>7. HasVerdict /\ ~GoalMet => ~Solves(Source)
  BY <1>2, <1>3 DEF GoalMet, Judged
<1>8. ~HasVerdict => Excused(at)  BY DEF GradingInv, ChildInv
<1>9. ~GoalMet => Excused(at)  BY <1>1, <1>7, <1>8 DEF Excused
<1> QED  BY <1>4, <1>5, <1>6, <1>7, <1>9 DEF Ok

LEMMA ConcludeKeeps ==
    ASSUME GradingInv, Conclude  PROVE GradingInv'
<1>1. /\ pc = "exited" /\ UNCHANGED <<task, child, cut, served>>
      /\ at \in Nat /\ answer \in Answers
  BY DEF Conclude, GradingInv, TypeInv
<1>2. /\ task \in Tasks /\ task \in Task /\ at \in 1..Len(task.sources)
      /\ Source = task.sources[at] /\ (task.op # "leak" => at = 1)
      /\ task.spec
  BY <1>1, SourceFacts DEF GradingInv, LeakInv
<1>3. \A i : Excused(i)' = Excused(i)  BY <1>1 DEF Excused
<1>4. ASSUME NEW a \in Answers, Reply(a), UNCHANGED at,
             a = "goal_met" => task.op = "run" /\ GoalMet,
             a = "verified" => task.op = "verify" /\ Ok /\ ~GoalMet,
             a = "is_solution" => GoalMet,
             a = "not_solution" => task.op = "leak" /\ ~GoalMet /\ at = Len(task.sources)
      PROVE  GradingInv'
  <2>1. pc' = "answered" /\ answer' = a  BY <1>4 DEF Reply
  <2>2. TypeInv'  BY <1>1, <1>4, <2>1 DEF GradingInv, TypeInv, Running
  <2>3. ChildInv'  BY <2>1 DEF ChildInv, Running
  <2>4. LeakInv'  BY <1>1, <1>2, <1>4, <2>1 DEF LeakInv, Running
  <2>5. NoNan => GoalMetIsEarned'
    BY <1>1, <1>2, <1>4, <2>1, VerdictIsRight DEF GoalMetIsEarned
  <2>6. VerifiedIsSafe'
    BY <1>1, <1>2, <1>4, <2>1, VerdictIsRight DEF VerifiedIsSafe
  <2>7. MissedSolutionsWereCut'
    <3> SUFFICES ASSUME a = "not_solution", NEW i \in DOMAIN task.sources,
                        Solves(task.sources[i])
                 PROVE  i \in cut \/ Garbles(task.sources[i])
      BY <1>1, <2>1 DEF MissedSolutionsWereCut
    <3>1. task.sources \in Seq(Program)  BY <1>2 DEF Task
    <3>2. i \in 1..(at - 1) \/ i = at  BY <1>1, <1>4, <3>1
    <3>3. Excused(i)
      BY <1>1, <1>4, <3>2, VerdictIsRight DEF GradingInv, LeakInv
    <3> QED  BY <3>3 DEF Excused
  <2> QED  BY <2>2, <2>3, <2>4, <2>5, <2>6, <2>7 DEF GradingInv, Conclusions
<1>5. CASE task.op = "run" /\ Reply(CASE ~Ok -> "not_ok" [] Ok /\ GoalMet -> "goal_met"
                                       [] OTHER -> "goal_not_met") /\ UNCHANGED at
  <2>1. CASE ~Ok
    <3>1. Reply("not_ok")  BY <1>5, <2>1
    <3> QED  BY <1>4, <1>5, <3>1 DEF Answers
  <2>2. CASE Ok /\ GoalMet
    <3>1. Reply("goal_met")  BY <1>5, <2>2
    <3> QED  BY <1>4, <1>5, <2>2, <3>1 DEF Answers
  <2>3. CASE Ok /\ ~GoalMet
    <3>1. Reply("goal_not_met")  BY <1>5, <2>3
    <3> QED  BY <1>4, <1>5, <3>1 DEF Answers
  <2> QED  BY <2>1, <2>2, <2>3
<1>6. CASE task.op = "verify" /\ Reply(Verification) /\ UNCHANGED at
  <2>1. CASE ~Ok
    <3>1. Reply("does_not_run")  BY <1>6, <2>1 DEF Verification
    <3> QED  BY <1>4, <1>6, <3>1 DEF Answers
  <2>2. CASE Ok /\ GoalMet
    <3>1. Reply("would_solve_current_exercise")  BY <1>6, <2>2 DEF Verification
    <3> QED  BY <1>4, <1>6, <3>1 DEF Answers
  <2>3. CASE Ok /\ ~GoalMet
    <3>1. Reply("verified")  BY <1>6, <2>3 DEF Verification
    <3> QED  BY <1>4, <1>6, <2>3, <3>1 DEF Answers
  <2> QED  BY <2>1, <2>2, <2>3
<1>7. CASE /\ task.op = "leak" /\ ~MoreToGrade /\ UNCHANGED at
           /\ Reply(IF GoalMet THEN "is_solution" ELSE "not_solution")
  <2>1. CASE GoalMet
    <3>1. Reply("is_solution")  BY <1>7, <2>1
    <3> QED  BY <1>4, <1>7, <2>1, <3>1 DEF Answers
  <2>2. CASE ~GoalMet
    <3>1. Reply("not_solution")  BY <1>7, <2>2
    <3>2. Len(task.sources) \in Nat  BY <1>2 DEF Task
    <3>3. at = Len(task.sources)  BY <1>2, <1>7, <2>2, <3>2 DEF MoreToGrade
    <3> QED  BY <1>4, <1>7, <2>2, <3>1, <3>3 DEF Answers
  <2> QED  BY <2>1, <2>2
<1>8. CASE /\ task.op = "leak" /\ MoreToGrade /\ UNCHANGED answer
           /\ pc' = "next" /\ at' = at + 1
  <2>1. Excused(at)  BY <1>1, <1>8, VerdictIsRight DEF MoreToGrade
  <2>2. Len(task.sources) \in Nat /\ DOMAIN task.sources = 1..Len(task.sources)
    BY <1>2 DEF Task
  <2>3. at + 1 \in DOMAIN task.sources /\ at + 1 \in Nat
    BY <1>1, <1>2, <1>8, <2>2 DEF MoreToGrade
  <2>4. TypeInv'  BY <1>1, <1>8, <2>3 DEF GradingInv, TypeInv, Running
  <2>5. ChildInv'  BY <1>8 DEF ChildInv, Running
  <2>6. \A i \in 1..(at' - 1) : Excused(i)'
    <3>1. \A i \in 1..(at - 1) : Excused(i)  BY <1>1 DEF GradingInv, LeakInv
    <3> QED  BY <1>1, <1>3, <1>8, <2>1, <3>1
  <2>7. LeakInv'
    BY <1>1, <1>2, <1>8, <2>3, <2>6 DEF GradingInv, LeakInv, Running
  <2>8. Conclusions'  BY <1>1, <1>8, QuietStep
  <2> QED  BY <2>4, <2>5, <2>7, <2>8 DEF GradingInv
<1> QED  BY <1>5, <1>6, <1>7, <1>8 DEF Conclude

-----------------------------------------------------------------------------
(* The theorems.                                                           *)

LEMMA StepKeeps ==
    ASSUME GradingInv, Step  PROVE GradingInv'
BY UnspecifiedKeeps, NothingToGradeKeeps, SpawnKeeps, RunBodyKeeps, RunCheckKeeps,
   PrintVerdictKeeps, ExitKeeps, InterruptKeeps, ConcludeKeeps DEF Step

LEMMA InitialGrading == Init => GradingInv
<1> SUFFICES ASSUME Init  PROVE GradingInv
  OBVIOUS
<1>1. TypeInv
  BY GradingAssumption DEF Init, TypeInv, Fresh, Idle, Running, Answers
<1>2. ChildInv /\ LeakInv  BY DEF Init, ChildInv, LeakInv, Idle, Running
<1>3. Conclusions
  BY DEF Init, Conclusions, GoalMetIsEarned, VerifiedIsSafe, MissedSolutionsWereCut
<1> QED  BY <1>1, <1>2, <1>3 DEF GradingInv

LEMMA Invariance == Spec => []GradingInv
<1>1. GradingInv /\ [Next]_vars => GradingInv'
  <2> SUFFICES ASSUME GradingInv, [Next]_vars  PROVE GradingInv'
    OBVIOUS
  <2>1. ASSUME NEW t \in Tasks, Ask(t)  PROVE GradingInv'
    BY <2>1, AskKeeps
  <2>2. CASE Step  BY <2>2, StepKeeps
  <2>3. CASE UNCHANGED vars
    BY <2>3, RestKeeps DEF vars, GradingInv, TypeInv
  <2> QED  BY <2>1, <2>2, <2>3 DEF Next
<1> QED  BY <1>1, InitialGrading, PTL DEF Spec

\* The task, the child and the answer stay well-typed.
THEOREM TypeCorrect == Spec => []TypeInv
<1>1. GradingInv => TypeInv  BY DEF GradingInv
<1> QED  BY <1>1, Invariance, PTL

\* A goal reported met was met, and a reported solution is one, as long as no
\* function answers "not a number" (_harness.py:99-104).
THEOREM VerdictsAreEarned ==
    ASSUME NoNan  PROVE Spec => []GoalMetIsEarned
<1>1. GradingInv => GoalMetIsEarned  BY DEF GradingInv, Conclusions
<1> QED  BY <1>1, Invariance, PTL

\* A verified worked example runs and does not solve the exercise, whatever is
\* interrupted (pack.verify_worked_example).
THEOREM ExamplesAreSafe == Spec => []VerifiedIsSafe
<1>1. GradingInv => VerifiedIsSafe  BY DEF GradingInv, Conclusions
<1> QED  BY <1>1, Invariance, PTL

\* The leak oracle overlooks a solution only if its grading was interrupted or its
\* verdict garbled (pack.leak_evidence, grader._parse_grade).
THEOREM OnlyCutSolutionsAreMissed == Spec => []MissedSolutionsWereCut
<1>1. GradingInv => MissedSolutionsWereCut  BY DEF GradingInv, Conclusions
<1> QED  BY <1>1, Invariance, PTL

-----------------------------------------------------------------------------
(* Counting.  Predicates are sets, relations are sets of pairs.            *)

\* A set of natural numbers has a least element; Min is that element.
LEMMA LeastNumber ==
    ASSUME NEW S, S \subseteq Nat, S # {}
    PROVE  \E x \in S : \A y \in S : x <= y
<1> DEFINE R == {ss \in Nat \X Nat : ss[1] < ss[2]}
<1>1. IsWellFoundedOn(R, Nat)  BY NatLessThanWellFounded DEF OpToRel
<1>2. \A m, n \in Nat : m < n => <<m, n>> \in R  OBVIOUS
<1> HIDE DEF R
<1>3. PICK x \in S : \A y \in S : ~ (<<y, x>> \in R)  BY <1>1, WFMin
<1>4. ASSUME NEW y \in S  PROVE x <= y
  <2>1. x \in Nat /\ y \in Nat /\ ~(y < x)  BY <1>2, <1>3
  <2> QED  BY <2>1
<1> QED  BY <1>4

LEMMA MinIsLeast ==
    ASSUME NEW S, S \subseteq Nat, S # {}
    PROVE  Min(S) \in S /\ \A y \in S : Min(S) <= y
BY LeastNumber DEF Min

\* Induction over the natural numbers, with a set for the predicate.
LEMMA NumberInduction ==
    ASSUME NEW S, 0 \in S, \A n \in Nat : n \in S => n + 1 \in S
    PROVE  Nat \subseteq S
<1> SUFFICES ASSUME NEW k \in Nat \ S  PROVE FALSE  OBVIOUS
<1>1. PICK x \in Nat \ S : \A y \in Nat \ S : x <= y  BY LeastNumber
<1>2. x # 0 /\ x - 1 \in Nat  BY <1>1
<1>3. x - 1 \in S  BY <1>1, <1>2
<1>4. (x - 1) + 1 = x  BY <1>1
<1> QED  BY <1>1, <1>2, <1>3, <1>4

\* R orders the finite set S strictly and totally; upto[x] holds x and what is before.
Ordered(S, R, upto) ==
    /\ IsFiniteSet(S)
    /\ \A x, y \in S : x # y => <<x, y>> \in R \/ <<y, x>> \in R
    /\ \A x, y \in S : ~(<<x, y>> \in R /\ <<y, x>> \in R)
    /\ \A x, y, z \in S : <<x, y>> \in R /\ <<y, z>> \in R => <<x, z>> \in R
    /\ upto \in [S -> SUBSET S]
    /\ \A x, y \in S : y \in upto[x] <=> y = x \/ <<y, x>> \in R

\* The places in such an order: as many as elements, each taken, and in order.
LEMMA Places ==
    ASSUME NEW S, NEW R, NEW upto, Ordered(S, R, upto)
    PROVE  /\ Cardinality(S) \in Nat
           /\ \A x \in S : Cardinality(upto[x]) \in 1..Cardinality(S)
           /\ \A x, y \in S : <<x, y>> \in R <=> Cardinality(upto[x]) < Cardinality(upto[y])
           /\ \A x, y \in S : Cardinality(upto[x]) = Cardinality(upto[y]) => x = y
           /\ \A n \in 1..Cardinality(S) : \E x \in S : Cardinality(upto[x]) = n
<1> DEFINE N == Cardinality(S)
           place == [x \in S |-> Cardinality(upto[x])]
<1> USE DEF Ordered
<1>1. N \in Nat  BY FS_CardinalityType
<1>2. ASSUME NEW x \in S
      PROVE  /\ IsFiniteSet(upto[x]) /\ Cardinality(upto[x]) \in 1..N
             /\ place[x] = Cardinality(upto[x])
  <2>1. upto[x] \in SUBSET S /\ x \in upto[x]  OBVIOUS
  <2>2. IsFiniteSet(upto[x]) /\ Cardinality(upto[x]) <= N  BY <2>1, FS_Subset
  <2>3. Cardinality(upto[x]) \in Nat  BY <2>2, FS_CardinalityType
  <2>4. Cardinality(upto[x]) # 0  BY <2>1, <2>2, FS_EmptySet
  <2> QED  BY <1>1, <2>2, <2>3, <2>4
<1>4. place \in [S -> 1..N]  BY <1>2
<1> HIDE DEF N, place
<1>3. ASSUME NEW x \in S, NEW y \in S, <<x, y>> \in R
      PROVE  place[x] < place[y]
  <2>1. upto[x] \in SUBSET upto[y]  BY <1>3
  <2>2. y \in upto[y] /\ y \notin upto[x]  BY <1>3
  <2>3. IsFiniteSet(upto[y])  BY <1>2
  <2>4. Cardinality(upto[x]) <= Cardinality(upto[y]) /\ Cardinality(upto[x]) # Cardinality(upto[y])
    BY <2>1, <2>2, <2>3, FS_Subset
  <2>5. place[x] <= place[y] /\ place[x] # place[y]  BY <1>2, <2>4
  <2> QED  BY <1>1, <1>4, <2>5
<1>5. \A x, y \in S : place[x] = place[y] => x = y
  <2> SUFFICES ASSUME NEW x \in S, NEW y \in S, place[x] = place[y], x # y  PROVE FALSE
    OBVIOUS
  <2>1. place[x] < place[y] \/ place[y] < place[x]  BY <1>3
  <2> QED  BY <1>1, <1>4, <2>1
<1>6. \A x, y \in S : <<x, y>> \in R <=> place[x] < place[y]
  <2> SUFFICES ASSUME NEW x \in S, NEW y \in S, place[x] < place[y]  PROVE <<x, y>> \in R
    BY <1>3
  <2>1. x # y /\ ~(place[y] < place[x])  BY <1>1, <1>4
  <2> QED  BY <1>3, <2>1
<1>7. \A n \in 1..N : \E x \in S : place[x] = n
  <2>1. place \in Injection(S, 1..N)  BY <1>4, <1>5 DEF Injection, IsInjective
  <2>2. IsFiniteSet(1..N) /\ Cardinality(1..N) = N  BY <1>1, FS_Interval
  <2>3. place \in Surjection(S, 1..N)  BY <2>1, <2>2, FS_Injection DEF N
  <2> QED  BY <2>3 DEF Surjection
<1> QED  BY <1>1, <1>2, <1>5, <1>6, <1>7 DEF N

\* A finite set of positions in a list.
Positions(I) == IsFiniteSet(I) /\ I \subseteq Nat

\* The same for positions in ascending order: Nth is the inverse of the place.
LEMMA NthFacts ==
    ASSUME NEW I, Positions(I)
    PROVE  /\ Cardinality(I) \in Nat
           /\ \A n \in 1..Cardinality(I) :
                 Nth(I, n) \in I /\ Cardinality({j \in I : j <= Nth(I, n)}) = n
           /\ \A i \in I : /\ Cardinality({j \in I : j <= i}) \in 1..Cardinality(I)
                           /\ Nth(I, Cardinality({j \in I : j <= i})) = i
           /\ \A m, n \in 1..Cardinality(I) : m < n <=> Nth(I, m) < Nth(I, n)
<1> DEFINE R == {p \in I \X I : p[1] < p[2]}
           upto == [x \in I |-> {j \in I : j <= x}]
<1>1. \A x, y \in I : <<x, y>> \in R <=> x < y  BY DEF Positions
<1>2. upto \in [I -> SUBSET I]  OBVIOUS
<1>3. \A x \in I : upto[x] = {j \in I : j <= x}  OBVIOUS
<1>4. \A x, y \in I : y \in upto[x] <=> y <= x  OBVIOUS
<1> HIDE DEF R, upto
<1>5. \A x, y \in I : y \in upto[x] <=> y = x \/ <<y, x>> \in R
  <2> SUFFICES ASSUME NEW x \in I, NEW y \in I
               PROVE  y \in upto[x] <=> y = x \/ <<y, x>> \in R
    OBVIOUS
  <2>1. x \in Int /\ y \in Int  BY DEF Positions
  <2> QED  BY <1>1, <1>4, <2>1
<1>6. /\ Cardinality(I) \in Nat
      /\ \A x \in I : Cardinality(upto[x]) \in 1..Cardinality(I)
      /\ \A x, y \in I : <<x, y>> \in R <=> Cardinality(upto[x]) < Cardinality(upto[y])
      /\ \A x, y \in I : Cardinality(upto[x]) = Cardinality(upto[y]) => x = y
      /\ \A n \in 1..Cardinality(I) : \E x \in I : Cardinality(upto[x]) = n
  <2>1. \A x, y \in I : x # y => <<x, y>> \in R \/ <<y, x>> \in R
    <3> SUFFICES ASSUME NEW x \in I, NEW y \in I, x # y  PROVE x < y \/ y < x
      BY <1>1
    <3> QED  BY DEF Positions
  <2>2. \A x, y \in I : ~(<<x, y>> \in R /\ <<y, x>> \in R)
    <3> SUFFICES ASSUME NEW x \in I, NEW y \in I  PROVE ~(x < y /\ y < x)
      BY <1>1
    <3> QED  BY DEF Positions
  <2>3. \A x, y, z \in I : <<x, y>> \in R /\ <<y, z>> \in R => <<x, z>> \in R
    <3> SUFFICES ASSUME NEW x \in I, NEW y \in I, NEW z \in I, x < y, y < z  PROVE x < z
      BY <1>1
    <3> QED  BY DEF Positions
  <2>4. Ordered(I, R, upto)  BY <1>2, <1>5, <2>1, <2>2, <2>3 DEF Ordered, Positions
  <2> QED  BY <2>4, Places
<1>7. ASSUME NEW n \in 1..Cardinality(I)
      PROVE  Nth(I, n) \in I /\ Cardinality(upto[Nth(I, n)]) = n
  <2>1. PICK x \in I : Cardinality(upto[x]) = n  BY <1>6
  <2>2. Cardinality({j \in I : j <= x}) = n  BY <1>3, <2>1
  <2>3. Nth(I, n) \in I /\ Cardinality({j \in I : j <= Nth(I, n)}) = n  BY <2>2 DEF Nth
  <2> QED  BY <1>3, <2>3
<1>8. ASSUME NEW i \in I
      PROVE  /\ Cardinality(upto[i]) \in 1..Cardinality(I)
             /\ Nth(I, Cardinality(upto[i])) = i
  BY <1>6, <1>7
<1>9. ASSUME NEW m \in 1..Cardinality(I), NEW n \in 1..Cardinality(I)
      PROVE  m < n <=> Nth(I, m) < Nth(I, n)
  <2> DEFINE a == Nth(I, m)
             b == Nth(I, n)
  <2>1. a \in I /\ b \in I /\ Cardinality(upto[a]) = m /\ Cardinality(upto[b]) = n  BY <1>7
  <2> HIDE DEF a, b
  <2>2. <<a, b>> \in R <=> m < n  BY <1>6, <2>1
  <2>3. <<a, b>> \in R <=> a < b  BY <1>1, <2>1
  <2> QED  BY <2>2, <2>3 DEF a, b
<1> QED  BY <1>3, <1>6, <1>7, <1>8, <1>9

-----------------------------------------------------------------------------
(* Ingestion and search.                                                   *)

Credited == {r \in CorpusPassage : Complete(r)}

Found(recs, q) == {i \in DOMAIN recs : Relevance(recs, q, i) > 0}

LEMMA RelevanceType ==
    ASSUME NEW recs \in Seq(Credited), NEW q \in Queries, NEW i \in DOMAIN recs
    PROVE  Relevance(recs, q, i) \in Nat /\ recs[i].id \in Nat /\ recs[i] \in Credited
BY RetrievalAssumption DEF Relevance, Credited, CorpusPassage

\* The ranking puts the n-th passage of the order at n, up to K of them.
LEMMA RankedFacts ==
    ASSUME NEW recs \in Seq(Credited), NEW q \in Queries
    PROVE  /\ \E M \in 0..K :
                /\ Ranked(recs, q) \in [1..M -> Found(recs, q)]
                /\ \A i \in Found(recs, q) :
                      \/ \E n \in 1..M : Ranked(recs, q)[n] = i
                      \/ M = K /\ \A n \in 1..M :
                             Relevance(recs, q, Ranked(recs, q)[n]) >= Relevance(recs, q, i)
<1> DEFINE F == Found(recs, q)
           N == Cardinality(F)
           M == Min({K, N})
           R == {p \in F \X F : Before(recs, q, p[1], p[2])}
           upto == [x \in F |-> {y \in F : y = x \/ Before(recs, q, y, x)}]
<1>1. F \subseteq DOMAIN recs /\ IsFiniteSet(F)
  <2>1. IsFiniteSet(1..Len(recs))  BY FS_Interval
  <2> QED  BY <2>1, FS_Subset DEF Found
<1>2. \A x, y \in F : <<x, y>> \in R <=> Before(recs, q, x, y)  OBVIOUS
<1>3. upto \in [F -> SUBSET F] /\ \A x \in F : upto[x] = {y \in F : y = x \/ Before(recs, q, y, x)}
  OBVIOUS
<1>4. \A x, y \in F : y \in upto[x] <=> y = x \/ <<y, x>> \in R  BY <1>2
<1>5. Ranked(recs, q) =
          [n \in 1..M |-> CHOOSE i \in F : Cardinality({y \in F : y = i \/ Before(recs, q, y, i)}) = n]
  BY DEF Ranked, Found
<1> HIDE DEF R, upto, F
<1>6. Ordered(F, R, upto)
  <2>1. \A x \in F : x \in Int /\ Relevance(recs, q, x) \in Int /\ recs[x].id \in Int
    BY <1>1, RelevanceType
  <2>2. ASSUME NEW x \in F, NEW y \in F  PROVE ~(<<x, y>> \in R /\ <<y, x>> \in R)
    BY <1>2, <2>1 DEF Before
  <2>3. ASSUME NEW x \in F, NEW y \in F, x # y  PROVE <<x, y>> \in R \/ <<y, x>> \in R
    BY <1>2, <2>1, <2>3 DEF Before
  <2>4. ASSUME NEW x \in F, NEW y \in F, NEW z \in F, <<x, y>> \in R, <<y, z>> \in R
        PROVE  <<x, z>> \in R
    <3>1. Before(recs, q, x, y) /\ Before(recs, q, y, z)  BY <1>2, <2>4
    <3>2. Before(recs, q, x, z)  BY <2>1, <3>1 DEF Before
    <3> QED  BY <1>2, <3>2
  <2> QED  BY <1>1, <1>3, <1>4, <2>2, <2>3, <2>4 DEF Ordered
<1>7. /\ N \in Nat
      /\ \A x \in F : Cardinality(upto[x]) \in 1..N
      /\ \A x, y \in F : <<x, y>> \in R <=> Cardinality(upto[x]) < Cardinality(upto[y])
      /\ \A x, y \in F : Cardinality(upto[x]) = Cardinality(upto[y]) => x = y
      /\ \A n \in 1..N : \E x \in F : Cardinality(upto[x]) = n
  BY <1>6, Places
<1>8. K \in Nat /\ M \in Nat /\ M <= K /\ M <= N /\ (M = K \/ M = N)
  <2>1. K \in Nat /\ {K, N} \subseteq Nat  BY <1>7, RetrievalAssumption
  <2>2. M \in {K, N} /\ \A y \in {K, N} : M <= y  BY <2>1, MinIsLeast
  <2> QED  BY <2>1, <2>2
<1> HIDE DEF N, M
<1>9. ASSUME NEW n \in 1..M
      PROVE  Ranked(recs, q)[n] \in F /\ Cardinality(upto[Ranked(recs, q)[n]]) = n
  <2>1. n \in 1..N  BY <1>7, <1>8
  <2>2. \E i \in F : Cardinality(upto[i]) = n  BY <1>7, <2>1
  <2>3. \E i \in F : Cardinality({y \in F : y = i \/ Before(recs, q, y, i)}) = n
    BY <1>3, <2>2
  <2>4. LET i == Ranked(recs, q)[n]
        IN  i \in F /\ Cardinality({y \in F : y = i \/ Before(recs, q, y, i)}) = n
    BY <1>5, <2>3
  <2> QED  BY <1>3, <2>4
<1>10. ASSUME NEW i \in F
       PROVE  \/ \E n \in 1..M : Ranked(recs, q)[n] = i
              \/ M = K /\ \A n \in 1..M :
                      Relevance(recs, q, Ranked(recs, q)[n]) >= Relevance(recs, q, i)
  <2> DEFINE p == Cardinality(upto[i])
  <2>1. p \in 1..N  BY <1>7
  <2>2. CASE p \in 1..M  BY <1>7, <1>9, <2>2
  <2>3. CASE p \notin 1..M
    <3>1. M = K /\ M < p  BY <1>7, <1>8, <2>1, <2>3
    <3>2. ASSUME NEW n \in 1..M
          PROVE  Relevance(recs, q, Ranked(recs, q)[n]) >= Relevance(recs, q, i)
      <4> DEFINE x == Ranked(recs, q)[n]
      <4>1. x \in F /\ Cardinality(upto[x]) < p  BY <1>8, <1>9, <2>1, <3>1
      <4>2. Before(recs, q, x, i)  BY <1>2, <1>7, <4>1
      <4>3. Relevance(recs, q, x) \in Nat /\ Relevance(recs, q, i) \in Nat
        BY <1>1, <4>1, RelevanceType
      <4> QED  BY <4>2, <4>3 DEF Before
    <3> QED  BY <3>1, <3>2
  <2> QED  BY <2>2, <2>3
<1>11. Ranked(recs, q) \in [1..M -> F]  BY <1>5, <1>9
<1> QED  BY <1>8, <1>10, <1>11 DEF F

\* A concatenation of sequences over X is one.
LEMMA FlattenType ==
    ASSUME NEW X, NEW ss \in Seq(Seq(X))
    PROVE  FlattenSeq(ss) \in Seq(X)
<1> DEFINE L == Len(ss)
           IsFlat(f, n) == /\ f \in [1..n -> Seq(X)]
                           /\ \A i \in 1..n : f[i] = IF i = 1 THEN ss[i] ELSE f[i - 1] \o ss[i]
           S == {n \in Nat : n <= L => \E f : IsFlat(f, n)}
<1>1. L \in Nat /\ \A i \in 1..L : ss[i] \in Seq(X)  OBVIOUS
<1> HIDE DEF L
<1>2. 0 \in S
  <2>1. IsFlat([i \in 1..0 |-> <<>>], 0)  OBVIOUS
  <2> QED  BY <2>1
<1>3. ASSUME NEW n \in Nat, n \in S, n + 1 <= L  PROVE \E f : IsFlat(f, n + 1)
  <2>1. PICK f : IsFlat(f, n)  BY <1>1, <1>3
  <2> DEFINE m == n + 1
             v == IF m = 1 THEN ss[m] ELSE f[m - 1] \o ss[m]
             g == [i \in 1..m |-> IF i = m THEN v ELSE f[i]]
  <2>2. ss[m] \in Seq(X)  BY <1>1, <1>3
  <2>3. v \in Seq(X)
    <3>1. CASE m = 1  BY <2>2, <3>1
    <3>2. CASE m # 1
      <4>1. m - 1 \in 1..n  BY <3>2
      <4>2. f[m - 1] \in Seq(X)  BY <2>1, <4>1
      <4> QED  BY <2>2, <3>2, <4>2
    <3> QED  BY <3>1, <3>2
  <2> HIDE DEF v
  <2>4. g \in [1..m -> Seq(X)]
    <3> SUFFICES ASSUME NEW i \in 1..m  PROVE (IF i = m THEN v ELSE f[i]) \in Seq(X)
      OBVIOUS
    <3>1. i = m \/ i \in 1..n  OBVIOUS
    <3> QED  BY <2>1, <2>3, <3>1
  <2>5. ASSUME NEW i \in 1..m
        PROVE  g[i] = IF i = 1 THEN ss[i] ELSE g[i - 1] \o ss[i]
    <3>1. CASE i = m
      <4>1. g[i] = v  BY <3>1
      <4>2. i = 1 \/ (i - 1 \in 1..n /\ g[i - 1] = f[i - 1])  BY <3>1
      <4> QED  BY <3>1, <4>1, <4>2 DEF v
    <3>2. CASE i # m
      <4>1. i \in 1..n /\ g[i] = f[i]  BY <3>2
      <4>2. i = 1 \/ (i - 1 \in 1..n /\ g[i - 1] = f[i - 1])  BY <4>1
      <4> QED  BY <2>1, <4>1, <4>2
    <3> QED  BY <3>1, <3>2
  <2>6. IsFlat(g, m)  BY <2>4, <2>5
  <2> QED  BY <2>6
<1>4. L \in S
  <2> HIDE DEF IsFlat
  <2>1. ASSUME NEW n \in Nat, n \in S  PROVE n + 1 \in S  BY <1>3, <2>1
  <2> HIDE DEF S
  <2> QED  BY <1>1, <1>2, <2>1, NumberInduction
<1> HIDE DEF IsFlat
<1>5. PICK f : IsFlat(f, L)  BY <1>1, <1>4
<1>6. f = [i \in 1..L |-> IF i = 1 THEN ss[i] ELSE f[i - 1] \o ss[i]]  BY <1>5 DEF IsFlat
<1> DEFINE h == CHOOSE h : h = [i \in 1..L |-> IF i = 1 THEN ss[i] ELSE h[i - 1] \o ss[i]]
<1>7. h = [i \in 1..L |-> IF i = 1 THEN ss[i] ELSE h[i - 1] \o ss[i]]  BY <1>6
<1>8. ASSUME L # 0  PROVE h[L] \in Seq(X)
  <2> DEFINE T == {n \in Nat : n + 1 <= L => h[n + 1] \in Seq(X)}
  <2> HIDE DEF h
  <2>1. 0 \in T  BY <1>1, <1>7
  <2>2. ASSUME NEW n \in Nat, n \in T  PROVE n + 1 \in T
    <3> SUFFICES ASSUME (n + 1) + 1 <= L  PROVE h[(n + 1) + 1] \in Seq(X)  OBVIOUS
    <3>1. h[n + 1] \in Seq(X)  BY <1>1, <2>2
    <3>2. (n + 1) + 1 \in 1..L /\ (n + 1) + 1 # 1 /\ ((n + 1) + 1) - 1 = n + 1  BY <1>1
    <3>3. h[(n + 1) + 1] = h[n + 1] \o ss[(n + 1) + 1]  BY <1>7, <3>2
    <3> QED  BY <1>1, <3>1, <3>2, <3>3
  <2>3. L - 1 \in T
    <3>1. L - 1 \in Nat  BY <1>1, <1>8
    <3> HIDE DEF T
    <3> QED  BY <2>1, <2>2, <3>1, NumberInduction
  <2>4. (L - 1) + 1 = L  BY <1>1
  <2> QED  BY <1>1, <2>3, <2>4
<1> QED  BY <1>8 DEF FlattenSeq, L

\* Only complete records of allowed licenses get into a corpus.
LEMMA IngestedType ==
    ASSUME NEW sources \in SourceLists  PROVE Ingested(sources) \in Seq(Credited)
<1>1. sources \in Seq(KnowledgeSource)  BY RetrievalAssumption
<1>2. ASSUME NEW i \in DOMAIN sources  PROVE Admitted(sources[i]) \in Seq(Credited)
  <2> DEFINE src == sources[i]
             I == {n \in DOMAIN src.passages : Complete(Records(src)[n])}
  <2>1. src \in KnowledgeSource  BY <1>1
  <2> HIDE DEF src
  <2>2. src.passages \in Seq(Passage)  BY <2>1 DEF KnowledgeSource
  <2>3. Positions(I)
    <3>1. I \in SUBSET (1..Len(src.passages)) /\ Len(src.passages) \in Nat  BY <2>2
    <3>2. IsFiniteSet(1..Len(src.passages))  BY <3>1, FS_Interval
    <3> QED  BY <3>1, <3>2, FS_Subset DEF Positions
  <2>4. ASSUME NEW n \in I  PROVE Records(src)[n] \in Credited
    <3>1. n \in DOMAIN src.passages /\ Complete(Records(src)[n])  OBVIOUS
    <3>2. src.passages[n] \in Passage  BY <2>2, <3>1
    <3>3. Records(src)[n] = [id |-> src.passages[n].id, license |-> src.license,
                             credited |-> src.credited, text |-> src.passages[n].text]
      BY <3>1 DEF Records
    <3>4. Records(src)[n] \in CorpusPassage
      BY <2>1, <3>2, <3>3 DEF CorpusPassage, KnowledgeSource, Passage
    <3> QED  BY <3>1, <3>4 DEF Credited
  <2> HIDE DEF I
  <2>5. /\ Cardinality(I) \in Nat
        /\ \A n \in 1..Cardinality(I) : Nth(I, n) \in I
    BY <2>3, NthFacts
  <2>6. Picked(Records(src), I) \in Seq(Credited)
    BY <2>4, <2>5 DEF Picked
  <2> QED  BY <2>6 DEF Admitted, I, src
<1>3. [i \in DOMAIN sources |-> Admitted(sources[i])] \in Seq(Seq(Credited))
  <2>1. Len(sources) \in Nat /\ DOMAIN sources = 1..Len(sources)  BY <1>1
  <2> QED  BY <1>2, <2>1
<1> QED  BY <1>3, FlattenType DEF Ingested

\* The record found for an id has it, and is the only one if ids are unique.
LEMMA RecordOfFacts ==
    ASSUME NEW recs \in Seq(Credited), NEW i \in DOMAIN recs
    PROVE  /\ RecordOf(recs, recs[i].id) \in Credited
           /\ (\A j, k \in DOMAIN recs : recs[j].id = recs[k].id => j = k)
                  => RecordOf(recs, recs[i].id) = recs[i]
<1> DEFINE S == {j \in DOMAIN recs : recs[j].id = recs[i].id}
<1>1. S \subseteq Nat /\ S # {}  OBVIOUS
<1>2. Min(S) \in S  BY <1>1, MinIsLeast
<1>3. RecordOf(recs, recs[i].id) = recs[Min(S)] /\ Min(S) \in DOMAIN recs
      /\ recs[Min(S)].id = recs[i].id
  BY <1>2 DEF RecordOf
<1> QED  BY <1>3

BestOf(recs, q, found) ==
    /\ \A n \in DOMAIN found : Score[found[n].text][q] > 0
    /\ \A i \in DOMAIN recs :
          \/ Relevance(recs, q, i) = 0
          \/ \E n \in DOMAIN found : found[n] = recs[i]
          \/ /\ Len(found) = K
             /\ \A n \in DOMAIN found : Score[found[n].text][q] >= Relevance(recs, q, i)

\* What search returns.
LEMMA SearchFacts ==
    ASSUME NEW recs \in Seq(Credited), NEW q \in Queries
    PROVE  /\ Search(recs, q) \in Seq(Credited)
           /\ (\A j, k \in DOMAIN recs : recs[j].id = recs[k].id => j = k)
                  => BestOf(recs, q, Search(recs, q))
<1> DEFINE r == Ranked(recs, q)
           s == Search(recs, q)
           Unique == \A j, k \in DOMAIN recs : recs[j].id = recs[k].id => j = k
<1>1. PICK M \in 0..K :
          /\ r \in [1..M -> Found(recs, q)]
          /\ \A i \in Found(recs, q) :
                \/ \E n \in 1..M : r[n] = i
                \/ M = K /\ \A n \in 1..M : Relevance(recs, q, r[n]) >= Relevance(recs, q, i)
  BY RankedFacts
<1>2. M \in Nat  BY RetrievalAssumption
<1>3. s = [n \in 1..M |-> RecordOf(recs, recs[r[n]].id)]  BY <1>1 DEF Search
<1>4. \A n \in 1..M : r[n] \in DOMAIN recs /\ r[n] \in Found(recs, q)  BY <1>1 DEF Found
<1> HIDE DEF r, s
<1>5. \A n \in 1..M : s[n] \in Credited  BY <1>3, <1>4, RecordOfFacts
<1>6. s \in Seq(Credited) /\ DOMAIN s = 1..M /\ Len(s) = M  BY <1>2, <1>3, <1>5
<1>7. ASSUME Unique  PROVE BestOf(recs, q, s)
  <2>1. \A n \in 1..M : s[n] = recs[r[n]]  BY <1>3, <1>4, <1>7, RecordOfFacts
  <2>2. \A n \in 1..M : Score[s[n].text][q] = Relevance(recs, q, r[n])
    BY <2>1 DEF Relevance
  <2>3. \A n \in 1..M : Score[s[n].text][q] > 0  BY <1>4, <2>2 DEF Found
  <2>4. ASSUME NEW i \in DOMAIN recs, Relevance(recs, q, i) # 0
        PROVE  \/ \E n \in 1..M : s[n] = recs[i]
               \/ M = K /\ \A n \in 1..M : Score[s[n].text][q] >= Relevance(recs, q, i)
    <3>1. i \in Found(recs, q)  BY <2>4, RelevanceType DEF Found
    <3>2. CASE \E n \in 1..M : r[n] = i  BY <2>1, <3>2
    <3>3. CASE M = K /\ \A n \in 1..M : Relevance(recs, q, r[n]) >= Relevance(recs, q, i)
      BY <2>2, <3>3
    <3> QED  BY <1>1, <3>1, <3>2, <3>3
  <2> QED  BY <1>6, <2>3, <2>4 DEF BestOf
<1> QED  BY <1>6, <1>7 DEF s

-----------------------------------------------------------------------------
(* A request: the invariant, and one lemma per action.                     *)

\* What screening asks about a passage.
Question(p) == [op |-> "leak", spec |-> specified, sources |-> CodeIn[p.text]]

LeakAnswered ==
    pc = "answered" /\ task.op = "leak" => answer \in {"is_solution", "not_solution"}

RetrievalTypeInv ==
    /\ stage \in {"none", "next", "asked", "context"}
    /\ corpus \in Seq(Credited) /\ query \in Queries /\ specified \in BOOLEAN
    /\ hits \in Seq(Credited) /\ knowledge \in Seq(Credited)
    /\ seen \in 0..Len(hits) /\ kept \subseteq 1..seen /\ interrupted \subseteq 1..seen

\* What has been found out about the hits judged so far.
MayBeUsed(i) ==
    /\ hits[i].text \notin Disclosing
    /\ specified /\ SolvesIn(hits[i]) => i \in interrupted \/ GarblesIn(hits[i])
Leaky(i) == hits[i].text \in Disclosing \/ SolvesIn(hits[i])

ScreeningInv ==
    /\ stage = "none" => seen = 0 /\ kept = {}
    /\ stage = "asked" => seen < Len(hits) /\ task = Question(hits[seen + 1])
    /\ \A i \in kept : MayBeUsed(i)
    /\ NoNan => \A i \in 1..seen : i \in kept \/ Leaky(i)
    /\ stage = "context" => seen = Len(hits) /\ knowledge = Picked(hits, kept)

RetrievalInv ==
    GradingInv /\ LeakAnswered /\ RetrievalTypeInv /\ HitsAreTheBest /\ ScreeningInv

LEMMA StepAnswersLeaks ==
    ASSUME GradingInv, LeakAnswered, Step  PROVE LeakAnswered'
<1>1. CASE Unspecified  BY <1>1 DEF Unspecified, Reply, LeakAnswered
<1>2. CASE NothingToGrade  BY <1>2 DEF NothingToGrade, Reply, LeakAnswered
<1>3. CASE Spawn  BY <1>3 DEF Spawn, LeakAnswered
<1>4. CASE RunBody
  <2>1. Source \in Program  BY <1>4, SourceFacts DEF RunBody, Running
  <2>2. Source.body \in {"ends", "raises", "quits"}  BY <1>4, <2>1 DEF RunBody, Program
  <2>3. pc' # "answered"  BY <1>4, <2>2 DEF RunBody
  <2> QED  BY <2>3 DEF LeakAnswered
<1>5. CASE RunCheck
  <2>1. pc' # "answered"  BY <1>5 DEF RunCheck
  <2> QED  BY <2>1 DEF LeakAnswered
<1>6. CASE PrintVerdict  BY <1>6 DEF PrintVerdict, LeakAnswered
<1>7. CASE Exit  BY <1>7 DEF Exit, LeakAnswered
<1>8. CASE Interrupt  BY <1>8 DEF Interrupt, LeakAnswered
<1>9. CASE Conclude  BY <1>9 DEF Conclude, Reply, LeakAnswered
<1> QED  BY <1>1, <1>2, <1>3, <1>4, <1>5, <1>6, <1>7, <1>8, <1>9 DEF Step

\* The grading's variables aside, nothing changes.
LEMMA RequestRests ==
    ASSUME RetrievalInv, UNCHANGED retrieval, stage = "asked" => UNCHANGED task
    PROVE  RetrievalTypeInv' /\ HitsAreTheBest' /\ ScreeningInv'
<1>1. UNCHANGED <<stage, corpus, query, specified, hits, seen, kept, interrupted, knowledge>>
  BY DEF retrieval, request, screening
<1>2. RetrievalTypeInv'  BY <1>1 DEF RetrievalInv, RetrievalTypeInv
<1>3. HitsAreTheBest'
  BY <1>1 DEF RetrievalInv, HitsAreTheBest, UniqueIds, Relevance
<1>4. ScreeningInv'
  BY <1>1 DEF RetrievalInv, ScreeningInv, MayBeUsed, Leaky, Question
<1> QED  BY <1>2, <1>3, <1>4

LEMMA RetrieveKeeps ==
    ASSUME RetrievalInv, NEW sources \in SourceLists, NEW q \in Queries, NEW spec \in BOOLEAN,
           Retrieve(sources, q, spec)
    PROVE  RetrievalInv'
<1>1. /\ corpus' = Ingested(sources) /\ query' = q /\ specified' = spec
      /\ hits' = Search(corpus', q) /\ stage' = "next" /\ served' = served + 1
      /\ UNCHANGED <<seen, kept, interrupted, knowledge, pc, task, at, child, answer, cut>>
      /\ stage = "none"
  BY DEF Retrieve, screening
<1>2. GradingInv'
  <2>1. served' \in Nat  BY <1>1 DEF RetrievalInv, GradingInv, TypeInv
  <2> QED  BY <1>1, <2>1, RestKeeps DEF RetrievalInv
<1>3. LeakAnswered'  BY <1>1 DEF RetrievalInv, LeakAnswered
<1>4. corpus' \in Seq(Credited)  BY <1>1, IngestedType
<1>5. /\ hits' \in Seq(Credited)
      /\ (\A j, k \in DOMAIN corpus' : corpus'[j].id = corpus'[k].id => j = k)
             => BestOf(corpus', q, hits')
  BY <1>1, <1>4, SearchFacts
<1>6. RetrievalTypeInv'
  <2>1. Len(hits') \in Nat /\ 0 \in 0..Len(hits')  BY <1>5
  <2>2. seen = 0  BY <1>1 DEF RetrievalInv, ScreeningInv
  <2> QED  BY <1>1, <1>4, <1>5, <2>1, <2>2 DEF RetrievalInv, RetrievalTypeInv
<1>7. HitsAreTheBest'  BY <1>1, <1>5 DEF HitsAreTheBest, UniqueIds, BestOf
<1>8. ScreeningInv'
  <2>1. seen = 0 /\ kept = {}  BY <1>1 DEF RetrievalInv, ScreeningInv
  <2> QED  BY <1>1, <2>1 DEF ScreeningInv
<1> QED  BY <1>2, <1>3, <1>6, <1>7, <1>8 DEF RetrievalInv

LEMMA ScreenKeeps ==
    ASSUME RetrievalInv, Screen  PROVE RetrievalInv'
<1>1. /\ stage = "next" /\ seen < Len(hits) /\ stage' = "asked"
      /\ Begin(Question(hits[seen + 1])) /\ served' = served
      /\ UNCHANGED <<corpus, query, specified, hits, seen, kept, interrupted, knowledge>>
  BY DEF Screen, Question, request, screening
<1>2. hits[seen + 1] \in Credited /\ specified \in BOOLEAN
  BY <1>1 DEF RetrievalInv, RetrievalTypeInv
<1>3. hits[seen + 1].text \in Texts  BY <1>2 DEF Credited, CorpusPassage
<1>4. Question(hits[seen + 1]) \in Tasks  BY <1>2, <1>3, RetrievalAssumption DEF Question
<1>5. GradingInv'
  <2>1. served' \in Nat  BY <1>1 DEF RetrievalInv, GradingInv, TypeInv
  <2> QED  BY <1>1, <1>4, <2>1, BeginKeeps DEF RetrievalInv
<1>6. pc' = "next" /\ task' = Question(hits[seen + 1])  BY <1>1 DEF Begin
<1>7. LeakAnswered'  BY <1>6 DEF LeakAnswered
<1>8. RetrievalTypeInv'  BY <1>1 DEF RetrievalInv, RetrievalTypeInv
<1>9. HitsAreTheBest'
  BY <1>1 DEF RetrievalInv, HitsAreTheBest, UniqueIds, Relevance
<1>10. ScreeningInv'
  BY <1>1, <1>6 DEF RetrievalInv, ScreeningInv, MayBeUsed, Leaky, Question
<1> QED  BY <1>5, <1>7, <1>8, <1>9, <1>10 DEF RetrievalInv

LEMMA JudgeKeeps ==
    ASSUME RetrievalInv, Judge  PROVE RetrievalInv'
<1> DEFINE p == hits[seen + 1]
           n == seen + 1
<1>1. /\ stage = "asked" /\ pc = "answered" /\ seen' = n /\ stage' = "next"
      /\ kept' = IF Leaks(answer, p) THEN kept ELSE kept \cup {n}
      /\ interrupted' = IF cut = {} THEN interrupted ELSE interrupted \cup {n}
      /\ UNCHANGED <<corpus, query, specified, hits, knowledge>>
      /\ UNCHANGED <<pc, task, at, child, answer, cut, served>>
  BY DEF Judge, request, vars
<1>2. task = Question(p) /\ seen < Len(hits) /\ answer \in {"is_solution", "not_solution"}
  BY <1>1 DEF RetrievalInv, ScreeningInv, LeakAnswered, Question
<1>3. GradingInv' /\ LeakAnswered'
  <2>1. served' \in Nat  BY <1>1 DEF RetrievalInv, GradingInv, TypeInv
  <2> QED  BY <1>1, <2>1, RestKeeps DEF RetrievalInv, LeakAnswered
<1>4. RetrievalTypeInv'
  <2>1. /\ seen \in Nat /\ Len(hits) \in Nat /\ n \in 1..Len(hits) /\ n \in 1..n
        /\ 1..seen \subseteq 1..n /\ n \in 0..Len(hits)
    BY <1>2 DEF RetrievalInv, RetrievalTypeInv
  <2>2. kept' \subseteq 1..n /\ interrupted' \subseteq 1..n
    BY <1>1, <2>1 DEF RetrievalInv, RetrievalTypeInv
  <2> QED  BY <1>1, <2>1, <2>2 DEF RetrievalInv, RetrievalTypeInv
<1>5. HitsAreTheBest'
  BY <1>1 DEF RetrievalInv, HitsAreTheBest, UniqueIds, Relevance
<1>6. ASSUME ~Leaks(answer, p)
      PROVE  /\ p.text \notin Disclosing
             /\ specified /\ SolvesIn(p) => n \in interrupted' \/ GarblesIn(p)
  <2>1. answer = "not_solution" /\ p.text \notin Disclosing  BY <1>2, <1>6 DEF Leaks
  <2>2. ASSUME specified, SolvesIn(p)  PROVE n \in interrupted' \/ GarblesIn(p)
    <3>1. PICK i \in DOMAIN CodeIn[p.text] : Solves(CodeIn[p.text][i])
      BY <2>2 DEF SolvesIn
    <3>2. task.spec /\ task.sources = CodeIn[p.text]  BY <1>2, <2>2 DEF Question
    <3>3. i \in cut \/ Garbles(CodeIn[p.text][i])
      BY <2>1, <3>1, <3>2 DEF RetrievalInv, GradingInv, Conclusions, MissedSolutionsWereCut
    <3> QED  BY <1>1, <3>3 DEF GarblesIn
  <2> QED  BY <2>1, <2>2
<1>7. ASSUME Leaks(answer, p), NoNan  PROVE Leaky(n)
  <2>1. CASE answer = "is_solution"
    <3>1. \E i \in DOMAIN task.sources : Solves(task.sources[i])
      BY <1>7, <2>1 DEF RetrievalInv, GradingInv, Conclusions, GoalMetIsEarned
    <3> QED  BY <1>2, <3>1 DEF Leaky, SolvesIn, Question
  <2> QED  BY <1>7, <2>1 DEF Leaks, Leaky
<1>8. \A i \in kept : MayBeUsed(i)'
  BY <1>1 DEF RetrievalInv, ScreeningInv, MayBeUsed, SolvesIn, GarblesIn
<1>9. NoNan => \A i \in 1..n : i \in kept' \/ Leaky(i)
  <2> SUFFICES ASSUME NoNan, NEW i \in 1..n  PROVE i \in kept' \/ Leaky(i)
    OBVIOUS
  <2>1. i \in 1..seen \/ i = n  BY DEF RetrievalInv, RetrievalTypeInv
  <2>2. \A j \in 1..seen : j \in kept \/ Leaky(j)  BY DEF RetrievalInv, ScreeningInv
  <2>3. kept \subseteq kept' /\ (n \in kept' \/ Leaks(answer, p))  BY <1>1
  <2> QED  BY <1>7, <2>1, <2>2, <2>3
<1>10. ScreeningInv'
  <2>1. \A i \in kept' : MayBeUsed(i)'
    <3> SUFFICES ASSUME NEW i \in kept'  PROVE MayBeUsed(i)'
      OBVIOUS
    <3>1. i \in kept \/ (i = n /\ ~Leaks(answer, p))  BY <1>1
    <3>2. CASE i \in kept  BY <1>8, <3>2
    <3>3. CASE i = n /\ ~Leaks(answer, p)
      BY <1>1, <1>6, <3>3 DEF MayBeUsed, SolvesIn, GarblesIn
    <3> QED  BY <3>1, <3>2, <3>3
  <2>2. \A i : Leaky(i)' = Leaky(i)  BY <1>1 DEF Leaky, SolvesIn
  <2> QED  BY <1>1, <1>9, <2>1, <2>2 DEF ScreeningInv
<1> QED  BY <1>3, <1>4, <1>5, <1>10 DEF RetrievalInv

LEMMA KeptPositions ==
    ASSUME RetrievalInv  PROVE Positions(kept)
<1>1. kept \in SUBSET (1..seen) /\ seen \in Nat  BY DEF RetrievalInv, RetrievalTypeInv
<1>2. IsFiniteSet(1..seen)  BY <1>1, FS_Interval
<1>3. IsFiniteSet(kept)  BY <1>1, <1>2, FS_Subset
<1>4. kept \subseteq Nat  BY <1>1
<1> QED  BY <1>3, <1>4 DEF Positions

LEMMA AssembleKeeps ==
    ASSUME RetrievalInv, Assemble  PROVE RetrievalInv'
<1>1. /\ stage = "next" /\ seen = Len(hits) /\ stage' = "context"
      /\ knowledge' = Picked(hits, kept)
      /\ UNCHANGED <<corpus, query, specified, hits, seen, kept, interrupted>>
      /\ UNCHANGED <<pc, task, at, child, answer, cut, served>>
  BY DEF Assemble, request, screening, vars
<1>2. GradingInv' /\ LeakAnswered'
  <2>1. served' \in Nat  BY <1>1 DEF RetrievalInv, GradingInv, TypeInv
  <2> QED  BY <1>1, <2>1, RestKeeps DEF RetrievalInv, LeakAnswered
<1>3. knowledge' \in Seq(Credited)
  <2>1. /\ Cardinality(kept) \in Nat
        /\ \A n \in 1..Cardinality(kept) : Nth(kept, n) \in kept
    BY KeptPositions, NthFacts
  <2>2. \A i \in kept : hits[i] \in Credited  BY DEF RetrievalInv, RetrievalTypeInv
  <2> QED  BY <1>1, <2>1, <2>2 DEF Picked
<1>4. RetrievalTypeInv'  BY <1>1, <1>3 DEF RetrievalInv, RetrievalTypeInv
<1>5. HitsAreTheBest'
  BY <1>1 DEF RetrievalInv, HitsAreTheBest, UniqueIds, Relevance
<1>6. ScreeningInv'
  BY <1>1 DEF RetrievalInv, ScreeningInv, MayBeUsed, Leaky, SolvesIn, GarblesIn
<1> QED  BY <1>2, <1>4, <1>5, <1>6 DEF RetrievalInv

-----------------------------------------------------------------------------
(* The theorems on requests.                                               *)

LEMMA RetrievalInvariance == RetrievalSpec => []RetrievalInv
<1>1. RetrievalInit => RetrievalInv
  <2> SUFFICES ASSUME RetrievalInit  PROVE RetrievalInv
    OBVIOUS
  <2>1. GradingInv /\ LeakAnswered
    BY InitialGrading DEF RetrievalInit, Init, LeakAnswered
  <2>2. RetrievalTypeInv  BY DEF RetrievalInit, RetrievalTypeInv
  <2>3. HitsAreTheBest /\ ScreeningInv
    BY DEF RetrievalInit, HitsAreTheBest, UniqueIds, ScreeningInv
  <2> QED  BY <2>1, <2>2, <2>3 DEF RetrievalInv
<1>2. RetrievalInv /\ [RetrievalNext]_allVars => RetrievalInv'
  <2> SUFFICES ASSUME RetrievalInv, [RetrievalNext]_allVars  PROVE RetrievalInv'
    OBVIOUS
  <2>1. ASSUME NEW sources \in SourceLists, NEW q \in Queries, NEW spec \in BOOLEAN,
               Retrieve(sources, q, spec)
        PROVE  RetrievalInv'
    BY <2>1, RetrieveKeeps
  <2>2. ASSUME stage = "none", NEW t \in Tasks, Ask(t), UNCHANGED retrieval
        PROVE  RetrievalInv'
    <3>1. GradingInv'  BY <2>2, AskKeeps DEF RetrievalInv
    <3>2. LeakAnswered'  BY <2>2 DEF Ask, Begin, LeakAnswered
    <3> QED  BY <2>2, <3>1, <3>2, RequestRests DEF RetrievalInv
  <2>3. CASE Graded
    <3>1. GradingInv' /\ LeakAnswered'
      BY <2>3, StepKeeps, StepAnswersLeaks DEF Graded, RetrievalInv
    <3>2. UNCHANGED task
      BY <2>3 DEF Graded, Step, Unspecified, NothingToGrade, Spawn, RunBody, RunCheck,
                  PrintVerdict, Exit, Interrupt, Conclude
    <3> QED  BY <2>3, <3>1, <3>2, RequestRests DEF Graded, RetrievalInv
  <2>4. CASE Screening
    BY <2>4, ScreenKeeps, JudgeKeeps, AssembleKeeps DEF Screening
  <2>5. CASE UNCHANGED allVars
    <3>1. /\ UNCHANGED retrieval
          /\ UNCHANGED <<pc, task, at, child, answer, cut, served>>
      BY <2>5 DEF allVars, vars
    <3>2. GradingInv' /\ LeakAnswered'
      BY <3>1, RestKeeps DEF RetrievalInv, GradingInv, TypeInv, LeakAnswered
    <3> QED  BY <3>1, <3>2, RequestRests DEF RetrievalInv
  <2> QED  BY <2>1, <2>2, <2>3, <2>4, <2>5 DEF RetrievalNext
<1> QED  BY <1>1, <1>2, PTL DEF RetrievalSpec

\* The request, its corpus and its hits stay well-typed; whatever is in them is credited
\* and licensed (knowledge/ingest.py, schema.py).
THEOREM RequestTypes == RetrievalSpec => [](TypeInv /\ RetrievalTypeInv)
<1>1. RetrievalInv => TypeInv /\ RetrievalTypeInv  BY DEF RetrievalInv, GradingInv
<1> QED  BY <1>1, RetrievalInvariance, PTL

\* Search returns the K best passages (knowledge/index.py, BM25Index.search).
THEOREM SearchIsRight == RetrievalSpec => []HitsAreTheBest
<1>1. RetrievalInv => HitsAreTheBest  BY DEF RetrievalInv
<1> QED  BY <1>1, RetrievalInvariance, PTL

\* What screening lets into the prompt is fit for it, and what it withholds leaks, as
\* long as no function answers "not a number" (governance.screen_passages).
THEOREM ScreeningIsRight ==
    ASSUME NoNan  PROVE RetrievalSpec => []ContextIsFit
<1>1. ASSUME RetrievalInv  PROVE ContextIsFit
  <2> SUFFICES ASSUME stage = "context"
               PROVE  /\ \A n \in DOMAIN knowledge :
                            /\ LET p == knowledge[n] IN
                               p.license.family \in Allowed /\ ~p.license.excluded /\ p.credited
                               /\ p.text \notin Disclosing
                            /\ \E i \in kept :
                                  /\ hits[i] = knowledge[n]
                                  /\ specified /\ SolvesIn(hits[i])
                                         => i \in interrupted \/ GarblesIn(hits[i])
                      /\ \A i \in DOMAIN hits :
                            \/ \E n \in DOMAIN knowledge : knowledge[n] = hits[i]
                            \/ hits[i].text \in Disclosing \/ SolvesIn(hits[i])
    BY DEF ContextIsFit
  <2>1. /\ seen = Len(hits) /\ knowledge = Picked(hits, kept)
        /\ \A i \in kept : MayBeUsed(i)
        /\ \A i \in 1..seen : i \in kept \/ Leaky(i)
    BY <1>1 DEF RetrievalInv, ScreeningInv
  <2>2. /\ Cardinality(kept) \in Nat
        /\ \A n \in 1..Cardinality(kept) : Nth(kept, n) \in kept
        /\ \A i \in kept : /\ Cardinality({j \in kept : j <= i}) \in 1..Cardinality(kept)
                           /\ Nth(kept, Cardinality({j \in kept : j <= i})) = i
    BY <1>1, KeptPositions, NthFacts
  <2>3. /\ DOMAIN knowledge = 1..Cardinality(kept)
        /\ \A n \in 1..Cardinality(kept) : knowledge[n] = hits[Nth(kept, n)]
    BY <2>1 DEF Picked
  <2>4. ASSUME NEW n \in DOMAIN knowledge
        PROVE  /\ knowledge[n].license.family \in Allowed /\ ~knowledge[n].license.excluded
               /\ knowledge[n].credited /\ knowledge[n].text \notin Disclosing
               /\ \E i \in kept :
                     /\ hits[i] = knowledge[n]
                     /\ specified /\ SolvesIn(hits[i])
                            => i \in interrupted \/ GarblesIn(hits[i])
    <3>1. PICK i \in kept : hits[i] = knowledge[n]  BY <2>2, <2>3
    <3>2. hits[i] \in Credited  BY <1>1 DEF RetrievalInv, RetrievalTypeInv
    <3> QED  BY <2>1, <3>1, <3>2 DEF MayBeUsed, Credited, Complete, LicenseAllowed
  <2>5. ASSUME NEW i \in DOMAIN hits
        PROVE  \/ \E n \in DOMAIN knowledge : knowledge[n] = hits[i]
               \/ hits[i].text \in Disclosing \/ SolvesIn(hits[i])
    <3>1. i \in 1..seen  BY <1>1, <2>1 DEF RetrievalInv, RetrievalTypeInv
    <3>2. i \in kept \/ Leaky(i)  BY <2>1, <3>1
    <3>3. CASE i \in kept  BY <2>2, <2>3, <3>3
    <3> QED  BY <3>2, <3>3 DEF Leaky
  <2> QED  BY <2>4, <2>5
<1> QED  BY <1>1, RetrievalInvariance, PTL
=============================================================================
