------------------------------ MODULE Grading ------------------------------
(***************************************************************************)
(* Grading a program in the sandbox, and what its three callers make of    *)
(* the verdict: packs/datascience/grader.py (grade) runs _harness.py in a  *)
(* child process of core/runner, which may be killed by a resource limit   *)
(* or by the wall-clock timeout at any point.  The child's standard output *)
(* is a pipe, so what it prints arrives when it exits, if it does.         *)
(*                                                                         *)
(* A program is abstracted to what happens when its body runs and to the   *)
(* readings each check of the exercise's spec takes from it.  A program    *)
(* never prints a verdict line of its own.                                 *)
(***************************************************************************)
EXTENDS Naturals, Sequences

CONSTANTS
    Checks,      \* the spec's checks: "contract" calls the program's function,
                 \* "value" compares what the body left behind
    Tasks,       \* what the callers ask
    MaxTasks     \* bound on the number of tasks

\* One comparison of a check: within bounds or not, not a number, an exception;
\* and, when a contract calls the program: it ends the process, never returns, or
\* returns a value within bounds after printing without a newline.
Compared == {"good", "bad", "nan", "raises"}
Reading == Compared \cup {"quits", "hangs", "spills"}

\* lingers: a thread of the program keeps the process alive after the verdict.
Program ==
    {p \in [body: {"ends", "raises", "quits", "hangs"}, lingers: BOOLEAN,
            readings: [DOMAIN Checks -> Seq(Reading)]] :
        \A c \in DOMAIN Checks : Checks[c] = "value" => p.readings[c] \in Seq(Compared)}

\* run and verify are about one program, a draft may hold several snippets.
\* spec: whether the exercise has a spec file.
Task == [op: {"run", "verify", "leak"}, spec: BOOLEAN, sources: Seq(Program)]

ASSUME GradingAssumption ==
    /\ Checks \in Seq({"value", "contract"})
    /\ \A t \in Tasks : t \in Task /\ (t.op = "run" => t.sources # <<>>)
    /\ MaxTasks \in Nat

VARIABLES
    pc,        \* where the task is
    task,      \* the task being served
    at,        \* the source being graded
    child,     \* the harness's variables and the real standard output
    answer,    \* what the caller got
    cut,       \* history: sources whose child was killed or timed out
    served     \* history: number of tasks begun

vars == <<pc, task, at, child, answer, cut, served>>

Answers == {"none", "exception",
            "goal_met", "goal_not_met", "not_ok",
            "does_not_run", "would_solve_current_exercise", "verified",
            "is_solution", "not_solution"}

\* line: the real standard output ends in an unterminated line.
Fresh == [checked |-> 0, error |-> FALSE, goal |-> TRUE, line |-> FALSE, printed |-> "nothing"]

Idle == [op |-> "leak", spec |-> TRUE, sources |-> <<>>]

Init ==
    /\ pc = "idle" /\ task = Idle /\ at = 1
    /\ child = Fresh /\ answer = "none" /\ cut = {} /\ served = 0

Source == task.sources[at]

Begin(t) ==
    /\ pc \in {"idle", "answered"}
    /\ pc' = "next" /\ task' = t /\ at' = 1
    /\ child' = Fresh /\ answer' = "none" /\ cut' = {}

Ask(t) == served < MaxTasks /\ Begin(t) /\ served' = served + 1

Reply(a) == pc' = "answered" /\ answer' = a

-----------------------------------------------------------------------------
(* The callers, before and between gradings.                               *)

\* load_spec raises when there is no spec; leak_evidence asks has_spec first.
Unspecified ==
    /\ pc = "next" /\ ~task.spec /\ task.op # "leak" /\ task.sources # <<>>
    /\ Reply("exception")
    /\ UNCHANGED <<task, at, child, cut, served>>

\* verify_worked_example of an empty source; leak_evidence without candidates.
NothingToGrade ==
    /\ pc = "next"
    /\ task.sources = <<>> \/ (task.op = "leak" /\ ~task.spec)
    /\ Reply(IF task.op = "leak" THEN "not_solution" ELSE "does_not_run")
    /\ UNCHANGED <<task, at, child, cut, served>>

Spawn ==
    /\ pc = "next" /\ task.spec /\ task.sources # <<>>
    /\ pc' = "body" /\ child' = Fresh
    /\ UNCHANGED <<task, at, answer, cut, served>>

-----------------------------------------------------------------------------
(* The child process: the harness.                                         *)

\* An exception is the verdict; SystemExit is not an Exception and ends the child.
RunBody ==
    /\ pc = "body" /\ Source.body # "hangs"
    /\ pc' = CASE Source.body = "ends" -> "check"
               [] Source.body = "raises" -> "print"
               [] Source.body = "quits" -> "exited"
    /\ child' = IF Source.body = "raises" THEN [child EXCEPT !.error = TRUE, !.goal = FALSE]
                                          ELSE child
    /\ UNCHANGED <<task, at, answer, cut, served>>

\* function_contract calls the program case by case and leaves its loop at the
\* first value out of bounds; a comparison with "not a number" is not "out".
Breaks == {"bad", "raises", "quits", "hangs"}
BrokenBy(r) ==
    {r[i] : i \in {i \in DOMAIN r : r[i] \in Breaks /\ \A j \in 1..(i - 1) : r[j] \notin Breaks}}
Spills(r) ==
    \E i \in DOMAIN r : r[i] = "spills" /\ \A j \in 1..(i - 1) : r[j] \notin Breaks

\* Whether a check that came to an end passed.
Passes(kind, r) ==
    \A i \in DOMAIN r : IF kind = "contract" THEN r[i] \notin Breaks ELSE r[i] = "good"

BadGoalAfter(goal, passed) == passed   \* the last check decides

\* goal = goal and bool(ok)
GoalAfter(goal, passed) == goal /\ passed

RunCheck ==
    /\ pc = "check" /\ child.checked < Len(Checks)
    /\ LET c == child.checked + 1
           kind == Checks[c]
           r == Source.readings[c]
       IN /\ "hangs" \notin BrokenBy(r)
          /\ pc' = IF "quits" \in BrokenBy(r) THEN "exited" ELSE pc
          /\ child' = [child EXCEPT !.checked = c, !.goal = GoalAfter(@, Passes(kind, r)),
                                    !.line = @ \/ (kind = "contract" /\ Spills(r))]
    /\ UNCHANGED <<task, at, answer, cut, served>>

\* The verdict goes at the end of whatever line the program left open.
PrintVerdict ==
    /\ pc = "print" \/ (pc = "check" /\ child.checked = Len(Checks))
    /\ child' = [child EXCEPT !.printed = IF child.line THEN "garbled" ELSE "verdict"]
    /\ pc' = "exiting"
    /\ UNCHANGED <<task, at, answer, cut, served>>

Exit ==
    /\ pc = "exiting" /\ ~Source.lingers
    /\ pc' = "exited"
    /\ UNCHANGED <<task, at, child, answer, cut, served>>

Running == {"body", "check", "print", "exiting"}

BadInterrupt ==   \* no wall clock once the verdict is printed
    /\ pc \in Running \ {"exiting"}
    /\ pc' = "exited" /\ child' = [child EXCEPT !.printed = "nothing"]
    /\ cut' = cut \cup {at}
    /\ UNCHANGED <<task, at, answer, served>>

\* A resource limit or the wall clock ends the child: its buffered output is lost.
Interrupt ==
    /\ pc \in Running
    /\ pc' = "exited" /\ child' = [child EXCEPT !.printed = "nothing"]
    /\ cut' = cut \cup {at}
    /\ UNCHANGED <<task, at, answer, served>>

-----------------------------------------------------------------------------
(* The parent: _parse_grade, and what each caller makes of it.             *)

\* Only a line that starts with the prefix is a verdict; the exit code and the
\* timeout flag are not looked at.
HasVerdict == child.printed = "verdict"
Ok == HasVerdict /\ ~child.error
GoalMet == HasVerdict /\ child.goal

BadVerification == IF Ok THEN "verified" ELSE "does_not_run"

\* verify_worked_example
Verification ==
    CASE ~Ok -> "does_not_run"
      [] Ok /\ GoalMet -> "would_solve_current_exercise"
      [] OTHER -> "verified"

BadBreak == Ok /\ ~GoalMet /\ at < Len(task.sources)   \* ends at a snippet that fails

\* leak_evidence breaks off at the first snippet that meets the goal.
MoreToGrade == ~GoalMet /\ at < Len(task.sources)

Conclude ==
    /\ pc = "exited"
    /\ \/ /\ task.op = "run"
          /\ Reply(CASE ~Ok -> "not_ok" [] Ok /\ GoalMet -> "goal_met" [] OTHER -> "goal_not_met")
          /\ UNCHANGED at
       \/ /\ task.op = "verify"
          /\ Reply(Verification)
          /\ UNCHANGED at
       \/ /\ task.op = "leak" /\ ~MoreToGrade
          /\ Reply(IF GoalMet THEN "is_solution" ELSE "not_solution")
          /\ UNCHANGED at
       \/ /\ task.op = "leak" /\ MoreToGrade
          /\ pc' = "next" /\ at' = at + 1
          /\ UNCHANGED answer
    /\ UNCHANGED <<task, child, cut, served>>

Step ==
    \/ Unspecified \/ NothingToGrade \/ Spawn
    \/ RunBody \/ RunCheck \/ PrintVerdict \/ Exit \/ Interrupt
    \/ Conclude

Next == (\E t \in Tasks : Ask(t)) \/ Step

\* The request's thread runs on, and subprocess.run enforces the wall clock.
Spec == Init /\ [][Next]_vars /\ WF_vars(Step)

-----------------------------------------------------------------------------
(* Properties.  GRADING_SPEC.md: a contract passes when the program is     *)
(* within tolerance "for every case", a run meets the goal when all checks *)
(* pass "and a clean execution".                                           *)

Solves(p) ==
    /\ p.body = "ends"
    /\ \A c \in DOMAIN Checks : \A i \in DOMAIN p.readings[c] :
          p.readings[c][i] \in {"good", "spills"}

\* Type invariant.
TypeInv ==
    /\ pc \in Running \cup {"idle", "next", "exited", "answered"}
    /\ task \in Tasks \cup {Idle}
    /\ at \in Nat
    /\ pc \in Running \cup {"exited"} => at \in DOMAIN task.sources
    /\ child \in [checked: 0..Len(Checks), error: BOOLEAN, goal: BOOLEAN, line: BOOLEAN,
                  printed: {"nothing", "garbled", "verdict"}]
    /\ answer \in Answers
    /\ cut \subseteq Nat /\ served \in Nat

\* A run reported as meeting the goal did, whatever was killed on the way; and a
\* draft reported as holding a solution holds one.
GoalMetIsEarned ==
    /\ answer = "goal_met" => Solves(task.sources[1])
    /\ answer = "is_solution" => \E i \in DOMAIN task.sources : Solves(task.sources[i])

\* A worked example that may be shown ran to its end and is not a solution, even
\* if its grading was interrupted or its output garbled: the failure is closed.
VerifiedIsSafe ==
    answer = "verified" => task.sources[1].body = "ends" /\ ~Solves(task.sources[1])

\* The program prints on the line the verdict should start.
Garbles(p) == \E c \in DOMAIN Checks : Checks[c] = "contract" /\ Spills(p.readings[c])

\* The leak oracle fails open: a solution it misses was interrupted, or printed on
\* the verdict's line, and nothing else hides one from it.
MissedSolutionsWereCut ==
    answer = "not_solution" /\ task.spec =>
        \A i \in DOMAIN task.sources : Solves(task.sources[i]) =>
            i \in cut \/ Garbles(task.sources[i])

\* Every task is answered, whatever the programs do: hang, linger or quit.
EveryTaskEnds == pc = "next" ~> pc = "answered"
=============================================================================
