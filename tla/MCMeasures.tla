----------------------------- MODULE MCMeasures -----------------------------
(***************************************************************************)
(* An instance of Measures: runs that fail, solve, or report a metric      *)
(* above or below 1.0, a negative one, an infinite one or none; turns that *)
(* help, abstain or hand the solution over, one companion event.           *)
(***************************************************************************)
EXTENDS Measures

Ran(ok, met, metric, error) ==
    [kind |-> "run", ok |-> ok, met |-> met, metric |-> metric, error |-> error]
Turned(planned, move, affect, confidence, solves) ==
    [kind |-> "turn", planned |-> planned, move |-> move, affect |-> affect,
     confidence |-> confidence, solves |-> solves, abstained |-> move = "escalate"]

MCEvents ==
    {Ran(FALSE, FALSE, None, "NameError"),
     Ran(TRUE, FALSE, 7, ""), Ran(TRUE, FALSE, 6, ""), Ran(TRUE, FALSE, -1, ""),
     Ran(TRUE, FALSE, NaN, ""), Ran(TRUE, FALSE, PosInf, ""), Ran(TRUE, FALSE, NegInf, ""),
     Ran(TRUE, TRUE, None, "")}
    \cup {Turned(TRUE, "escalate", "frustration", 1, FALSE),
          Turned(TRUE, "diagnose", "neutral", 4, FALSE),
          Turned(FALSE, "observe", "neutral", 0, TRUE)}
    \cup {[kind |-> "reflect"]}
=============================================================================
