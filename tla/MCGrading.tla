----------------------------- MODULE MCGrading -----------------------------
(***************************************************************************)
(* Instances of Grading: a spec with a value check and a function contract *)
(* of two cases, every way either can turn out, and drafts of up to two    *)
(* snippets.                                                               *)
(***************************************************************************)
EXTENDS Grading

MCChecks == <<"value", "contract">>

Ends(value, contract, lingers) ==
    [body |-> "ends", lingers |-> lingers, readings |-> <<value, contract>>]
Stops(how) ==
    [body |-> how, lingers |-> FALSE, readings |-> <<<<"good">>, <<"good", "good">>>>]

Contracts ==
    {<<"good", "good">>, <<"good", "bad">>, <<"raises", "good">>, <<"spills", "good">>,
     <<"bad", "spills">>, <<"good", "quits">>, <<"bad", "hangs">>, <<"good", "hangs">>}

MCPrograms ==
    {Stops(how) : how \in {"raises", "quits", "hangs"}}
    \cup {Ends(<<v>>, <<"good", "good">>, l) : v \in Compared, l \in BOOLEAN}
    \cup {Ends(<<v>>, c, FALSE) : v \in {"good", "bad"}, c \in Contracts}

\* Programs whose function answers "not a number" in some case.
NanPrograms == {Ends(<<"good">>, <<"good", "nan">>, FALSE)}

TasksFor(programs) ==
    {[op |-> o, spec |-> TRUE, sources |-> <<p>>] : o \in {"run", "verify"}, p \in programs}
    \cup {[op |-> "leak", spec |-> TRUE, sources |-> <<p, q>>] :
            p \in programs, q \in programs}
    \cup {[op |-> o, spec |-> b, sources |-> <<>>] : o \in {"verify", "leak"}, b \in BOOLEAN}
    \cup {[op |-> o, spec |-> FALSE, sources |-> <<p>>] :
            o \in {"run", "verify", "leak"}, p \in programs}

MCTasks == TasksFor(MCPrograms)
NanTasks == TasksFor(NanPrograms)
=============================================================================
