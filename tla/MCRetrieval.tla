---------------------------- MODULE MCRetrieval ----------------------------
(***************************************************************************)
(* An instance of Retrieval over the programs of MCGrading: two sources,   *)
(* licensed and credited in every way, whose passages share or repeat ids, *)
(* tie on a query, and say something harmless, disclose the solution, or   *)
(* carry code that solves, solves and lingers, garbles, quits or hangs.    *)
(***************************************************************************)
EXTENDS Retrieval, MCGrading

MCFamilies == {"CC-BY", "GFDL", ""}
MCTexts == {"plain", "prose", "code", "thread", "spill", "quit", "hang"}
MCQueries == {"mean", "join"}

Solution == Ends(<<"good">>, <<"good", "good">>, FALSE)

MCCodeIn ==
    [t \in MCTexts |->
        CASE t \in {"plain", "prose"} -> <<>>
          [] t = "code" -> <<Stops("raises"), Solution>>
          [] t = "thread" -> <<Ends(<<"good">>, <<"good", "good">>, TRUE)>>
          [] t = "spill" -> <<Ends(<<"good">>, <<"spills", "good">>, FALSE)>>
          [] t = "quit" -> <<Stops("quits"), Solution>>
          [] t = "hang" -> <<Stops("hangs")>>]

MCScore ==
    [t \in MCTexts |->
        [q \in MCQueries |->
            CASE t = "plain" -> 2
              [] t \in {"code", "spill", "hang"} -> IF q = "mean" THEN 2 ELSE 1
              [] OTHER -> IF q = "mean" THEN 0 ELSE 3]]

MCLicenses == [family: MCFamilies, excluded: BOOLEAN]

\* A source every gate lets through, and one that may fail any of them.
MCSourceLists ==
    {<<[license |-> [family |-> "CC-BY", excluded |-> FALSE], credited |-> TRUE,
        passages |-> <<[id |-> 2, text |-> x], [id |-> 3, text |-> "plain"]>>],
       [license |-> l, credited |-> c, passages |-> <<[id |-> n, text |-> y]>>]>> :
        x \in MCTexts, y \in {"plain", "code", "prose", "quit"}, l \in MCLicenses,
        c \in BOOLEAN, n \in 0..2}

\* What the callers ask, and the questions screening asks about the passages.
MCRetrievalTasks ==
    MCTasks \cup {[op |-> "leak", spec |-> b, sources |-> MCCodeIn[t]] :
                    b \in BOOLEAN, t \in MCTexts}
=============================================================================
