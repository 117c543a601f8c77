--------------------------- MODULE MCTutorSession ---------------------------
(***************************************************************************)
(* An instance of TutorSession: what clients and the planner may ask, turn *)
(* after turn, whatever goals the turns find, and what learners write: a   *)
(* goal, a request to be harsh that one release knows and the other does   *)
(* not, a distress signal, and a word the knobs know.                      *)
(***************************************************************************)
EXTENDS MCTutorTurn, TutorSession

CONSTANTS steady, harsh, crisis, direct

Stand == {"none", "honored", "declined"}

MemoryRequests ==
    {[Plain(s) EXCEPT !.ex = x, !.solved = v, !.repeated = r] :
        s \in {"peer", "oracle"}, x \in MCExercises, v \in BOOLEAN, r \in BOOLEAN}
    \cup {[Plain(s) EXCEPT !.distress = b, !.overlay = TRUE, !.goals = g] :
            s \in Stances, b \in BOOLEAN, g \in Stand}
    \cup {[Plain("peer") EXCEPT !.reflect = TRUE, !.goals = g] : g \in Stand}
MemoryReads == {[affect |-> "curious", move |-> m] : m \in {"co_reason", "reflect"}}
MemoryDrafts == {[PlainDraft EXCEPT !.mid = m] : m \in {None, dropMissing}}
MemoryEvals == {[revise |-> FALSE, conf |-> 90]}

MCWords == {steady, harsh, crisis, direct}
MCDetectors == {{}, {harsh}}
MCVocabulary == [k \in {"tone", "language"} |-> {direct}]
MCOverlays == {[tone |-> t, language |-> l] : t \in {None, direct, harsh}, l \in {None, direct}}
=============================================================================
