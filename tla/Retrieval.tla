----------------------------- MODULE Retrieval -----------------------------
(***************************************************************************)
(* Reference passages for the tutor's prompt: backend/app/knowledge        *)
(* ingests licensed sources into a corpus and ranks its passages for a     *)
(* query; agent/governance.py (screen_passages) sends each hit through the *)
(* leak oracle before agent/context.py lets it into the prompt.  The       *)
(* oracle grades code in the sandbox, so screening is a loop of gradings,  *)
(* each of which may be interrupted (module Grading).                      *)
(*                                                                         *)
(* BM25's arithmetic is abstracted to a score per text and query.  A       *)
(* license is its family and whether it carries an excluded marker; the    *)
(* fields a complete record needs besides id, license and text are one     *)
(* flag.                                                                   *)
(***************************************************************************)
EXTENDS Grading, Subsequences, SequencesExt

CONSTANTS
    SourceLists,   \* what ingestion may be given
    Queries,       \* the latest student message with the exercise's words
    Texts,         \* what passages say
    Score,         \* text, query -> BM25 score; 0 is no shared term
    CodeIn,        \* text -> the snippets the leak oracle extracts
    Disclosing,    \* texts whose prose discloses the solution
    Families,      \* license families; NoLicense is the empty string
    Allowed,       \* those of LICENSE_WHITELIST
    NoLicense,
    K              \* _RETRIEVAL_K

License == [family: Families, excluded: BOOLEAN]

\* An id of 0 is a missing one.
Passage == [id: Nat, text: Texts]
KnowledgeSource == [license: License, credited: BOOLEAN, passages: Seq(Passage)]
CorpusPassage == [id: Nat, license: License, credited: BOOLEAN, text: Texts]

ASSUME RetrievalAssumption ==
    /\ SourceLists \subseteq Seq(KnowledgeSource)
    /\ Score \in [Texts -> [Queries -> Nat]]
    /\ CodeIn \in [Texts -> Seq(Program)]
    /\ \A t \in Texts, b \in BOOLEAN : [op |-> "leak", spec |-> b, sources |-> CodeIn[t]] \in Tasks
    /\ Disclosing \subseteq Texts
    /\ NoLicense \in Families /\ Allowed \subseteq Families \ {NoLicense}
    /\ K \in Nat

VARIABLES
    stage,         \* of the request: before, while and after its hits are screened
    corpus,        \* the records the index is built over
    query, specified,   \* the request: its query, whether its exercise has a spec
    hits,          \* what search returned
    seen,          \* number of hits judged
    kept,          \* positions of the hits that may be used
    interrupted,   \* history: positions of the hits whose grading was interrupted
    knowledge      \* ctx["knowledge"]

request == <<corpus, query, specified, hits>>
screening == <<seen, kept, interrupted>>
retrieval == <<stage, request, screening, knowledge>>
allVars == <<vars, retrieval>>

-----------------------------------------------------------------------------
(* Ingestion.                                                              *)

BadLicenseAllowed(l) == l.family \in Allowed   \* excluded markers are not looked for

\* license_reason: the markers exclude a license whatever its family.
LicenseAllowed(l) == l.family \in Allowed /\ ~l.excluded

\* validate_record: every required field, and the license once more.
Complete(r) == r.id # 0 /\ r.credited /\ LicenseAllowed(r.license)

Records(src) ==
    [i \in DOMAIN src.passages |->
        [id |-> src.passages[i].id, license |-> src.license, credited |-> src.credited,
         text |-> src.passages[i].text]]

\* A source is refused as a whole, a passage on its own.
Admitted(src) ==
    IF LicenseAllowed(src.license)
    THEN Picked(Records(src), {i \in DOMAIN src.passages : Complete(Records(src)[i])})
    ELSE <<>>

Ingested(sources) == FlattenSeq([i \in DOMAIN sources |-> Admitted(sources[i])])

-----------------------------------------------------------------------------
(* Search.                                                                 *)

Relevance(recs, q, i) == Score[recs[i].text][q]

BadBefore(recs, q, i, j) ==   \* ascending scores
    \/ Relevance(recs, q, i) < Relevance(recs, q, j)
    \/ Relevance(recs, q, i) = Relevance(recs, q, j) /\ i < j

\* Score descending, then id ascending; the sort is stable.
Before(recs, q, i, j) ==
    \/ Relevance(recs, q, i) > Relevance(recs, q, j)
    \/ /\ Relevance(recs, q, i) = Relevance(recs, q, j)
       /\ recs[i].id < recs[j].id \/ (recs[i].id = recs[j].id /\ i < j)

\* BM25Index.search, as positions of the documents.
Ranked(recs, q) ==
    LET found == {i \in DOMAIN recs : Relevance(recs, q, i) > 0}
        place(i) == Cardinality({j \in found : j = i \/ Before(recs, q, j, i)})
    IN [n \in 1..Min({K, Cardinality(found)}) |-> CHOOSE i \in found : place(i) = n]

\* _by_id: on duplicate ids the first record wins.
RecordOf(recs, id) == recs[Min({i \in DOMAIN recs : recs[i].id = id})]

Search(recs, q) == [n \in DOMAIN Ranked(recs, q) |-> RecordOf(recs, recs[Ranked(recs, q)[n]].id)]

-----------------------------------------------------------------------------
(* A request: retrieve, screen hit by hit, assemble the context.           *)

RetrievalInit ==
    /\ Init
    /\ stage = "none" /\ corpus = <<>> /\ query \in Queries /\ specified = TRUE
    /\ hits = <<>> /\ seen = 0 /\ kept = {} /\ interrupted = {} /\ knowledge = <<>>

Retrieve(sources, q, spec) ==
    /\ stage = "none" /\ pc = "idle" /\ served < MaxTasks
    /\ corpus' = Ingested(sources) /\ query' = q /\ specified' = spec
    /\ hits' = Search(corpus', q)
    /\ stage' = "next"
    /\ served' = served + 1
    /\ UNCHANGED <<screening, knowledge, pc, task, at, child, answer, cut>>

\* screen_passages asks the leak profile about the next hit, in the peer stance
\* whatever the tutor's.
Screen ==
    /\ stage = "next" /\ seen < Len(hits)
    /\ Begin([op |-> "leak", spec |-> specified, sources |-> CodeIn[hits[seen + 1].text]])
    /\ stage' = "asked"
    /\ UNCHANGED <<request, screening, knowledge, served>>

\* leak_profile.verify: the sandbox's verdict or the prose.
Leaks(verdict, p) == verdict = "is_solution" \/ p.text \in Disclosing

Judge ==
    /\ stage = "asked" /\ pc = "answered"
    /\ seen' = seen + 1
    /\ kept' = IF Leaks(answer, hits[seen']) THEN kept ELSE kept \cup {seen'}
    /\ interrupted' = IF cut = {} THEN interrupted ELSE interrupted \cup {seen'}
    /\ stage' = "next"
    /\ UNCHANGED <<request, knowledge, vars>>

Assemble ==
    /\ stage = "next" /\ seen = Len(hits)
    /\ knowledge' = Picked(hits, kept)
    /\ stage' = "context"
    /\ UNCHANGED <<request, screening, vars>>

Screening == Screen \/ Judge \/ Assemble

Graded == Step /\ UNCHANGED retrieval

RetrievalNext ==
    \/ \E sources \in SourceLists, q \in Queries, spec \in BOOLEAN : Retrieve(sources, q, spec)
    \/ stage = "none" /\ (\E t \in Tasks : Ask(t)) /\ UNCHANGED retrieval
    \/ Graded
    \/ Screening

\* The request's thread runs on.
RetrievalSpec ==
    RetrievalInit /\ [][RetrievalNext]_allVars /\ WF_allVars(Graded) /\ WF_allVars(Screening)

-----------------------------------------------------------------------------
(* Properties.                                                             *)

SolvesIn(p) == \E i \in DOMAIN CodeIn[p.text] : Solves(CodeIn[p.text][i])
GarblesIn(p) == \E i \in DOMAIN CodeIn[p.text] : Garbles(CodeIn[p.text][i])

\* What enters the prompt: credited passages of whitelisted sources, in the order
\* of the hits, that neither disclose nor hold a solution, unless a grading of the
\* hit was interrupted or its verdict spoilt; and only a passage that leaks was
\* withheld (governance.screen_passages, "no solution-bearing passage").
ContextIsFit ==
    stage = "context" =>
        /\ \A n \in DOMAIN knowledge :
              /\ LET p == knowledge[n] IN
                 p.license.family \in Allowed /\ ~p.license.excluded /\ p.credited
                 /\ p.text \notin Disclosing
              /\ \E i \in kept :
                    /\ hits[i] = knowledge[n]
                    /\ specified /\ SolvesIn(hits[i]) => i \in interrupted \/ GarblesIn(hits[i])
        /\ \A i \in DOMAIN hits :
              \/ \E n \in DOMAIN knowledge : knowledge[n] = hits[i]
              \/ hits[i].text \in Disclosing \/ SolvesIn(hits[i])

\* As long as ids are unique, search returns the K best passages and none that
\* shares no term with the query (corpus_kb.py, "up to k passages ranked by BM25").
UniqueIds == \A i, j \in DOMAIN corpus : corpus[i].id = corpus[j].id => i = j
HitsAreTheBest ==
    UniqueIds =>
        /\ \A n \in DOMAIN hits : Score[hits[n].text][query] > 0
        /\ \A i \in DOMAIN corpus :
              \/ Relevance(corpus, query, i) = 0
              \/ \E n \in DOMAIN hits : hits[n] = corpus[i]
              \/ /\ Len(hits) = K
                 /\ \A n \in DOMAIN hits :
                       Score[hits[n].text][query] >= Relevance(corpus, query, i)

\* Every grading is answered and every screening ends, whatever the code in the
\* passages does: hang, linger or quit.
EveryRequestEnds == EveryTaskEnds /\ (stage = "next" ~> stage = "context")
=============================================================================
