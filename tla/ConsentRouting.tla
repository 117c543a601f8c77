--------------------------- MODULE ConsentRouting ---------------------------
(***************************************************************************)
(* Where a learner's trace goes: backend/app/store/consent.py, called by   *)
(* the routes of main.py and integrations/quad/router.py, over the SQL     *)
(* backend.  Each worker process has its own router (consent cache and     *)
(* ephemeral stores) and serves requests in several threads; the database  *)
(* is shared.  A handler takes one step per access to shared state.        *)
(*                                                                         *)
(* A request's reads and writes of learner state and events all go to the  *)
(* one store store_for returned, so they are modelled by one write.        *)
(***************************************************************************)
EXTENDS Naturals

CONSTANTS
    Pids,          \* participant ids (main.py's uuids, Quad's pseudo_ids)
    Codes,         \* anonymised codes; a pseudo_id is its own code
    Workers,       \* server processes
    Threads, Host, \* handler threads and the worker each belongs to
    Kinds,         \* the kinds of request clients send
    None,
    MayFault,      \* whether database operations may raise
    MaxRequests,   \* bound on the number of requests
    MaxRestarts    \* bound on the number of worker restarts

ASSUME RoutingAssumption ==
    /\ Pids \subseteq Codes
    /\ Host \in [Threads -> Workers]
    /\ Kinds \subseteq {"serve", "participant", "quad"}
    /\ MayFault \in BOOLEAN
    /\ MaxRequests \in Nat /\ MaxRestarts \in Nat

\* The durable store's number; ephemeral stores are numbered from 1.
Durable == 0

Row == [code: Codes, consent: BOOLEAN]
Write == [store: Nat, id: Nat, pid: Pids]
Answer == [id: Nat, pid: Pids, kind: Kinds, owed: BOOLEAN, ok: BOOLEAN]
Stages == {"commit", "remember", "lookup", "read", "open", "make", "fetch", "write"}

\* owed: whether the request's work is owed to the durable store: consent was on
\* record when the handler asked for a store, and the database has answered it
\* (a history value; the code does not keep it).
Handler == [pc: Stages, id: Nat, kind: Kinds, pid: Pids, code: Codes, consent: BOOLEAN,
            owed: BOOLEAN, store: Nat]

ASSUME NoneAssumption == None \notin Row \cup Handler \cup BOOLEAN \cup Nat

VARIABLES
    rows,       \* the participants table
    durable,    \* what the durable store holds
    cache,      \* per worker: _consent_cache
    ephemeral,  \* per worker: _ephemeral, by the number of the store
    contents,   \* per worker: what its ephemeral stores hold
    made,       \* number of ephemeral stores ever made
    handler,    \* per thread: the request it is serving, or None
    issued,     \* number of requests accepted
    used,       \* participant ids in use
    answered,   \* the answers given
    restarts    \* number of worker restarts

store_vars == <<durable, contents, made, ephemeral>>
vars == <<rows, durable, cache, ephemeral, contents, made, handler, issued, used, answered,
          restarts>>

\* What the participants table says of p.
Consents(p) == rows[p] # None /\ rows[p].consent

Init ==
    /\ rows = [p \in Pids |-> None]
    /\ durable = {}
    /\ cache = [w \in Workers |-> [p \in Pids |-> None]]
    /\ ephemeral = [w \in Workers |-> [p \in Pids |-> None]]
    /\ contents = [w \in Workers |-> {}]
    /\ made = 0
    /\ handler = [t \in Threads |-> None]
    /\ issued = 0 /\ used = {} /\ answered = {} /\ restarts = 0

At(t, stage) == handler[t] # None /\ handler[t].pc = stage
GoTo(t, stage) == handler' = [handler EXCEPT ![t].pc = stage]
UseStore(t, i) == handler' = [handler EXCEPT ![t].pc = "write", ![t].store = i]

\* The response: the handler is done.
Finish(t, ok) ==
    /\ handler' = [handler EXCEPT ![t] = None]
    /\ answered' = answered \cup
        {[id |-> handler[t].id, pid |-> handler[t].pid, kind |-> handler[t].kind,
          owed |-> handler[t].owed, ok |-> ok]}

\* main.py's routes go straight to store_for ("serve"); /api/participant
\* registers under a fresh uuid; the Quad routes register, then serve.
Arrive(t) ==
    /\ handler[t] = None /\ issued < MaxRequests
    /\ \E kind \in Kinds, p \in Pids, code \in Codes, consent \in BOOLEAN :
        /\ kind = "participant" => p \notin used
        /\ kind # "participant" => code = p
        /\ kind = "serve" => ~consent
        /\ used' = used \cup {p}
        /\ handler' = [handler EXCEPT ![t] =
            [pc |-> IF kind = "serve" THEN "lookup" ELSE "commit", id |-> issued + 1,
             kind |-> kind, pid |-> p, code |-> code, consent |-> consent,
             owed |-> FALSE, store |-> Durable]]
    /\ issued' = issued + 1
    /\ UNCHANGED <<rows, cache, answered, restarts, store_vars>>

\* An upsert: a second registration replaces the consent flag.
BadInserted(p, code, consent) == {[rows EXCEPT ![p] = [code |-> code, consent |-> consent]]}

\* register_participant's INSERT: the id and the code are both unique.
Inserted(p, code, consent) ==
    IF rows[p] = None /\ \A q \in Pids : rows[q] # None => rows[q].code # code
    THEN {[rows EXCEPT ![p] = [code |-> code, consent |-> consent]]} ELSE {}

\* A refused or failed INSERT raises out of the route: an error answer.
CommitRow(t) ==
    /\ At(t, "commit")
    /\ LET h == handler[t]
           result == Inserted(h.pid, h.code, h.consent)
       IN \/ /\ rows' \in result
             /\ GoTo(t, "remember")
             /\ UNCHANGED answered
          \/ /\ result = {} \/ MayFault
             /\ Finish(t, FALSE)
             /\ UNCHANGED rows
    /\ UNCHANGED <<cache, issued, used, restarts, store_vars>>

\* Whoever registers is taken to consent.
BadRemembered(known, p, consent) == [known EXCEPT ![p] = TRUE]

\* What register_participant leaves in the cache after the commit.
Remembered(known, p, consent) == [known EXCEPT ![p] = consent]

Remember(t) ==
    /\ At(t, "remember")
    /\ LET h == handler[t] IN
        /\ cache' = [cache EXCEPT ![Host[t]] = Remembered(cache[Host[t]], h.pid, h.consent)]
        /\ IF h.kind = "quad" THEN GoTo(t, "lookup") /\ UNCHANGED answered
                              ELSE Finish(t, TRUE)
    /\ UNCHANGED <<rows, issued, used, restarts, store_vars>>

\* A learner this worker has not cached is taken for a non-consenting one.
BadLookup(t) ==
    /\ At(t, "lookup")
    /\ LET h == handler[t]
           known == cache[Host[t]][h.pid]
       IN handler' = [handler EXCEPT ![t] =
            [h EXCEPT !.owed = Consents(h.pid),
                      !.pc = IF known # None /\ known THEN "write" ELSE "open"]]
    /\ UNCHANGED <<rows, cache, issued, used, answered, restarts, store_vars>>

\* _lookup_consent, the cache.
Lookup(t) ==
    /\ At(t, "lookup")
    /\ LET h == handler[t]
           known == cache[Host[t]][h.pid]
       IN handler' = [handler EXCEPT ![t] =
            [h EXCEPT !.owed = Consents(h.pid),
                      !.pc = IF known = None THEN "read" ELSE IF known THEN "write" ELSE "open"]]
    /\ UNCHANGED <<rows, cache, issued, used, answered, restarts, store_vars>>

\* What _lookup_consent caches after reading p's row: only a row it found.
Noted(known, p) == IF rows[p] # None THEN [known EXCEPT ![p] = rows[p].consent] ELSE known

\* _lookup_consent, the database.  An exception reads as "no consent".
ReadRow(t) ==
    /\ At(t, "read")
    /\ LET h == handler[t] IN
        \/ /\ cache' = [cache EXCEPT ![Host[t]] = Noted(cache[Host[t]], h.pid)]
           /\ GoTo(t, IF Consents(h.pid) THEN "write" ELSE "open")
        \/ /\ MayFault
           /\ handler' = [handler EXCEPT ![t] = [h EXCEPT !.pc = "open", !.owed = FALSE]]
           /\ UNCHANGED cache
    /\ UNCHANGED <<rows, issued, used, answered, restarts, store_vars>>

\* store_for: `if pid not in self._ephemeral`.
Open(t) ==
    /\ At(t, "open")
    /\ GoTo(t, IF ephemeral[Host[t]][handler[t].pid] = None THEN "make" ELSE "fetch")
    /\ UNCHANGED <<rows, cache, issued, used, answered, restarts, store_vars>>

\* store_for: `self._ephemeral[pid] = InMemoryStore()`.
Make(t) ==
    /\ At(t, "make")
    /\ made' = made + 1
    /\ ephemeral' = [ephemeral EXCEPT ![Host[t]][handler[t].pid] = made + 1]
    /\ GoTo(t, "fetch")
    /\ UNCHANGED <<rows, cache, issued, used, answered, restarts, durable, contents>>

\* One ephemeral store per worker, whichever learner asked first.
BadFetched(stores, p) == CHOOSE i \in {stores[q] : q \in Pids} : i # None

\* The store a handler takes from the router's ephemeral stores.
Fetched(stores, p) == stores[p]

\* store_for: `return self._ephemeral[pid]`.
Fetch(t) ==
    /\ At(t, "fetch")
    /\ UseStore(t, Fetched(ephemeral[Host[t]], handler[t].pid))
    /\ UNCHANGED <<rows, cache, issued, used, answered, restarts, store_vars>>

\* The request's writes; a fault in the database is an error answer.
WriteTrace(t) ==
    /\ At(t, "write")
    /\ LET h == handler[t]
           write == [store |-> h.store, id |-> h.id, pid |-> h.pid]
       IN \/ /\ IF h.store = Durable
                THEN durable' = durable \cup {write} /\ UNCHANGED contents
                ELSE /\ contents' = [contents EXCEPT ![Host[t]] = @ \cup {write}]
                     /\ UNCHANGED durable
             /\ Finish(t, TRUE)
          \/ /\ h.store = Durable /\ MayFault
             /\ Finish(t, FALSE)
             /\ UNCHANGED <<durable, contents>>
    /\ UNCHANGED <<rows, cache, issued, used, restarts, made, ephemeral>>

\* A worker process dies and starts again: its memory and its requests are gone.
Restart(w) ==
    /\ restarts < MaxRestarts
    /\ restarts' = restarts + 1
    /\ cache' = [cache EXCEPT ![w] = [p \in Pids |-> None]]
    /\ ephemeral' = [ephemeral EXCEPT ![w] = [p \in Pids |-> None]]
    /\ contents' = [contents EXCEPT ![w] = {}]
    /\ handler' = [t \in Threads |-> IF Host[t] = w THEN None ELSE handler[t]]
    /\ UNCHANGED <<rows, durable, made, issued, used, answered>>

Step(t) ==
    \/ Arrive(t) \/ CommitRow(t) \/ Remember(t) \/ Lookup(t) \/ ReadRow(t)
    \/ Open(t) \/ Make(t) \/ Fetch(t) \/ WriteTrace(t)

Next == (\E t \in Threads : Step(t)) \/ (\E w \in Workers : Restart(w))

Spec == Init /\ [][Next]_vars

-----------------------------------------------------------------------------
(* Properties.                                                             *)

\* Type invariant.
TypeInv ==
    /\ rows \in [Pids -> Row \cup {None}]
    /\ durable \subseteq Write
    /\ cache \in [Workers -> [Pids -> BOOLEAN \cup {None}]]
    /\ ephemeral \in [Workers -> [Pids -> Nat \cup {None}]]
    /\ contents \in [Workers -> SUBSET Write]
    /\ made \in Nat
    /\ handler \in [Threads -> Handler \cup {None}]
    /\ issued \in Nat /\ used \subseteq Pids /\ answered \subseteq Answer /\ restarts \in Nat

\* Nothing a learner did is persisted unless the participants table says, now,
\* that the learner consented (consent.py:11-16), whatever a worker's cache
\* holds and however its handlers interleave, fail or restart.
PersistedOnlyWithConsent == \A e \in durable : Consents(e.pid)

\* A worker never believes a consent flag the table does not hold: a flag is
\* cached after the commit, and never changes once it is committed.
CacheMatchesTable ==
    \A w \in Workers, p \in Pids :
        cache[w][p] # None => rows[p] # None /\ rows[p].consent = cache[w][p]

\* A non-consenting learner's store never holds another learner's work.
LearnersAreIsolated ==
    \A w \in Workers : \A e, f \in contents[w] : e.store = f.store => e.pid = f.pid

\* consent.py:13: work done after consent is on record is in the durable store
\* once the request is answered, unless the request's own look-up failed.
ConsentedWorkIsKept ==
    \A a \in answered : a.ok /\ a.owed => \E e \in durable : e.id = a.id

\* consent.py:48-51: a second store for a learner "is harmless for
\* correctness": what an answered request wrote is in the store the learner's
\* next request gets from that worker.
SessionHasOneStore ==
    \A w \in Workers : \A e \in contents[w] : ephemeral[w][e.pid] = e.store

\* integrations/quad/router.py:165 "Set/update/clear the student's own goals":
\* a learner who has used a Quad route can use one again.
QuadLearnersCanReturn == \A a \in answered : a.kind = "quad" => a.ok

=============================================================================
