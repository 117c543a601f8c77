------------------------ MODULE ConsentRoutingProofs ------------------------
(***************************************************************************)
(* Theorems about ConsentRouting, for any number of workers, threads,      *)
(* learners, requests and restarts.                                        *)
(***************************************************************************)
EXTENDS ConsentRouting, TLAPS

\* What a handler may rely on at each stage of its request.
HandlerFacts(t) ==
    LET h == handler[t] IN
    /\ h.pc = "remember" => rows[h.pid] # None /\ rows[h.pid].consent = h.consent
    /\ h.pc = "fetch" => ephemeral[Host[t]][h.pid] # None
    /\ h.pc # "write" => h.store = Durable
    /\ h.pc = "write" /\ h.store = Durable => Consents(h.pid)
    /\ h.owed => h.pc \in {"read", "write"} /\ h.store = Durable /\ Consents(h.pid)

HandlerInv == \A t \in Threads : handler[t] # None => HandlerFacts(t)

\* Ephemeral stores are never numbered as the durable one.
NumberInv == \A w \in Workers, p \in Pids : ephemeral[w][p] # Durable

\* The inductive invariant: what persists, what is cached and what a handler
\* believes all agree with the participants table.
RoutingInv ==
    /\ TypeInv /\ HandlerInv /\ NumberInv
    /\ PersistedOnlyWithConsent /\ CacheMatchesTable /\ ConsentedWorkIsKept

\* Rows are only ever added, and ephemeral stores only ever appear.
RowsKept == \A p \in Pids : rows[p] # None => rows'[p] = rows[p]
StoresKept ==
    \A w \in Workers, p \in Pids : ephemeral[w][p] # None => ephemeral'[w][p] # None
OnlyHandler(t) ==
    /\ \A u \in Threads : u # t => handler'[u] = handler[u]
    /\ handler'[t] # None => HandlerFacts(t)'

-----------------------------------------------------------------------------

\* The other handlers' facts survive a step of t.
LEMMA OthersKeepFacts ==
    ASSUME RoutingInv, RowsKept, StoresKept, NEW t \in Threads, OnlyHandler(t)
    PROVE  HandlerInv'
<1> SUFFICES ASSUME NEW u \in Threads, handler'[u] # None
             PROVE  HandlerFacts(u)'
  BY DEF HandlerInv
<1>1. CASE u = t  BY <1>1 DEF OnlyHandler
<1>2. CASE u # t
  <2>1. handler'[u] = handler[u] /\ handler[u] \in Handler /\ HandlerFacts(u)
    BY <1>2 DEF OnlyHandler, RoutingInv, TypeInv, HandlerInv
  <2>2. handler[u].pid \in Pids /\ Host[u] \in Workers
    BY <2>1, RoutingAssumption DEF Handler
  <2>3. rows[handler[u].pid] # None => rows'[handler[u].pid] = rows[handler[u].pid]
    BY <2>2 DEF RowsKept
  <2>4. ephemeral[Host[u]][handler[u].pid] # None => ephemeral'[Host[u]][handler[u].pid] # None
    BY <2>2 DEF StoresKept
  <2> QED  BY <2>1, <2>3, <2>4 DEF HandlerFacts, Consents
<1> QED  BY <1>1, <1>2

\* Consent, once on record, stays; so what was persisted rightly remains so.
LEMMA TableKeeps ==
    ASSUME RoutingInv, RowsKept
    PROVE  /\ \A p \in Pids : Consents(p) => Consents(p)'
           /\ \A e \in durable : Consents(e.pid)'
           /\ \A w \in Workers, p \in Pids : cache[w][p] # None =>
                rows'[p] # None /\ rows'[p].consent = cache[w][p]
BY DEF RoutingInv, RowsKept, Consents, PersistedOnlyWithConsent, CacheMatchesTable, TypeInv, Write

\* A handler that ends leaves nothing to show.
LEMMA FinishFacts ==
    ASSUME RoutingInv, NEW t \in Threads, NEW ok \in BOOLEAN, handler[t] # None, Finish(t, ok)
    PROVE  /\ handler' \in [Threads -> Handler \cup {None}] /\ handler'[t] = None
           /\ \A u \in Threads : u # t => handler'[u] = handler[u]
           /\ answered' \subseteq Answer
BY DEF Finish, RoutingInv, TypeInv, Answer, Handler

\* GoTo moves one handler to another stage.
LEMMA GoToFacts ==
    ASSUME RoutingInv, NEW t \in Threads, NEW stage \in Stages, handler[t] # None, GoTo(t, stage)
    PROVE  /\ handler' \in [Threads -> Handler \cup {None}]
           /\ \A u \in Threads : u # t => handler'[u] = handler[u]
           /\ handler'[t] = [handler[t] EXCEPT !.pc = stage]
           /\ handler[t] \in Handler /\ handler'[t] \in Handler
BY DEF GoTo, RoutingInv, TypeInv, Handler

-----------------------------------------------------------------------------
(* One lemma per action.                                                   *)

LEMMA ArriveKeeps ==
    ASSUME RoutingInv, NEW t \in Threads, Arrive(t)  PROVE RoutingInv'
<1>1. PICK kind \in Kinds, p \in Pids, code \in Codes, consent \in BOOLEAN :
        /\ used' = used \cup {p}
        /\ handler' = [handler EXCEPT ![t] =
            [pc |-> IF kind = "serve" THEN "lookup" ELSE "commit", id |-> issued + 1,
             kind |-> kind, pid |-> p, code |-> code, consent |-> consent,
             owed |-> FALSE, store |-> Durable]]
  BY DEF Arrive
<1>2. TypeInv'
  BY <1>1 DEF Arrive, RoutingInv, TypeInv, Handler, Stages, Durable, store_vars
<1>3. RowsKept /\ StoresKept  BY DEF Arrive, RowsKept, StoresKept, store_vars
<1>4. OnlyHandler(t)
  BY <1>1 DEF OnlyHandler, HandlerFacts, RoutingInv, TypeInv
<1> QED
  BY <1>2, <1>3, <1>4, OthersKeepFacts, TableKeeps
  DEF Arrive, RoutingInv, NumberInv, PersistedOnlyWithConsent, CacheMatchesTable,
      ConsentedWorkIsKept, Consents, store_vars

LEMMA CommitKeeps ==
    ASSUME RoutingInv, NEW t \in Threads, CommitRow(t)  PROVE RoutingInv'
<1> DEFINE h == handler[t]
<1>1. h \in Handler /\ h # None /\ h.pc = "commit" /\ HandlerFacts(t)
  BY DEF CommitRow, At, RoutingInv, TypeInv, HandlerInv
<1>2. UNCHANGED <<cache, issued, used, restarts, durable, contents, made, ephemeral>>
  BY DEF CommitRow, store_vars
<1>3. CASE rows' \in Inserted(h.pid, h.code, h.consent) /\ GoTo(t, "remember")
           /\ answered' = answered
  <2>1. /\ rows[h.pid] = None
        /\ rows' = [rows EXCEPT ![h.pid] = [code |-> h.code, consent |-> h.consent]]
    BY <1>3 DEF Inserted
  <2>2. h.pid \in Pids /\ h.code \in Codes /\ h.consent \in BOOLEAN  BY <1>1 DEF Handler
  <2>3. /\ rows' \in [Pids -> Row \cup {None}]
        /\ rows'[h.pid] = [code |-> h.code, consent |-> h.consent] /\ rows'[h.pid] # None
    BY <2>1, <2>2, NoneAssumption DEF RoutingInv, TypeInv, Row
  <2>4. RowsKept /\ StoresKept
    BY <1>2, <2>1, <2>2 DEF RowsKept, StoresKept, RoutingInv, TypeInv
  <2>5. /\ handler' \in [Threads -> Handler \cup {None}]
        /\ \A u \in Threads : u # t => handler'[u] = handler[u]
        /\ handler'[t] = [h EXCEPT !.pc = "remember"]
    BY <1>1, <1>3, GoToFacts DEF Stages
  <2>6. OnlyHandler(t)
    <3>1. /\ handler'[t].pc = "remember" /\ handler'[t].pid = h.pid
          /\ handler'[t].consent = h.consent
          /\ handler'[t].owed = h.owed /\ handler'[t].store = h.store
      BY <1>1, <2>5 DEF Handler
    <3> QED  BY <1>1, <2>3, <2>5, <3>1 DEF OnlyHandler, HandlerFacts
  <2>7. TypeInv'  BY <1>2, <1>3, <2>3, <2>5 DEF RoutingInv, TypeInv
  <2> QED
    BY <1>2, <1>3, <2>4, <2>6, <2>7, OthersKeepFacts, TableKeeps
    DEF RoutingInv, NumberInv, PersistedOnlyWithConsent, CacheMatchesTable,
        ConsentedWorkIsKept
<1>4. CASE Finish(t, FALSE) /\ rows' = rows
  <2>1. RowsKept /\ StoresKept  BY <1>2, <1>4 DEF RowsKept, StoresKept
  <2>2. /\ handler' \in [Threads -> Handler \cup {None}] /\ handler'[t] = None
        /\ \A u \in Threads : u # t => handler'[u] = handler[u]
        /\ answered' \subseteq Answer
    BY <1>1, <1>4, FinishFacts
  <2>3. OnlyHandler(t)  BY <2>2 DEF OnlyHandler
  <2>4. TypeInv'  BY <1>2, <1>4, <2>2 DEF RoutingInv, TypeInv
  <2>5. ConsentedWorkIsKept => ConsentedWorkIsKept'
    BY <1>2, <1>4 DEF ConsentedWorkIsKept, Finish
  <2> QED
    BY <1>2, <1>4, <2>1, <2>3, <2>4, <2>5, OthersKeepFacts, TableKeeps
    DEF RoutingInv, NumberInv, PersistedOnlyWithConsent, CacheMatchesTable
<1> QED  BY <1>3, <1>4 DEF CommitRow

LEMMA RememberKeeps ==
    ASSUME RoutingInv, NEW t \in Threads, Remember(t)  PROVE RoutingInv'
<1> DEFINE h == handler[t]
           w == Host[t]
<1>1. /\ h \in Handler /\ h # None /\ h.pc = "remember" /\ HandlerFacts(t)
      /\ h.pid \in Pids /\ h.consent \in BOOLEAN /\ w \in Workers
  BY RoutingAssumption DEF Remember, At, RoutingInv, TypeInv, HandlerInv, Handler
<1>2. UNCHANGED <<rows, issued, used, restarts, durable, contents, made, ephemeral>>
  BY DEF Remember, store_vars
<1>3. cache' = [cache EXCEPT ![w] = [cache[w] EXCEPT ![h.pid] = h.consent]]
  BY DEF Remember, Remembered
<1>4. rows[h.pid] # None /\ rows[h.pid].consent = h.consent /\ ~h.owed
  BY <1>1 DEF HandlerFacts
<1>5. /\ cache' \in [Workers -> [Pids -> BOOLEAN \cup {None}]] /\ CacheMatchesTable'
  BY <1>1, <1>2, <1>3, <1>4 DEF RoutingInv, TypeInv, CacheMatchesTable
<1>6. RowsKept /\ StoresKept  BY <1>2 DEF RowsKept, StoresKept
<1>7. PersistedOnlyWithConsent' /\ NumberInv'
  BY <1>2 DEF RoutingInv, PersistedOnlyWithConsent, NumberInv, Consents
<1>8. CASE GoTo(t, "lookup") /\ answered' = answered
  <2>1. /\ handler' \in [Threads -> Handler \cup {None}]
        /\ \A u \in Threads : u # t => handler'[u] = handler[u]
        /\ handler'[t] = [h EXCEPT !.pc = "lookup"]
    BY <1>1, <1>8, GoToFacts DEF Stages
  <2>2. handler'[t].pc = "lookup" /\ handler'[t].store = h.store /\ ~handler'[t].owed
    BY <1>1, <1>4, <2>1 DEF Handler
  <2>3. OnlyHandler(t)  BY <1>1, <2>1, <2>2 DEF OnlyHandler, HandlerFacts
  <2>4. TypeInv'  BY <1>2, <1>5, <1>8, <2>1 DEF RoutingInv, TypeInv
  <2>5. ConsentedWorkIsKept => ConsentedWorkIsKept'  BY <1>2, <1>8 DEF ConsentedWorkIsKept
  <2> QED  BY <1>5, <1>6, <1>7, <2>3, <2>4, <2>5, OthersKeepFacts DEF RoutingInv
<1>9. CASE Finish(t, TRUE)
  <2>1. /\ handler' \in [Threads -> Handler \cup {None}] /\ handler'[t] = None
        /\ \A u \in Threads : u # t => handler'[u] = handler[u]
        /\ answered' \subseteq Answer
    BY <1>1, <1>9, FinishFacts
  <2>2. OnlyHandler(t)  BY <2>1 DEF OnlyHandler
  <2>3. TypeInv'  BY <1>2, <1>5, <2>1 DEF RoutingInv, TypeInv
  <2>4. ConsentedWorkIsKept => ConsentedWorkIsKept'
    BY <1>2, <1>4, <1>9 DEF ConsentedWorkIsKept, Finish
  <2> QED  BY <1>5, <1>6, <1>7, <2>2, <2>3, <2>4, OthersKeepFacts DEF RoutingInv
<1> QED  BY <1>8, <1>9 DEF Remember

LEMMA LookupKeeps ==
    ASSUME RoutingInv, NEW t \in Threads, Lookup(t)  PROVE RoutingInv'
<1> DEFINE h == handler[t]
           known == cache[Host[t]][h.pid]
<1>1. /\ h \in Handler /\ h # None /\ h.pc = "lookup" /\ HandlerFacts(t)
      /\ h.pid \in Pids /\ Host[t] \in Workers /\ known \in BOOLEAN \cup {None}
  <2>1. h \in Handler /\ h # None /\ h.pc = "lookup" /\ HandlerFacts(t)
    BY DEF Lookup, At, RoutingInv, TypeInv, HandlerInv
  <2>2. h.pid \in Pids /\ Host[t] \in Workers  BY <2>1, RoutingAssumption DEF Handler
  <2>3. known \in BOOLEAN \cup {None}  BY <2>2 DEF RoutingInv, TypeInv
  <2> QED  BY <2>1, <2>2, <2>3
<1>2. UNCHANGED <<rows, cache, issued, used, answered, restarts,
                  durable, contents, made, ephemeral>>
  BY DEF Lookup, store_vars
<1>3. handler' = [handler EXCEPT ![t] =
        [h EXCEPT !.owed = Consents(h.pid),
                  !.pc = IF known = None THEN "read" ELSE IF known THEN "write" ELSE "open"]]
  BY DEF Lookup
<1>4. known # None => rows[h.pid] # None /\ rows[h.pid].consent = known
  BY <1>1 DEF RoutingInv, CacheMatchesTable
<1>5. Consents(h.pid) \in BOOLEAN
  BY <1>1 DEF Consents, RoutingInv, TypeInv, Row
<1>6. /\ handler' \in [Threads -> Handler \cup {None}]
      /\ \A u \in Threads : u # t => handler'[u] = handler[u]
      /\ handler'[t] = [h EXCEPT !.owed = Consents(h.pid),
            !.pc = IF known = None THEN "read" ELSE IF known THEN "write" ELSE "open"]
      /\ handler'[t] \in Handler
  BY <1>1, <1>3, <1>5 DEF RoutingInv, TypeInv, Handler, Stages
<1>7. /\ handler'[t].pid = h.pid /\ handler'[t].store = h.store
      /\ handler'[t].owed = Consents(h.pid)
      /\ handler'[t].pc = IF known = None THEN "read" ELSE IF known THEN "write" ELSE "open"
  BY <1>1, <1>6 DEF Handler
<1>8. h.store = Durable  BY <1>1 DEF HandlerFacts
<1>9. HandlerFacts(t)'
  <2>1. \A p \in Pids : Consents(p)' = Consents(p)  BY <1>2 DEF Consents
  <2>2. known # None => Consents(h.pid) = known  BY <1>1, <1>4 DEF Consents
  <2> QED  BY <1>1, <1>7, <1>8, <2>1, <2>2 DEF HandlerFacts, Consents
<1>10. RowsKept /\ StoresKept /\ OnlyHandler(t)
  BY <1>2, <1>6, <1>9 DEF RowsKept, StoresKept, OnlyHandler
<1>11. TypeInv'  BY <1>2, <1>6 DEF RoutingInv, TypeInv
<1> QED
  BY <1>2, <1>10, <1>11, OthersKeepFacts
  DEF RoutingInv, NumberInv, PersistedOnlyWithConsent, CacheMatchesTable,
      ConsentedWorkIsKept, Consents

LEMMA ReadRowKeeps ==
    ASSUME RoutingInv, NEW t \in Threads, ReadRow(t)  PROVE RoutingInv'
<1> DEFINE h == handler[t]
           w == Host[t]
<1>1. /\ h \in Handler /\ h # None /\ h.pc = "read" /\ HandlerFacts(t)
      /\ h.pid \in Pids /\ w \in Workers
  BY RoutingAssumption DEF ReadRow, At, RoutingInv, TypeInv, HandlerInv, Handler
<1>2. UNCHANGED <<rows, issued, used, answered, restarts, durable, contents, made, ephemeral>>
  BY DEF ReadRow, store_vars
<1>3. /\ cache' \in [Workers -> [Pids -> BOOLEAN \cup {None}]] /\ CacheMatchesTable'
  <2>1. CASE cache' = [cache EXCEPT ![w] = Noted(cache[w], h.pid)]
    <3>1. CASE rows[h.pid] = None
      BY <1>1, <1>2, <2>1, <3>1 DEF Noted, RoutingInv, TypeInv, CacheMatchesTable
    <3>2. CASE rows[h.pid] # None
      <4>1. cache' = [cache EXCEPT ![w] = [cache[w] EXCEPT ![h.pid] = rows[h.pid].consent]]
        BY <2>1, <3>2 DEF Noted
      <4>2. rows[h.pid].consent \in BOOLEAN  BY <1>1, <3>2 DEF RoutingInv, TypeInv, Row
      <4> QED  BY <1>1, <1>2, <3>2, <4>1, <4>2 DEF RoutingInv, TypeInv, CacheMatchesTable
    <3> QED  BY <3>1, <3>2
  <2>2. CASE cache' = cache
    BY <1>2, <2>2 DEF RoutingInv, TypeInv, CacheMatchesTable
  <2> QED  BY <2>1, <2>2 DEF ReadRow
<1>4. PICK stage \in {"write", "open"} :
        /\ \E owed \in {h.owed, FALSE} :
              /\ handler' = [handler EXCEPT ![t] = [h EXCEPT !.pc = stage, !.owed = owed]]
              /\ owed /\ Consents(h.pid) => stage = "write"
        /\ stage = "write" => Consents(h.pid)
  <2>1. CASE GoTo(t, IF Consents(h.pid) THEN "write" ELSE "open")
    <3>1. handler' = [handler EXCEPT ![t] =
            [h EXCEPT !.pc = IF Consents(h.pid) THEN "write" ELSE "open", !.owed = h.owed]]
      BY <1>1, <2>1 DEF GoTo, Handler
    <3> QED  BY <3>1
  <2>2. CASE handler' = [handler EXCEPT ![t] = [h EXCEPT !.pc = "open", !.owed = FALSE]]
    BY <2>2
  <2> QED  BY <1>1, <2>1, <2>2 DEF ReadRow
<1>5. PICK owed \in {h.owed, FALSE} :
        /\ handler' = [handler EXCEPT ![t] = [h EXCEPT !.pc = stage, !.owed = owed]]
        /\ owed /\ Consents(h.pid) => stage = "write"
  BY <1>4
<1>6. /\ handler' \in [Threads -> Handler \cup {None}]
      /\ \A u \in Threads : u # t => handler'[u] = handler[u]
      /\ handler'[t].pc = stage /\ handler'[t].pid = h.pid
      /\ handler'[t].owed = owed /\ handler'[t].store = h.store
  BY <1>1, <1>5 DEF RoutingInv, TypeInv, Handler, Stages
<1>7. HandlerFacts(t)'
  <2>1. \A p \in Pids : Consents(p)' = Consents(p)  BY <1>2 DEF Consents
  <2> QED  BY <1>1, <1>4, <1>5, <1>6, <2>1 DEF HandlerFacts, Consents
<1>8. RowsKept /\ StoresKept /\ OnlyHandler(t)
  BY <1>2, <1>6, <1>7 DEF RowsKept, StoresKept, OnlyHandler
<1>9. TypeInv'  BY <1>2, <1>3, <1>6 DEF RoutingInv, TypeInv
<1> QED
  BY <1>2, <1>3, <1>8, <1>9, OthersKeepFacts
  DEF RoutingInv, NumberInv, PersistedOnlyWithConsent, ConsentedWorkIsKept, Consents

LEMMA OpenKeeps ==
    ASSUME RoutingInv, NEW t \in Threads, Open(t)  PROVE RoutingInv'
<1> DEFINE h == handler[t]
<1>1. h \in Handler /\ h # None /\ h.pc = "open" /\ HandlerFacts(t)
  BY DEF Open, At, RoutingInv, TypeInv, HandlerInv
<1>2. UNCHANGED <<rows, cache, issued, used, answered, restarts,
                  durable, contents, made, ephemeral>>
  BY DEF Open, store_vars
<1>3. PICK stage \in {"make", "fetch"} :
        GoTo(t, stage) /\ (stage = "fetch" => ephemeral[Host[t]][h.pid] # None)
  BY DEF Open
<1>4. /\ handler' \in [Threads -> Handler \cup {None}]
      /\ \A u \in Threads : u # t => handler'[u] = handler[u]
      /\ handler'[t] = [h EXCEPT !.pc = stage]
  BY <1>1, <1>3, GoToFacts DEF Stages
<1>5. /\ handler'[t].pc = stage /\ handler'[t].pid = h.pid
      /\ handler'[t].owed = h.owed /\ handler'[t].store = h.store
  BY <1>1, <1>4 DEF Handler
<1>6. HandlerFacts(t)'
  BY <1>1, <1>2, <1>3, <1>5 DEF HandlerFacts, Consents
<1>7. RowsKept /\ StoresKept /\ OnlyHandler(t)
  BY <1>2, <1>4, <1>6 DEF RowsKept, StoresKept, OnlyHandler
<1>8. TypeInv'  BY <1>2, <1>4 DEF RoutingInv, TypeInv
<1> QED
  BY <1>2, <1>7, <1>8, OthersKeepFacts
  DEF RoutingInv, NumberInv, PersistedOnlyWithConsent, CacheMatchesTable,
      ConsentedWorkIsKept, Consents

LEMMA MakeKeeps ==
    ASSUME RoutingInv, NEW t \in Threads, Make(t)  PROVE RoutingInv'
<1> DEFINE h == handler[t]
           w == Host[t]
<1>1. /\ h \in Handler /\ h # None /\ h.pc = "make" /\ HandlerFacts(t)
      /\ h.pid \in Pids /\ w \in Workers
  BY RoutingAssumption DEF Make, At, RoutingInv, TypeInv, HandlerInv, Handler
<1>2. UNCHANGED <<rows, cache, issued, used, answered, restarts, durable, contents>>
  BY DEF Make
<1>3. made' = made + 1 /\ ephemeral' = [ephemeral EXCEPT ![w][h.pid] = made + 1]
  BY DEF Make
<1>4. /\ ephemeral' \in [Workers -> [Pids -> Nat \cup {None}]] /\ made' \in Nat
      /\ ephemeral'[w][h.pid] # None /\ NumberInv' /\ StoresKept
  <2>1. made \in Nat /\ made + 1 \in Nat /\ made + 1 # Durable /\ made + 1 # None
    BY NoneAssumption DEF RoutingInv, TypeInv, Durable
  <2> QED  BY <1>1, <1>3, <2>1 DEF RoutingInv, TypeInv, NumberInv, StoresKept
<1>5. /\ handler' \in [Threads -> Handler \cup {None}]
      /\ \A u \in Threads : u # t => handler'[u] = handler[u]
      /\ handler'[t] = [h EXCEPT !.pc = "fetch"]
  BY <1>1, GoToFacts DEF Stages, Make
<1>6. /\ handler'[t].pc = "fetch" /\ handler'[t].pid = h.pid
      /\ handler'[t].owed = h.owed /\ handler'[t].store = h.store
  BY <1>1, <1>5 DEF Handler
<1>7. HandlerFacts(t)'
  BY <1>1, <1>2, <1>4, <1>6 DEF HandlerFacts, Consents
<1>8. RowsKept /\ OnlyHandler(t)  BY <1>2, <1>5, <1>7 DEF RowsKept, OnlyHandler
<1>9. TypeInv'  BY <1>2, <1>4, <1>5 DEF RoutingInv, TypeInv
<1> QED
  BY <1>2, <1>4, <1>8, <1>9, OthersKeepFacts
  DEF RoutingInv, PersistedOnlyWithConsent, CacheMatchesTable, ConsentedWorkIsKept, Consents

LEMMA FetchKeeps ==
    ASSUME RoutingInv, NEW t \in Threads, Fetch(t)  PROVE RoutingInv'
<1> DEFINE h == handler[t]
           i == ephemeral[Host[t]][h.pid]
<1>1. /\ h \in Handler /\ h # None /\ h.pc = "fetch" /\ HandlerFacts(t)
      /\ h.pid \in Pids /\ Host[t] \in Workers
  BY RoutingAssumption DEF Fetch, At, RoutingInv, TypeInv, HandlerInv, Handler
<1>2. UNCHANGED <<rows, cache, issued, used, answered, restarts,
                  durable, contents, made, ephemeral>>
  BY DEF Fetch, store_vars
<1>3. i \in Nat /\ i # Durable
  BY <1>1 DEF HandlerFacts, RoutingInv, TypeInv, NumberInv
<1>4. handler' = [handler EXCEPT ![t].pc = "write", ![t].store = i]
  BY DEF Fetch, UseStore, Fetched
<1>5. /\ handler' \in [Threads -> Handler \cup {None}]
      /\ \A u \in Threads : u # t => handler'[u] = handler[u]
      /\ handler'[t].pc = "write" /\ handler'[t].pid = h.pid
      /\ handler'[t].owed = h.owed /\ handler'[t].store = i
  BY <1>1, <1>3, <1>4 DEF RoutingInv, TypeInv, Handler, Stages
<1>6. HandlerFacts(t)'
  BY <1>1, <1>2, <1>3, <1>5 DEF HandlerFacts, Consents
<1>7. RowsKept /\ StoresKept /\ OnlyHandler(t)
  BY <1>2, <1>5, <1>6 DEF RowsKept, StoresKept, OnlyHandler
<1>8. TypeInv'  BY <1>2, <1>5 DEF RoutingInv, TypeInv
<1> QED
  BY <1>2, <1>7, <1>8, OthersKeepFacts
  DEF RoutingInv, NumberInv, PersistedOnlyWithConsent, CacheMatchesTable,
      ConsentedWorkIsKept, Consents

LEMMA WriteKeeps ==
    ASSUME RoutingInv, NEW t \in Threads, WriteTrace(t)  PROVE RoutingInv'
<1> DEFINE h == handler[t]
           write == [store |-> h.store, id |-> h.id, pid |-> h.pid]
<1>1. /\ h \in Handler /\ h # None /\ h.pc = "write" /\ HandlerFacts(t)
      /\ write \in Write /\ Host[t] \in Workers
  BY RoutingAssumption DEF WriteTrace, At, RoutingInv, TypeInv, HandlerInv, Handler, Write
<1>2. UNCHANGED <<rows, cache, issued, used, restarts, made, ephemeral>>
  BY DEF WriteTrace
<1>3. PICK ok \in BOOLEAN : Finish(t, ok)
  BY DEF WriteTrace
<1>4. /\ handler' \in [Threads -> Handler \cup {None}] /\ handler'[t] = None
      /\ \A u \in Threads : u # t => handler'[u] = handler[u]
      /\ answered' \subseteq Answer
  BY <1>1, <1>3, FinishFacts
<1>5. contents' \in [Workers -> SUBSET Write]
  <2>1. contents' = contents \/ contents' = [contents EXCEPT ![Host[t]] = @ \cup {write}]
    BY DEF WriteTrace
  <2> HIDE DEF write
  <2> QED  BY <1>1, <2>1 DEF RoutingInv, TypeInv
<1>6. /\ durable \subseteq durable' /\ durable' \subseteq durable \cup {write}
      /\ h.store # Durable => durable' = durable
  BY DEF WriteTrace
<1>7. PersistedOnlyWithConsent'
  BY <1>1, <1>2, <1>6 DEF RoutingInv, PersistedOnlyWithConsent, HandlerFacts, Consents
<1>8. ConsentedWorkIsKept'
  <2> SUFFICES ASSUME NEW a \in answered', a.ok, a.owed
               PROVE  \E e \in durable' : e.id = a.id
    BY DEF ConsentedWorkIsKept
  <2>1. CASE a \in answered
    BY <1>6, <2>1 DEF RoutingInv, ConsentedWorkIsKept
  <2>2. CASE a \notin answered
    <3>1. a.id = h.id /\ a.owed = h.owed
      <4>1. a = [id |-> h.id, pid |-> h.pid, kind |-> h.kind, owed |-> h.owed,
                 ok |-> ok]
        BY <1>3, <2>2 DEF Finish
      <4> QED  BY <4>1
    <3>2. h.store = Durable  BY <1>1, <3>1 DEF HandlerFacts
    <3>3. write \in durable'  BY <1>3, <2>2, <3>2 DEF WriteTrace, Finish
    <3>4. write.id = a.id  BY <3>1
    <3> QED  BY <3>3, <3>4
  <2> QED  BY <2>1, <2>2
<1>9. RowsKept /\ StoresKept /\ OnlyHandler(t)
  BY <1>2, <1>4 DEF RowsKept, StoresKept, OnlyHandler
<1>10. TypeInv'  BY <1>1, <1>2, <1>4, <1>5, <1>6 DEF RoutingInv, TypeInv
<1> QED
  BY <1>2, <1>7, <1>8, <1>9, <1>10, OthersKeepFacts
  DEF RoutingInv, NumberInv, CacheMatchesTable

LEMMA RestartKeeps ==
    ASSUME RoutingInv, NEW w \in Workers, Restart(w)  PROVE RoutingInv'
<1>1. TypeInv'
  BY DEF Restart, RoutingInv, TypeInv
<1>2. HandlerInv'
  <2> SUFFICES ASSUME NEW u \in Threads, handler'[u] # None
               PROVE  HandlerFacts(u)'
    BY DEF HandlerInv
  <2>1. Host[u] # w /\ Host[u] \in Workers /\ handler'[u] = handler[u] /\ HandlerFacts(u)
    BY RoutingAssumption DEF Restart, RoutingInv, HandlerInv
  <2>2. rows' = rows /\ ephemeral'[Host[u]] = ephemeral[Host[u]]
    BY <2>1 DEF Restart, RoutingInv, TypeInv
  <2> QED  BY <2>1, <2>2 DEF HandlerFacts, Consents
<1>3. NumberInv' /\ CacheMatchesTable'
  BY NoneAssumption DEF Restart, RoutingInv, TypeInv, NumberInv, CacheMatchesTable, Durable
<1> QED
  BY <1>1, <1>2, <1>3
  DEF Restart, RoutingInv, PersistedOnlyWithConsent, ConsentedWorkIsKept, Consents

-----------------------------------------------------------------------------

\* RoutingInv is inductive.
LEMMA Invariance == Spec => []RoutingInv
<1>1. Init => RoutingInv
  BY NoneAssumption
  DEF Init, RoutingInv, TypeInv, HandlerInv, NumberInv, PersistedOnlyWithConsent,
      CacheMatchesTable, ConsentedWorkIsKept, Durable
<1>2. RoutingInv /\ [Next]_vars => RoutingInv'
  <2> SUFFICES ASSUME RoutingInv, [Next]_vars  PROVE RoutingInv'
    OBVIOUS
  <2>1. ASSUME NEW t \in Threads, Step(t)  PROVE RoutingInv'
    BY <2>1, ArriveKeeps, CommitKeeps, RememberKeeps, LookupKeeps, ReadRowKeeps, OpenKeeps,
       MakeKeeps, FetchKeeps, WriteKeeps DEF Step
  <2>2. ASSUME NEW w \in Workers, Restart(w)  PROVE RoutingInv'
    BY <2>2, RestartKeeps
  <2>3. CASE UNCHANGED vars
    BY <2>3 DEF vars, RoutingInv, TypeInv, HandlerInv, HandlerFacts, NumberInv, Consents,
                PersistedOnlyWithConsent, CacheMatchesTable, ConsentedWorkIsKept
  <2> QED  BY <2>1, <2>2, <2>3 DEF Next
<1> QED  BY <1>1, <1>2, PTL DEF Spec

\* Type correctness of the routing state.
THEOREM TypeCorrect == Spec => []TypeInv
<1>1. RoutingInv => TypeInv  BY DEF RoutingInv
<1> QED  BY <1>1, Invariance, PTL

\* Nothing is persisted for a learner whose row does not record consent
\* (consent.py:11-16), however handlers interleave, fail or restart.
THEOREM ConsentGate == Spec => []PersistedOnlyWithConsent
<1>1. RoutingInv => PersistedOnlyWithConsent  BY DEF RoutingInv
<1> QED  BY <1>1, Invariance, PTL

\* A cached consent flag is the one on record (consent.py:79, 102).
THEOREM CacheIsRight == Spec => []CacheMatchesTable
<1>1. RoutingInv => CacheMatchesTable  BY DEF RoutingInv
<1> QED  BY <1>1, Invariance, PTL

\* What a learner did after consenting is in the durable store by the time the
\* request is answered, unless its own look-up failed (consent.py:13, 104).
THEOREM ConsentedWorkReachesDurable == Spec => []ConsentedWorkIsKept
<1>1. RoutingInv => ConsentedWorkIsKept  BY DEF RoutingInv
<1> QED  BY <1>1, Invariance, PTL

-----------------------------------------------------------------------------
(* Isolation.                                                              *)

\* The ephemeral store i of worker w serves learner p: it is p's entry, or a
\* handler of p holds it, or it holds p's work.
Serves(w, i, p) ==
    \/ ephemeral[w][p] = i
    \/ \E t \in Threads : /\ Host[t] = w /\ handler[t] # None
                          /\ handler[t].pid = p /\ handler[t].store = i
    \/ \E e \in contents[w] : e.store = i /\ e.pid = p

\* A store that serves someone has been made, and serves nobody else.
IsolationInv ==
    /\ \A w \in Workers : \A e \in contents[w] : e.store # Durable
    /\ \A w \in Workers, p \in Pids, i \in Nat \ {Durable} :
         Serves(w, i, p) => i <= made /\ \A q \in Pids : Serves(w, i, q) => q = p

\* A step by which no store comes to serve a learner it did not serve before.
NoNewService ==
    \A w \in Workers, p \in Pids, i \in Nat \ {Durable} : Serves(w, i, p)' => Serves(w, i, p)

\* Where all the other parts of the state stay, who is served depends on the
\* handlers only.
LEMMA HandlerStep ==
    ASSUME TypeInv, NEW t \in Threads, UNCHANGED <<ephemeral, contents, made>>,
           \A u \in Threads : u # t => handler'[u] = handler[u],
           handler'[t] # None /\ handler'[t].store # Durable =>
                /\ handler'[t].store \in Nat
                /\ Serves(Host[t], handler'[t].store, handler'[t].pid)
    PROVE  NoNewService
<1> SUFFICES ASSUME NEW w \in Workers, NEW p \in Pids, NEW i \in Nat \ {Durable},
                    Serves(w, i, p)'
             PROVE  Serves(w, i, p)
  BY DEF NoNewService
<1>1. CASE ephemeral'[w][p] = i  BY <1>1 DEF Serves
<1>2. CASE \E e \in contents'[w] : e.store = i /\ e.pid = p  BY <1>2 DEF Serves
<1>3. ASSUME NEW u \in Threads, Host[u] = w, handler'[u] # None,
             handler'[u].pid = p, handler'[u].store = i
      PROVE  Serves(w, i, p)
  <2>1. CASE u = t  BY <1>3, <2>1
  <2>2. CASE u # t  BY <1>3, <2>2 DEF Serves
  <2> QED  BY <2>1, <2>2
<1> QED  BY <1>1, <1>2, <1>3 DEF Serves

\* A handler moved to another stage still holds the store it held.
LEMMA SameStore ==
    ASSUME TypeInv, NEW t \in Threads, UNCHANGED <<ephemeral, contents, made>>,
           handler[t] # None, NEW stage \in Stages, GoTo(t, stage)
    PROVE  NoNewService
<1>1. handler[t] \in Handler /\ handler' = [handler EXCEPT ![t].pc = stage]
  BY DEF TypeInv, GoTo
<1>2. /\ \A u \in Threads : u # t => handler'[u] = handler[u]
      /\ handler'[t].store = handler[t].store /\ handler'[t].pid = handler[t].pid
      /\ handler[t].store \in Nat
  BY <1>1 DEF TypeInv, Handler
<1>3. Serves(Host[t], handler[t].store, handler[t].pid)  BY DEF Serves
<1> QED  BY <1>2, <1>3, HandlerStep

\* A handler that has answered holds no store.
LEMMA NoStore ==
    ASSUME TypeInv, NEW t \in Threads, UNCHANGED <<ephemeral, contents, made>>,
           NEW ok \in BOOLEAN, Finish(t, ok)
    PROVE  NoNewService
<1>1. handler'[t] = None /\ \A u \in Threads : u # t => handler'[u] = handler[u]
  BY DEF TypeInv, Finish
<1> QED  BY <1>1, HandlerStep

LEMMA IsolationIsKept ==
    ASSUME TypeInv, IsolationInv, NoNewService, made' = made,
           \A w \in Workers : \A e \in contents'[w] : e.store # Durable
    PROVE  IsolationInv'
BY DEF IsolationInv, NoNewService, TypeInv

LEMMA MakeIsolates ==
    ASSUME RoutingInv, IsolationInv, NEW t \in Threads, Make(t)  PROVE IsolationInv'
<1> DEFINE h == handler[t]
           i0 == made + 1
<1>1. /\ h \in Handler /\ h # None /\ h.pid \in Pids /\ Host[t] \in Workers /\ made \in Nat
  BY RoutingAssumption DEF Make, At, RoutingInv, TypeInv, Handler
<1>2. /\ contents' = contents /\ made' = i0
      /\ ephemeral' = [ephemeral EXCEPT ![Host[t]][h.pid] = i0]
  BY DEF Make
<1>3. \A u \in Threads : handler'[u] # None =>
        handler[u] # None /\ handler'[u].pid = handler[u].pid
        /\ handler'[u].store = handler[u].store
  <2>1. handler' = [handler EXCEPT ![t].pc = "fetch"]  BY DEF Make, GoTo
  <2> QED  BY <1>1, <2>1 DEF RoutingInv, TypeInv, Handler
<1>4. \A w \in Workers, p \in Pids, i \in Nat :
        Serves(w, i, p)' => Serves(w, i, p) \/ (w = Host[t] /\ p = h.pid /\ i = i0)
  BY <1>1, <1>2, <1>3 DEF Serves, RoutingInv, TypeInv
<1>5. \A w \in Workers, p \in Pids : ~Serves(w, i0, p)
  <2>1. i0 \in Nat \ {Durable} /\ ~(i0 <= made)  BY <1>1 DEF Durable
  <2> QED  BY <2>1 DEF IsolationInv
<1>6. ASSUME NEW w \in Workers, NEW p \in Pids, NEW i \in Nat \ {Durable}, Serves(w, i, p)'
      PROVE  i <= made' /\ \A q \in Pids : Serves(w, i, q)' => q = p
  <2>1. CASE i = i0  BY <1>1, <1>2, <1>4, <1>5, <1>6, <2>1
  <2>2. CASE i # i0
    <3>1. Serves(w, i, p) /\ \A q \in Pids : Serves(w, i, q)' => Serves(w, i, q)
      BY <1>4, <1>6, <2>2
    <3>2. i <= made /\ \A q \in Pids : Serves(w, i, q) => q = p  BY <3>1 DEF IsolationInv
    <3> QED  BY <1>1, <1>2, <3>1, <3>2
  <2> QED  BY <2>1, <2>2
<1> QED  BY <1>2, <1>6 DEF IsolationInv

LEMMA WriteIsolates ==
    ASSUME RoutingInv, IsolationInv, NEW t \in Threads, WriteTrace(t)  PROVE IsolationInv'
<1> DEFINE h == handler[t]
           write == [store |-> h.store, id |-> h.id, pid |-> h.pid]
<1>1. h \in Handler /\ h # None /\ Host[t] \in Workers
  BY RoutingAssumption DEF WriteTrace, At, RoutingInv, TypeInv
<1>2. ephemeral' = ephemeral /\ made' = made  BY DEF WriteTrace
<1>3. \A u \in Threads : handler'[u] # None => handler'[u] = handler[u]
  BY DEF WriteTrace, Finish, RoutingInv, TypeInv
<1>4. \A w \in Workers : \A e \in contents'[w] :
        e \in contents[w] \/ (w = Host[t] /\ e = write /\ h.store # Durable)
  <2>1. \/ contents' = contents
        \/ h.store # Durable /\ contents' = [contents EXCEPT ![Host[t]] = @ \cup {write}]
    BY DEF WriteTrace
  <2> HIDE DEF write, h
  <2> QED  BY <1>1, <2>1 DEF RoutingInv, TypeInv
<1>5. \A w \in Workers : \A e \in contents'[w] : e.store # Durable
  BY <1>4 DEF IsolationInv
<1>6. Serves(Host[t], h.store, h.pid)  BY <1>1 DEF Serves
<1>7. NoNewService
  <2> SUFFICES ASSUME NEW w \in Workers, NEW p \in Pids, NEW i \in Nat \ {Durable},
                      Serves(w, i, p)'
               PROVE  Serves(w, i, p)
    BY DEF NoNewService
  <2>1. CASE ephemeral'[w][p] = i  BY <1>2, <2>1 DEF Serves
  <2>2. ASSUME NEW e \in contents'[w], e.store = i, e.pid = p  PROVE Serves(w, i, p)
    <3>1. CASE e \in contents[w]  BY <2>2, <3>1 DEF Serves
    <3>2. CASE w = Host[t] /\ e = write  BY <1>6, <2>2, <3>2
    <3> QED  BY <1>4, <3>1, <3>2
  <2>3. CASE \E u \in Threads : /\ Host[u] = w /\ handler'[u] # None
                                /\ handler'[u].pid = p /\ handler'[u].store = i
    BY <1>3, <2>3 DEF Serves
  <2> QED  BY <2>1, <2>2, <2>3 DEF Serves
<1> QED  BY <1>2, <1>5, <1>7, IsolationIsKept DEF RoutingInv

LEMMA StepIsolates ==
    ASSUME RoutingInv, IsolationInv, NEW t \in Threads, Step(t)  PROVE IsolationInv'
<1>1. TypeInv /\ \A w \in Workers : \A e \in contents[w] : e.store # Durable
  BY DEF RoutingInv, IsolationInv
<1>2. CASE Arrive(t)
  <2>1. UNCHANGED <<ephemeral, contents, made>>  BY <1>2 DEF Arrive, store_vars
  <2>2. handler'[t].store = Durable /\ \A u \in Threads : u # t => handler'[u] = handler[u]
    BY <1>1, <1>2 DEF Arrive, TypeInv
  <2> QED  BY <1>1, <2>1, <2>2, HandlerStep, IsolationIsKept
<1>3. CASE CommitRow(t)
  <2>1. UNCHANGED <<ephemeral, contents, made>> /\ handler[t] # None
    BY <1>3 DEF CommitRow, At, store_vars
  <2>2. GoTo(t, "remember") \/ Finish(t, FALSE)  BY <1>3 DEF CommitRow
  <2> QED  BY <1>1, <2>1, <2>2, SameStore, NoStore, IsolationIsKept DEF Stages
<1>4. CASE Remember(t)
  <2>1. UNCHANGED <<ephemeral, contents, made>> /\ handler[t] # None
    BY <1>4 DEF Remember, At, store_vars
  <2>2. GoTo(t, "lookup") \/ Finish(t, TRUE)  BY <1>4 DEF Remember
  <2> QED  BY <1>1, <2>1, <2>2, SameStore, NoStore, IsolationIsKept DEF Stages
<1>5. CASE Lookup(t)
  <2>1. UNCHANGED <<ephemeral, contents, made>> /\ handler[t] # None
    BY <1>5 DEF Lookup, At, store_vars
  <2>2. handler[t] \in Handler  BY <1>1, <2>1 DEF TypeInv
  <2>3. /\ \A u \in Threads : u # t => handler'[u] = handler[u]
        /\ handler'[t].store = handler[t].store /\ handler'[t].pid = handler[t].pid
        /\ handler[t].store \in Nat
    BY <1>1, <1>5, <2>2 DEF Lookup, TypeInv, Handler
  <2>4. Serves(Host[t], handler[t].store, handler[t].pid)  BY <2>1 DEF Serves
  <2> QED  BY <1>1, <2>1, <2>3, <2>4, HandlerStep, IsolationIsKept
<1>6. CASE ReadRow(t)
  <2>1. UNCHANGED <<ephemeral, contents, made>> /\ handler[t] # None
    BY <1>6 DEF ReadRow, At, store_vars
  <2>2. handler[t] \in Handler  BY <1>1, <2>1 DEF TypeInv
  <2>3. /\ \A u \in Threads : u # t => handler'[u] = handler[u]
        /\ handler'[t].store = handler[t].store /\ handler'[t].pid = handler[t].pid
        /\ handler[t].store \in Nat
    <3>1. CASE GoTo(t, IF Consents(handler[t].pid) THEN "write" ELSE "open")
      BY <1>1, <2>2, <3>1 DEF GoTo, TypeInv, Handler
    <3>2. CASE handler' = [handler EXCEPT ![t] =
                            [handler[t] EXCEPT !.pc = "open", !.owed = FALSE]]
      BY <1>1, <2>2, <3>2 DEF TypeInv, Handler
    <3> QED  BY <1>6, <3>1, <3>2 DEF ReadRow
  <2>4. Serves(Host[t], handler[t].store, handler[t].pid)  BY <2>1 DEF Serves
  <2> QED  BY <1>1, <2>1, <2>3, <2>4, HandlerStep, IsolationIsKept
<1>7. CASE Open(t)
  <2>1. UNCHANGED <<ephemeral, contents, made>> /\ handler[t] # None
    BY <1>7 DEF Open, At, store_vars
  <2>2. GoTo(t, "make") \/ GoTo(t, "fetch")  BY <1>7 DEF Open
  <2> QED  BY <1>1, <2>1, <2>2, SameStore, IsolationIsKept DEF Stages
<1>8. CASE Make(t)  BY <1>8, MakeIsolates
<1>9. CASE Fetch(t)
  <2>1. UNCHANGED <<ephemeral, contents, made>> /\ handler[t] # None /\ HandlerFacts(t)
    BY <1>9 DEF Fetch, At, store_vars, RoutingInv, HandlerInv
  <2>2. handler[t] \in Handler /\ handler[t].pid \in Pids /\ Host[t] \in Workers
    BY <1>1, <2>1, RoutingAssumption DEF TypeInv, Handler
  <2>3. /\ ephemeral[Host[t]][handler[t].pid] \in Nat
        /\ Serves(Host[t], ephemeral[Host[t]][handler[t].pid], handler[t].pid)
    BY <1>1, <1>9, <2>1, <2>2 DEF Fetch, At, HandlerFacts, TypeInv, Serves
  <2>4. /\ \A u \in Threads : u # t => handler'[u] = handler[u]
        /\ handler'[t].store = ephemeral[Host[t]][handler[t].pid]
        /\ handler'[t].pid = handler[t].pid
    BY <1>1, <1>9, <2>2 DEF Fetch, UseStore, Fetched, TypeInv, Handler
  <2> QED  BY <1>1, <2>1, <2>3, <2>4, HandlerStep, IsolationIsKept
<1>10. CASE WriteTrace(t)  BY <1>10, WriteIsolates
<1> QED
  BY <1>2, <1>3, <1>4, <1>5, <1>6, <1>7, <1>8, <1>9, <1>10 DEF Step

LEMMA RestartIsolates ==
    ASSUME RoutingInv, IsolationInv, NEW w \in Workers, Restart(w)  PROVE IsolationInv'
<1>1. \A v \in Workers : \A e \in contents'[v] : e \in contents[v]
  BY DEF Restart, RoutingInv, TypeInv
<1>2. \A u \in Threads : handler'[u] # None => handler'[u] = handler[u]
  BY DEF Restart
<1>3. \A v \in Workers, p \in Pids : ephemeral'[v][p] \in Nat => ephemeral'[v][p] = ephemeral[v][p]
  BY NoneAssumption DEF Restart, RoutingInv, TypeInv
<1>4. NoNewService
  BY <1>1, <1>2, <1>3 DEF NoNewService, Serves
<1>5. made' = made  BY DEF Restart
<1> QED  BY <1>1, <1>4, <1>5, IsolationIsKept DEF RoutingInv, IsolationInv

\* An ephemeral store never mixes the work of two learners, in any worker.
THEOREM EphemeralStoresArePrivate == Spec => []LearnersAreIsolated
<1>1. Init => IsolationInv
  BY NoneAssumption DEF Init, IsolationInv, Serves, Durable
<1>2. RoutingInv /\ IsolationInv /\ [Next]_vars => IsolationInv'
  <2> SUFFICES ASSUME RoutingInv, IsolationInv, [Next]_vars  PROVE IsolationInv'
    OBVIOUS
  <2>1. ASSUME NEW t \in Threads, Step(t)  PROVE IsolationInv'
    BY <2>1, StepIsolates
  <2>2. ASSUME NEW w \in Workers, Restart(w)  PROVE IsolationInv'
    BY <2>2, RestartIsolates
  <2>3. CASE UNCHANGED vars
    BY <2>3 DEF vars, IsolationInv, Serves
  <2> QED  BY <2>1, <2>2, <2>3 DEF Next
<1>3. RoutingInv /\ IsolationInv => LearnersAreIsolated
  <2> SUFFICES ASSUME RoutingInv, IsolationInv, NEW w \in Workers,
                      NEW e \in contents[w], NEW f \in contents[w], e.store = f.store
               PROVE  e.pid = f.pid
    BY DEF LearnersAreIsolated
  <2>1. e \in Write /\ f \in Write  BY DEF RoutingInv, TypeInv
  <2>2. e.pid \in Pids /\ f.pid \in Pids /\ e.store \in Nat \ {Durable}
    BY <2>1 DEF Write, IsolationInv
  <2>3. Serves(w, e.store, e.pid) /\ Serves(w, e.store, f.pid)  BY DEF Serves
  <2> QED  BY <2>2, <2>3 DEF IsolationInv
<1> QED  BY <1>1, <1>2, <1>3, Invariance, PTL DEF Spec
=============================================================================
