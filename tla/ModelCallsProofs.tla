-------------------------- MODULE ModelCallsProofs --------------------------
(***************************************************************************)
(* Theorems about ModelCalls, for every set of worker threads, every cost  *)
(* of a completion and every number of drafts and turns.                   *)
(***************************************************************************)
EXTENDS ModelCalls, TLAPS

\* What the meter m of a turn t holds while the turn is under way.
Counts(m, t) ==
    /\ m.calls["planner"] = IF t.role = "planner" THEN 0 ELSE 1
    /\ m.calls["self_eval"] = t.rounds
    /\ m.calls["reasoner"] =
         t.rounds + (IF t.role = "self_eval" /\ t.stage # "compose" THEN 1 ELSE 0)
    /\ m.tokens = t.used

\* What the provider has billed of it.
Bills(t) ==
    /\ \A r \in Roles : t.used[r] <= t.billed[r]
    /\ ~t.retried /\ t.stage # "reformat" => t.used = t.billed

Fits(m, t) ==
    /\ t.stage = "compose" => t.role = "self_eval"
    /\ Counts(m, t) /\ Bills(t)

\* A turn under way has the meter to itself, and has not replied.
OwnMeter ==
    \A w \in Workers : turn[w] # Absent =>
        /\ turn[w].id <= begun /\ context[w] = turn[w].id
        /\ replies[turn[w].id] = Absent
        /\ Fits(meters[turn[w].id], turn[w])

NotShared ==
    \A v, w \in Workers :
        v # w /\ turn[v] # Absent /\ turn[w] # Absent => turn[v].id # turn[w].id

Unused == \A i \in Turns : i > begun => meters[i] = Blank /\ replies[i] = Absent

CallsInv == TypeInv /\ OwnMeter /\ NotShared /\ Unused /\ UsageIsTheTurnsOwn /\ UsageIsBilled

-----------------------------------------------------------------------------
(* What the operators return.                                              *)

LEMMA PlusIs ==
    ASSUME NEW count \in Count, NEW role \in Roles, NEW n \in Nat
    PROVE  /\ Plus(count, role, n) \in Count
           /\ \A r \in Roles :
                Plus(count, role, n)[r] = count[r] + (IF r = role THEN n ELSE 0)
  BY DEF Plus, Count

LEMMA AddedIs ==
    ASSUME NEW m \in Usage, NEW role \in Roles, NEW n \in Nat
    PROVE  Added(m, role, n) \in Usage
  BY PlusIs DEF Added, Usage

LEMMA BlankIs == None \in Count /\ Blank \in Usage
  BY DEF None, Blank, Count, Usage

LEMMA TurnTypes ==
    ASSUME TypeInv, NEW w \in Workers, turn[w] # Absent
    PROVE  /\ turn[w] \in Turn /\ turn[w].id \in Turns /\ turn[w].role \in Roles
           /\ turn[w].rounds \in Nat /\ turn[w].retried \in BOOLEAN /\ turn[w].stage \in Stages
           /\ turn[w].billed \in Count /\ turn[w].used \in Count
           /\ meters[turn[w].id] \in Usage
<1>1. turn[w] \in Turn  BY DEF TypeInv
<1>2. turn[w].id \in Turns  BY <1>1 DEF Turn
<1>3. meters[turn[w].id] \in Usage  BY <1>2 DEF TypeInv
<1>4. QED  BY <1>1, <1>2, <1>3 DEF Turn

\* A turn that has just begun.
LEMMA FreshFits ==
    ASSUME NEW i \in Turns
    PROVE  LET t == [id |-> i, stage |-> "ask", role |-> "planner",
                     rounds |-> 0, billed |-> None, used |-> None, retried |-> FALSE]
           IN t \in Turn /\ Fits(Blank, t)
  BY BlankIs DEF Turn, Stages, Roles, Fits, Counts, Bills, Blank, None, Count

\* The first answer was of no use: it is billed, and nothing is metered.
LEMMA AfterProseFits ==
    ASSUME TypeInv, NEW w \in Workers, turn[w] # Absent, NEW n \in Nat,
           NEW m, Fits(m, turn[w]), turn[w].stage # "compose"
    PROVE  /\ AfterProse(w, n) \in Turn
           /\ AfterProse(w, n).id = turn[w].id
           /\ Fits(m, AfterProse(w, n))
<1> DEFINE t == turn[w]
           b == Plus(t.billed, t.role, n)
<1>1. t \in Turn /\ t.role \in Roles /\ t.billed \in Count /\ t.used \in Count
  BY TurnTypes
<1>2. b \in Count /\ \A r \in Roles : t.billed[r] <= b[r]
  <2>1. b \in Count /\ \A r \in Roles : b[r] = t.billed[r] + (IF r = t.role THEN n ELSE 0)
    BY <1>1, PlusIs
  <2>2. \A r \in Roles : t.billed[r] \in Nat  BY <1>1 DEF Count
  <2> HIDE DEF b, t
  <2>3. QED  BY <2>1, <2>2
<1>3. AfterProse(w, n) = [t EXCEPT !.stage = "reformat", !.billed = b]
  BY DEF AfterProse
<1>4. Fits(m, t) /\ t.stage # "compose"  OBVIOUS
<1> HIDE DEF b, t
<1> DEFINE u == [t EXCEPT !.stage = "reformat", !.billed = b]
<1>5. u \in Turn  BY <1>1, <1>2 DEF Turn, Stages
<1>6. /\ u.stage = "reformat" /\ u.billed = b /\ u.role = t.role /\ u.id = t.id
      /\ u.rounds = t.rounds /\ u.used = t.used /\ u.retried = t.retried
  BY <1>1 DEF Turn
<1> HIDE DEF u
<1>7. \A r \in Roles : u.used[r] <= u.billed[r]
  <2>1. \A r \in Roles : t.used[r] \in Nat /\ t.billed[r] \in Nat /\ b[r] \in Nat
    BY <1>1, <1>2 DEF Count
  <2>2. \A r \in Roles : t.used[r] <= t.billed[r]  BY <1>4 DEF Fits, Bills
  <2>3. QED  BY <1>2, <1>6, <2>1, <2>2
<1>8. Fits(m, u)
  BY <1>4, <1>6, <1>7 DEF Fits, Counts, Bills
<1>9. QED  BY <1>3, <1>5, <1>6, <1>8 DEF t, u

\* An answer is used: the meter and the turn advance together.
LEMMA FollowingFits ==
    ASSUME TypeInv, NEW w \in Workers, turn[w] # Absent, NEW n \in Nat,
           NEW m \in Usage, Fits(m, turn[w]), turn[w].stage # "compose",
           NEW next \in Following(AfterJson(w, n))
    PROVE  /\ next \in Turn /\ next.id = turn[w].id
           /\ Fits(Added(m, turn[w].role, n), next)
<1> DEFINE t == turn[w]
           b == Plus(t.billed, t.role, n)
           s == Plus(t.used, t.role, n)
           k == IF t.role = "self_eval" THEN t.rounds + 1 ELSE t.rounds
           a == Added(m, t.role, n)
<1>1. /\ t \in Turn /\ t.role \in Roles /\ t.billed \in Count /\ t.used \in Count
      /\ t.rounds \in Nat /\ t.retried \in BOOLEAN /\ t.id \in Turns
  BY TurnTypes
<1>2. m.calls \in Count /\ m.tokens \in Count  BY DEF Usage
<1>3. /\ b \in Count /\ s \in Count
      /\ \A r \in Roles : /\ b[r] = t.billed[r] + (IF r = t.role THEN n ELSE 0)
                          /\ s[r] = t.used[r] + (IF r = t.role THEN n ELSE 0)
  <2> HIDE DEF t
  <2>1. b \in Count /\ \A r \in Roles : b[r] = t.billed[r] + (IF r = t.role THEN n ELSE 0)
    BY <1>1, PlusIs
  <2>2. s \in Count /\ \A r \in Roles : s[r] = t.used[r] + (IF r = t.role THEN n ELSE 0)
    BY <1>1, PlusIs
  <2>3. QED  BY <2>1, <2>2
<1>4. PICK q \in BOOLEAN : q = (t.retried \/ t.stage = "reformat")
  BY <1>1
<1>5. AfterJson(w, n) = [t EXCEPT !.billed = b, !.used = s, !.retried = q, !.rounds = k]
  BY <1>4 DEF AfterJson
<1>6. Fits(m, t) /\ t.stage # "compose"  OBVIOUS
<1>7. /\ a.tokens = Plus(m.tokens, t.role, n)
      /\ \A r \in Roles : a.calls[r] = m.calls[r] + (IF r = t.role THEN 1 ELSE 0)
  <2> DEFINE old == m.calls
             role == t.role
             c == Plus(old, role, 1)
  <2>1. a.tokens = Plus(m.tokens, role, n) /\ a.calls = c  BY DEF Added
  <2>2. old \in Count /\ role \in Roles /\ 1 \in Nat  BY <1>1, <1>2
  <2> HIDE DEF old, role, a
  <2>3. \A r \in Roles : c[r] = old[r] + (IF r = role THEN 1 ELSE 0)
    BY <2>2, PlusIs
  <2> HIDE DEF c
  <2>4. QED  BY <2>1, <2>3 DEF old, role
<1>8. a.tokens = s  BY <1>6, <1>7 DEF Fits, Counts
<1>9. k \in Nat  BY <1>1
<1> HIDE DEF t, b, s, k, a
<1>10. \A r \in Roles : s[r] <= b[r]
  <2>1. \A r \in Roles : /\ t.used[r] \in Nat /\ t.billed[r] \in Nat
                         /\ t.used[r] <= t.billed[r]
    BY <1>1, <1>6 DEF Count, Fits, Bills
  <2>2. QED  BY <1>3, <2>1
<1>11. ~q => s = b
  <2>1. ~q => t.used = t.billed  BY <1>4, <1>6 DEF Fits, Bills
  <2>2. QED  BY <2>1 DEF s, b
<1> DEFINE v == [t EXCEPT !.billed = b, !.used = s, !.retried = q, !.rounds = k]
<1>12. /\ v \in Turn /\ v.billed = b /\ v.used = s /\ v.retried = q /\ v.rounds = k
       /\ v.role = t.role /\ v.id = t.id
  BY <1>1, <1>3, <1>4, <1>9 DEF Turn
<1>13. next \in Following(v)  BY <1>5
<1> HIDE DEF v
<1>14. PICK stage \in {"ask", "compose"}, role \in Roles :
         /\ next = [v EXCEPT !.stage = stage, !.role = role]
         /\ t.role = "planner" => stage = "ask" /\ role = "reasoner"
         /\ t.role = "reasoner" => stage = "ask" /\ role = "self_eval"
         /\ t.role = "self_eval" => (stage = "compose" /\ role = "self_eval")
                                    \/ (stage = "ask" /\ role = "reasoner")
  <2>1. CASE t.role = "planner"
    <3>1. next = [v EXCEPT !.stage = "ask", !.role = "reasoner"]
      BY <1>12, <1>13, <2>1 DEF Following
    <3>2. QED  BY <2>1, <3>1 DEF Roles
  <2>2. CASE t.role = "reasoner"
    <3>1. next = [v EXCEPT !.stage = "ask", !.role = "self_eval"]
      BY <1>12, <1>13, <2>2 DEF Following
    <3>2. QED  BY <2>2, <3>1 DEF Roles
  <2>3. CASE t.role = "self_eval"
    <3>1. \/ next = [v EXCEPT !.stage = "compose"]
          \/ next = [v EXCEPT !.stage = "ask", !.role = "reasoner"]
      BY <1>12, <1>13, <2>3 DEF Following
    <3>2. [v EXCEPT !.stage = "compose"] = [v EXCEPT !.stage = "compose", !.role = "self_eval"]
      BY <1>12, <2>3 DEF Turn
    <3>3. QED  BY <2>3, <3>1, <3>2 DEF Roles
  <2>4. QED  BY <1>1, <2>1, <2>2, <2>3 DEF Roles
<1>15. /\ next \in Turn /\ next.stage = stage /\ next.role = role /\ next.id = t.id
       /\ next.billed = b /\ next.used = s /\ next.retried = q /\ next.rounds = k
  BY <1>12, <1>14 DEF Turn, Stages
<1>16. Counts(a, next)
  <2>1. /\ m.calls["planner"] = IF t.role = "planner" THEN 0 ELSE 1
        /\ m.calls["self_eval"] = t.rounds
        /\ m.calls["reasoner"] = t.rounds + (IF t.role = "self_eval" THEN 1 ELSE 0)
    BY <1>6 DEF Fits, Counts
  <2>2. /\ a.calls["planner"] = m.calls["planner"] + (IF t.role = "planner" THEN 1 ELSE 0)
        /\ a.calls["self_eval"] = m.calls["self_eval"] + (IF t.role = "self_eval" THEN 1 ELSE 0)
        /\ a.calls["reasoner"] = m.calls["reasoner"] + (IF t.role = "reasoner" THEN 1 ELSE 0)
    BY <1>7 DEF Roles
  <2>3. t.role \in {"planner", "reasoner", "self_eval"}  BY <1>1 DEF Roles
  <2>4. k = t.rounds + (IF t.role = "self_eval" THEN 1 ELSE 0)  BY <1>1 DEF k
  <2>5. /\ a.calls["planner"] = IF role = "planner" THEN 0 ELSE 1
        /\ a.calls["self_eval"] = k
        /\ a.calls["reasoner"] =
             k + (IF role = "self_eval" /\ stage # "compose" THEN 1 ELSE 0)
    BY <1>1, <1>14, <2>1, <2>2, <2>3, <2>4
  <2>6. QED  BY <1>8, <1>15, <2>5 DEF Counts
<1>17. Bills(next)  BY <1>10, <1>11, <1>15 DEF Bills
<1>18. next.stage = "compose" => next.role = "self_eval"
  BY <1>1, <1>14, <1>15 DEF Roles
<1>19. QED  BY <1>15, <1>16, <1>17, <1>18 DEF Fits, t, a

-----------------------------------------------------------------------------
(* The invariant.                                                          *)

LEMMA InitCalls == Init => CallsInv
<1> SUFFICES ASSUME Init PROVE CallsInv
  OBVIOUS
<1>1. TypeInv  BY BlankIs, CallsAssumption DEF Init, TypeInv
<1>2. OwnMeter /\ NotShared  BY DEF Init, OwnMeter, NotShared
<1>3. Unused  BY DEF Init, Unused
<1>4. UsageIsTheTurnsOwn /\ UsageIsBilled
  BY DEF Init, UsageIsTheTurnsOwn, UsageIsBilled, Answered
<1>5. QED  BY <1>1, <1>2, <1>3, <1>4 DEF CallsInv

\* The properties look at replies only.
LEMMA RepliesKept ==
    ASSUME UsageIsTheTurnsOwn, UsageIsBilled, UNCHANGED replies
    PROVE  UsageIsTheTurnsOwn' /\ UsageIsBilled'
  BY DEF UsageIsTheTurnsOwn, UsageIsBilled, Answered

\* A step of one worker's turn t, which goes on as next.
LEMMA TurnGoesOn ==
    ASSUME CallsInv, NEW w \in Workers, turn[w] # Absent, NEW next \in Turn, NEW m \in Usage,
           next.id = turn[w].id, Fits(m, next),
           turn' = [turn EXCEPT ![w] = next],
           meters' = [meters EXCEPT ![turn[w].id] = m],
           UNCHANGED <<provider, context, begun, replies>>
    PROVE  CallsInv'
<1>1. TypeInv /\ OwnMeter /\ NotShared /\ Unused  BY DEF CallsInv
<1>2. turn[w].id \in Turns  BY <1>1, TurnTypes
<1>3. next # Absent  BY AbsentAssumption
<1>4. TypeInv'  BY <1>1, <1>2 DEF TypeInv
<1>5. \A v \in Workers : turn'[v] = IF v = w THEN next ELSE turn[v]
  BY <1>1 DEF TypeInv
<1>6. \A i \in Turns : meters'[i] = IF i = turn[w].id THEN m ELSE meters[i]
  BY <1>1 DEF TypeInv
<1>7. NotShared'  BY <1>1, <1>3, <1>5 DEF NotShared
<1>8. OwnMeter'
  <2> SUFFICES ASSUME NEW v \in Workers, turn'[v] # Absent
               PROVE  /\ turn'[v].id <= begun /\ context[v] = turn'[v].id
                      /\ replies[turn'[v].id] = Absent
                      /\ Fits(meters'[turn'[v].id], turn'[v])
    BY DEF OwnMeter, Fits, Counts, Bills
  <2>1. CASE v = w
    BY <1>1, <1>2, <1>5, <1>6, <2>1 DEF OwnMeter
  <2>2. CASE v # w
    <3>1. turn'[v] = turn[v] /\ turn[v] # Absent  BY <1>5, <2>2
    <3>2. turn[v].id # turn[w].id /\ turn[v].id \in Turns
      BY <1>1, <2>2, <3>1, TurnTypes DEF NotShared
    <3>3. meters'[turn'[v].id] = meters[turn[v].id]  BY <1>6, <3>1, <3>2
    <3>4. QED  BY <1>1, <3>1, <3>3 DEF OwnMeter
  <2>3. QED  BY <2>1, <2>2
<1>9. Unused'
  <2>1. turn[w].id <= begun  BY <1>1 DEF OwnMeter
  <2>2. begun \in Nat /\ turn[w].id \in Nat  BY <1>1, <1>2 DEF TypeInv, Turns
  <2>3. \A i \in Turns : i > begun => i # turn[w].id
    BY <2>1, <2>2 DEF Turns
  <2>4. QED  BY <1>1, <1>6, <2>3 DEF Unused
<1>10. UsageIsTheTurnsOwn' /\ UsageIsBilled'  BY RepliesKept DEF CallsInv
<1>11. QED  BY <1>4, <1>7, <1>8, <1>9, <1>10 DEF CallsInv

\* A turn is over, whether it replied or not: the others keep their meters.
LEMMA TurnIsOver ==
    ASSUME CallsInv, NEW w \in Workers, turn[w] # Absent, End(w),
           UNCHANGED <<provider, begun>>,
           replies' \in [Turns -> Reply \cup {Absent}],
           \A i \in Turns : i # turn[w].id => replies'[i] = replies[i]
    PROVE  TypeInv' /\ OwnMeter' /\ NotShared' /\ Unused'
<1>1. TypeInv /\ OwnMeter /\ NotShared /\ Unused  BY DEF CallsInv
<1>2. turn[w].id \in Turns  BY <1>1, TurnTypes
<1>3. TypeInv'  BY <1>1, <1>2, BlankIs DEF TypeInv, End
<1>4. \A v \in Workers : /\ turn'[v] = IF v = w THEN Absent ELSE turn[v]
                         /\ v # w => context'[v] = context[v]
  BY <1>1 DEF TypeInv, End
<1>5. \A i \in Turns : meters'[i] = IF i = turn[w].id THEN Blank ELSE meters[i]
  BY <1>1 DEF TypeInv, End
<1>6. NotShared'  BY <1>1, <1>4 DEF NotShared
<1>7. OwnMeter'
  <2> SUFFICES ASSUME NEW v \in Workers, turn'[v] # Absent
               PROVE  /\ turn'[v].id <= begun /\ context'[v] = turn'[v].id
                      /\ replies'[turn'[v].id] = Absent
                      /\ Fits(meters'[turn'[v].id], turn'[v])
    BY DEF OwnMeter, Fits, Counts, Bills
  <2>1. v # w /\ turn'[v] = turn[v] /\ turn[v] # Absent  BY <1>4
  <2>2. turn[v].id # turn[w].id /\ turn[v].id \in Turns
    BY <1>1, <2>1, TurnTypes DEF NotShared
  <2>3. meters'[turn'[v].id] = meters[turn[v].id] /\ replies'[turn'[v].id] = replies[turn[v].id]
    BY <1>5, <2>1, <2>2
  <2>4. QED  BY <1>1, <1>4, <2>1, <2>3 DEF OwnMeter
<1>8. Unused'
  <2>1. turn[w].id <= begun  BY <1>1 DEF OwnMeter
  <2>2. begun \in Nat /\ turn[w].id \in Nat  BY <1>1, <1>2 DEF TypeInv, Turns
  <2>3. \A i \in Turns : i > begun => i # turn[w].id
    BY <2>1, <2>2 DEF Turns
  <2>4. QED  BY <1>1, <1>5, <2>3 DEF Unused
<1>9. QED  BY <1>3, <1>6, <1>7, <1>8

LEMMA EndCalls ==
    ASSUME CallsInv, NEW w \in Workers, turn[w] # Absent, End(w),
           UNCHANGED <<provider, begun, replies>>
    PROVE  CallsInv'
<1>1. replies' \in [Turns -> Reply \cup {Absent}]  BY DEF CallsInv, TypeInv
<1>2. TypeInv' /\ OwnMeter' /\ NotShared' /\ Unused'  BY <1>1, TurnIsOver
<1>3. QED  BY <1>2, RepliesKept DEF CallsInv

LEMMA BeginCalls ==
    ASSUME CallsInv, NEW w \in Workers, Begin(w)
    PROVE  CallsInv'
<1> DEFINE n == begun + 1
           t == [id |-> begun + 1, stage |-> "ask", role |-> "planner",
                 rounds |-> 0, billed |-> None, used |-> None, retried |-> FALSE]
<1>1. TypeInv /\ OwnMeter /\ NotShared /\ Unused  BY DEF CallsInv
<1>2. /\ turn[w] = Absent /\ begun < MaxTurns /\ begun' = n
      /\ turn' = [turn EXCEPT ![w] = t] /\ context' = [context EXCEPT ![w] = n]
      /\ UNCHANGED <<provider, meters, replies>>
  BY DEF Begin
<1>3. begun \in Nat /\ MaxTurns \in Nat  BY <1>1, CallsAssumption DEF TypeInv
<1>4. n \in Turns /\ n \in 0..MaxTurns  BY <1>2, <1>3 DEF Turns
<1>5. t \in Turn /\ t.id = n /\ Fits(Blank, t)  BY <1>4, FreshFits
<1>6. meters[n] = Blank /\ replies[n] = Absent  BY <1>1, <1>3, <1>4 DEF Unused
<1>7. t # Absent  BY <1>5, AbsentAssumption
<1>10. \A v \in Workers : turn[v] # Absent => turn[v].id \in Turns /\ turn[v].id <= begun
  BY <1>1, TurnTypes DEF OwnMeter
<1>11. \A v \in Workers : turn[v] # Absent => turn[v].id # n /\ turn[v].id <= n
  BY <1>3, <1>10 DEF Turns
<1>12. \A i \in Turns : i > n => i > begun  BY <1>3 DEF Turns
<1>13. n <= n  BY <1>3
<1> HIDE DEF n, t
<1>14. TypeInv'  BY <1>1, <1>2, <1>4, <1>5 DEF TypeInv
<1>15. \A v \in Workers : /\ turn'[v] = IF v = w THEN t ELSE turn[v]
                          /\ context'[v] = IF v = w THEN n ELSE context[v]
  BY <1>1, <1>2 DEF TypeInv
<1>16. NotShared'  BY <1>1, <1>5, <1>11, <1>15 DEF NotShared
<1>17. OwnMeter'
  <2> SUFFICES ASSUME NEW v \in Workers, turn'[v] # Absent
               PROVE  /\ turn'[v].id <= n /\ context'[v] = turn'[v].id
                      /\ replies[turn'[v].id] = Absent
                      /\ Fits(meters[turn'[v].id], turn'[v])
    BY <1>2 DEF OwnMeter, Fits, Counts, Bills
  <2>1. CASE v = w  BY <1>5, <1>6, <1>13, <1>15, <2>1
  <2>2. CASE v # w  BY <1>1, <1>11, <1>15, <2>2 DEF OwnMeter
  <2>3. QED  BY <2>1, <2>2
<1>18. Unused'  BY <1>1, <1>2, <1>12 DEF Unused
<1>19. UsageIsTheTurnsOwn' /\ UsageIsBilled'  BY <1>2, RepliesKept DEF CallsInv
<1>20. QED  BY <1>14, <1>16, <1>17, <1>18, <1>19 DEF CallsInv

\* The reply repeats what the meter and the turn agree on.
LEMMA ComposeCalls ==
    ASSUME CallsInv, NEW w \in Workers, Compose(w)
    PROVE  CallsInv'
<1> DEFINE t == turn[w]
           i == t.id
           r == [usage |-> meters[i], rounds |-> t.rounds, billed |-> t.billed,
                 used |-> t.used, retried |-> t.retried]
<1>1. TypeInv /\ OwnMeter  BY DEF CallsInv
<1>2. t # Absent /\ t.stage = "compose" /\ End(w) /\ UNCHANGED <<provider, begun>>
  BY DEF Compose
<1>3. context[w] = i /\ Fits(meters[i], t)  BY <1>1, <1>2 DEF OwnMeter
<1>4. replies' = [replies EXCEPT ![i] = r]  BY <1>3 DEF Compose, Meter
<1>5. /\ i \in Turns /\ t.rounds \in Nat /\ t.retried \in BOOLEAN
      /\ t.billed \in Count /\ t.used \in Count /\ meters[i] \in Usage
  BY <1>1, <1>2, TurnTypes
<1>6. r \in Reply  BY <1>5 DEF Reply
<1>7. replies' \in [Turns -> Reply \cup {Absent}]
      /\ \A j \in Turns : replies'[j] = IF j = i THEN r ELSE replies[j]
  BY <1>1, <1>4, <1>6 DEF TypeInv
<1>8. TypeInv' /\ OwnMeter' /\ NotShared' /\ Unused'
  BY <1>2, <1>7, TurnIsOver
<1>9. /\ r.usage.calls["planner"] = 1
      /\ r.usage.calls["reasoner"] = r.rounds
      /\ r.usage.calls["self_eval"] = r.rounds
      /\ r.usage.tokens = r.used
  <2>1. t.role = "self_eval"  BY <1>2, <1>3 DEF Fits
  <2>2. QED  BY <1>2, <1>3, <1>5, <2>1 DEF Fits, Counts
<1>10. /\ \A role \in Roles : r.usage.tokens[role] <= r.billed[role]
       /\ ~r.retried => r.usage.tokens = r.billed
  BY <1>2, <1>3, <1>9 DEF Fits, Bills
<1> HIDE DEF r
<1>11. UsageIsTheTurnsOwn'
  BY <1>7, <1>9 DEF CallsInv, UsageIsTheTurnsOwn, Answered
<1>12. UsageIsBilled'
  BY <1>7, <1>10 DEF CallsInv, UsageIsBilled, Answered
<1>13. QED  BY <1>8, <1>11, <1>12 DEF CallsInv

LEMMA NextCalls == CallsInv /\ [Next]_vars => CallsInv'
<1> SUFFICES ASSUME CallsInv, [Next]_vars PROVE CallsInv'
  OBVIOUS
<1>0. TypeInv /\ OwnMeter  BY DEF CallsInv
<1>1. ASSUME NEW w \in Workers, Begin(w) PROVE CallsInv'  BY <1>1, BeginCalls
<1>2. ASSUME NEW w \in Workers, NEW a \in Answer, AnswerProse(w, a) PROVE CallsInv'
  <2>1. turn[w] # Absent /\ turn[w].stage # "compose" /\ UNCHANGED <<provider, begun, replies>>
    BY <1>2 DEF AnswerProse, Waits
  <2>2. a.tokens \in Nat  BY CallsAssumption DEF Answer
  <2>3. CASE turn' = [turn EXCEPT ![w] = AfterProse(w, a.tokens)]
             /\ UNCHANGED <<context, meters>>
    <3> DEFINE m == meters[turn[w].id]
    <3>1. m \in Usage /\ Fits(m, turn[w])  BY <1>0, <2>1, TurnTypes DEF OwnMeter
    <3>2. /\ AfterProse(w, a.tokens) \in Turn
          /\ AfterProse(w, a.tokens).id = turn[w].id
          /\ Fits(m, AfterProse(w, a.tokens))
      BY <1>0, <2>1, <2>2, <3>1, AfterProseFits
    <3>3. meters' = [meters EXCEPT ![turn[w].id] = m]
      BY <1>0, <2>3 DEF TypeInv
    <3> HIDE DEF m
    <3>4. QED  BY <2>1, <2>3, <3>1, <3>2, <3>3, TurnGoesOn
  <2>4. CASE End(w)  BY <2>1, <2>4, EndCalls
  <2>5. QED  BY <1>2, <2>3, <2>4 DEF AnswerProse
<1>3. ASSUME NEW w \in Workers, NEW a \in Answer, AnswerJson(w, a) PROVE CallsInv'
  <2>1. turn[w] # Absent /\ turn[w].stage # "compose" /\ UNCHANGED <<provider, begun, replies>>
    BY <1>3 DEF AnswerJson, Waits
  <2>2. a.tokens \in Nat  BY CallsAssumption DEF Answer
  <2>3. ASSUME NEW next \in Following(AfterJson(w, a.tokens)),
               turn' = [turn EXCEPT ![w] = next],
               meters' = [meters EXCEPT ![Meter(w)] = Added(@, turn[w].role, a.tokens)],
               UNCHANGED context
        PROVE  CallsInv'
    <3> DEFINE m == meters[turn[w].id]
               n == Added(m, turn[w].role, a.tokens)
    <3>1. /\ m \in Usage /\ Fits(m, turn[w]) /\ turn[w].role \in Roles
          /\ context[w] = turn[w].id
      BY <1>0, <2>1, TurnTypes DEF OwnMeter
    <3>2. next \in Turn /\ next.id = turn[w].id /\ Fits(n, next)
      BY <1>0, <2>1, <2>2, <3>1, FollowingFits
    <3>3. n \in Usage  BY <2>2, <3>1, AddedIs
    <3>4. meters' = [meters EXCEPT ![turn[w].id] = n]
      BY <2>3, <3>1 DEF Meter
    <3> HIDE DEF m, n
    <3>5. QED  BY <2>1, <2>3, <3>2, <3>3, <3>4, TurnGoesOn
  <2>4. CASE End(w)  BY <2>1, <2>4, EndCalls
  <2>5. QED  BY <1>3, <2>3, <2>4 DEF AnswerJson
<1>4. ASSUME NEW w \in Workers, Raise(w) PROVE CallsInv'
  <2>1. turn[w] # Absent /\ turn[w].stage # "compose" /\ UNCHANGED <<provider, begun, replies>>
    BY <1>4 DEF Raise, Waits
  <2>2. CASE /\ turn[w].stage = "ask" /\ turn' = [turn EXCEPT ![w].stage = "plain"]
             /\ UNCHANGED <<context, meters>>
    <3> DEFINE t == turn[w]
               m == meters[t.id]
               next == [t EXCEPT !.stage = "plain"]
    <3>1. t \in Turn /\ m \in Usage /\ Fits(m, t)  BY <1>0, <2>1, TurnTypes DEF OwnMeter
    <3>2. turn' = [turn EXCEPT ![w] = next] /\ meters' = [meters EXCEPT ![t.id] = m]
      BY <1>0, <2>2 DEF TypeInv
    <3>3. t.stage = "ask"  BY <2>2
    <3> HIDE DEF t, m
    <3>4. /\ next \in Turn /\ next.id = t.id /\ next.stage = "plain" /\ next.role = t.role
          /\ next.rounds = t.rounds /\ next.billed = t.billed /\ next.used = t.used
          /\ next.retried = t.retried
      BY <3>1 DEF Turn, Stages
    <3> HIDE DEF next
    <3>5. Fits(m, next)  BY <3>1, <3>3, <3>4 DEF Fits, Counts, Bills
    <3>6. next.id = turn[w].id /\ meters' = [meters EXCEPT ![turn[w].id] = m]
      BY <3>2, <3>4 DEF t
    <3>7. QED  BY <2>1, <2>2, <3>1, <3>2, <3>4, <3>5, <3>6, TurnGoesOn
  <2>3. CASE End(w)  BY <2>1, <2>3, EndCalls
  <2>4. QED  BY <1>4, <2>2, <2>3 DEF Raise
<1>5. ASSUME NEW w \in Workers, Compose(w) PROVE CallsInv'  BY <1>5, ComposeCalls
<1>6. ASSUME NEW w \in Workers, Fail(w) PROVE CallsInv'  BY <1>6, EndCalls DEF Fail
<1>7. CASE UNCHANGED vars
  <2>1. TypeInv'  BY <1>0, <1>7 DEF TypeInv, vars
  <2>2. OwnMeter' /\ NotShared' /\ Unused'
    BY <1>7 DEF CallsInv, OwnMeter, NotShared, Unused, vars, Fits, Counts, Bills
  <2>3. UsageIsTheTurnsOwn' /\ UsageIsBilled'  BY <1>7, RepliesKept DEF CallsInv, vars
  <2>4. QED  BY <2>1, <2>2, <2>3 DEF CallsInv
<1>8. QED  BY <1>1, <1>2, <1>3, <1>4, <1>5, <1>6, <1>7 DEF Next, Serve

LEMMA CallsInvariant == Spec => []CallsInv
  BY InitCalls, NextCalls, PTL DEF Spec

-----------------------------------------------------------------------------
(* Theorems.                                                               *)

\* Type correctness: among other things a context variable holds no meter but that of
\* a turn, and no turn past MaxTurns begins.
THEOREM CallsTypes == Spec => []TypeInv
  BY CallsInvariant, PTL DEF CallsInv

\* However many workers serve turns side by side and wherever turns fail, a reply's
\* usage counts the calls of its own turn, and all of them.
THEOREM UsageIsOwn == Spec => []UsageIsTheTurnsOwn
  BY CallsInvariant, PTL DEF CallsInv

\* No reply reports more than was billed, and only a repeated request makes it less.
THEOREM UsageIsCovered == Spec => []UsageIsBilled
  BY CallsInvariant, PTL DEF CallsInv
=============================================================================
