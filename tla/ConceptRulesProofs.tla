------------------------- MODULE ConceptRulesProofs -------------------------
(***************************************************************************)
(* Lemmas about the rules of ConceptRules, shared by the proofs about the  *)
(* modules that apply them.                                                *)
(***************************************************************************)
EXTENDS ConceptRules, TLAPS

-----------------------------------------------------------------------------
(* What each rule of update_concepts does to one entry.  "Keeps" is the    *)
(* relation every rule but Solve's promotion satisfies between the maps    *)
(* before and after it.                                                    *)

\* No entry disappears, no evidence is lost, and a firm entry stays firm.
Keeps(m, n) ==
    \A c \in Concepts :
        m[c] # Absent =>
            /\ n[c] # Absent
            /\ n[c].evidence >= m[c].evidence
            /\ Firm(m[c]) => Firm(n[c])

LEMMA EntryOfType ==
    ASSUME NEW m \in ConceptMap, NEW c \in Concepts
    PROVE  EntryOf(m, c) \in Entry
  BY DEF ConceptMap, EntryOf, DefaultEntry, Entry

LEMMA EntryNotAbsent == ASSUME NEW e \in Entry PROVE e # Absent
  BY AbsentAssumption DEF Entry

\* Replacing one entry by one with no less evidence, and no less firm, keeps all.
LEMMA UpdateKeeps ==
    ASSUME NEW m \in ConceptMap, NEW c \in Concepts, NEW e \in Entry,
           m[c] # Absent => e.evidence >= m[c].evidence /\ (Firm(m[c]) => Firm(e))
    PROVE  Keeps(m, [m EXCEPT ![c] = e])
<1> DEFINE n == [m EXCEPT ![c] = e]
<1>1. n[c] = e /\ \A d \in Concepts \ {c} : n[d] = m[d]  BY DEF ConceptMap
<1>2. e # Absent  BY EntryNotAbsent
<1> HIDE DEF n
<1>3. SUFFICES ASSUME NEW d \in Concepts, m[d] # Absent
               PROVE  /\ n[d] # Absent
                      /\ n[d].evidence >= m[d].evidence
                      /\ Firm(m[d]) => Firm(n[d])
  BY DEF Keeps, n
<1>4. CASE d = c  BY <1>1, <1>2, <1>3, <1>4
<1>5. CASE d # c
  <2>1. m[d].evidence \in Nat  BY <1>3 DEF ConceptMap, Entry
  <2>2. n[d] = m[d]  BY <1>1, <1>5
  <2>3. QED  BY <1>3, <2>1, <2>2
<1>6. QED  BY <1>4, <1>5

\* Doing nothing keeps all.
LEMMA KeepsSame == ASSUME NEW m \in ConceptMap PROVE Keeps(m, m)
<1>1. SUFFICES ASSUME NEW d \in Concepts, m[d] # Absent
               PROVE  m[d].evidence >= m[d].evidence
  BY DEF Keeps
<1>2. m[d].evidence \in Nat  BY <1>1 DEF ConceptMap, Entry
<1>3. QED  BY <1>2

LEMMA KeepsTransitive ==
    ASSUME NEW k \in ConceptMap, NEW m \in ConceptMap, NEW n \in ConceptMap,
           Keeps(k, m), Keeps(m, n)
    PROVE  Keeps(k, n)
<1>1. SUFFICES ASSUME NEW d \in Concepts, k[d] # Absent
               PROVE  /\ n[d] # Absent
                      /\ n[d].evidence >= k[d].evidence
                      /\ Firm(k[d]) => Firm(n[d])
  BY DEF Keeps
<1>2. /\ m[d] # Absent /\ m[d].evidence >= k[d].evidence
      /\ Firm(k[d]) => Firm(m[d])
  BY <1>1 DEF Keeps
<1>3. /\ n[d] # Absent /\ n[d].evidence >= m[d].evidence
      /\ Firm(m[d]) => Firm(n[d])
  BY <1>2 DEF Keeps
<1>4. /\ k[d].evidence \in Nat /\ m[d].evidence \in Nat /\ n[d].evidence \in Nat
  BY <1>1, <1>2, <1>3 DEF ConceptMap, Entry
<1>5. QED  BY <1>2, <1>3, <1>4

\* Rule 1 counts the touch on the own concept and leaves its state alone.
LEMMA TouchRule ==
    ASSUME NEW m \in ConceptMap, NEW ex \in Exercises
    PROVE  /\ Touch(m, ex) \in ConceptMap
           /\ Keeps(m, Touch(m, ex))
           /\ \A c \in Concepts : OwnConcept[ex] = c =>
                /\ Touch(m, ex)[c] # Absent
                /\ Touch(m, ex)[c].evidence = EntryOf(m, c).evidence + 1
                /\ Touch(m, ex)[c].state = EntryOf(m, c).state
<1>1. CASE OwnConcept[ex] = None
  <2>1. Touch(m, ex) = m  BY <1>1 DEF Touch
  <2>2. \A c \in Concepts : OwnConcept[ex] # c  BY <1>1, ConceptAssumption
  <2>3. QED  BY <2>1, <2>2, KeepsSame
<1>2. CASE OwnConcept[ex] # None
  <2>1. PICK own \in Concepts : own = OwnConcept[ex]  BY <1>2, ConceptAssumption
  <2>2. EntryOf(m, own) \in Entry  BY EntryOfType
  <2>3. PICK e \in Entry :
            /\ e = [EntryOf(m, own) EXCEPT !.evidence = EntryOf(m, own).evidence + 1]
            /\ e.evidence = EntryOf(m, own).evidence + 1
            /\ e.state = EntryOf(m, own).state
    <3> DEFINE f == [EntryOf(m, own) EXCEPT !.evidence = EntryOf(m, own).evidence + 1]
    <3>1. /\ f \in Entry
          /\ f.evidence = EntryOf(m, own).evidence + 1
          /\ f.state = EntryOf(m, own).state
      BY <2>2 DEF Entry
    <3>2. QED  BY <3>1
  <2>4. Touch(m, ex) = [m EXCEPT ![own] = e]  BY <1>2, <2>1, <2>3 DEF Touch
  <2>5. m[own] # Absent => e.evidence >= m[own].evidence /\ (Firm(m[own]) => Firm(e))
    <3>1. m[own] # Absent => EntryOf(m, own) = m[own]  BY DEF EntryOf
    <3>2. m[own] # Absent => m[own].evidence \in Nat  BY DEF ConceptMap, Entry
    <3>3. QED  BY <2>3, <3>1, <3>2 DEF Firm
  <2>6. Touch(m, ex) \in ConceptMap /\ Touch(m, ex)[own] = e
    BY <2>4 DEF ConceptMap
  <2>7. Keeps(m, Touch(m, ex))  BY <2>4, <2>5, UpdateKeeps
  <2>8. e # Absent  BY EntryNotAbsent
  <2>9. QED  BY <2>1, <2>3, <2>6, <2>7, <2>8
<1>3. QED  BY <1>1, <1>2

\* Rule 2 promotes the own concept of a met goal, which Touch has made present.
LEMMA SolveRule ==
    ASSUME NEW m \in ConceptMap, NEW ex \in Exercises, NEW met \in BOOLEAN,
           \A c \in Concepts : OwnConcept[ex] = c => m[c] # Absent
    PROVE  /\ Solve(m, ex, met) \in ConceptMap
           /\ Keeps(m, Solve(m, ex, met))
           /\ \A c \in Concepts : met /\ OwnConcept[ex] = c =>
                /\ Solve(m, ex, met)[c].state = "grasped"
                /\ Solve(m, ex, met)[c].evidence = m[c].evidence
<1>1. CASE ~(met /\ OwnConcept[ex] # None)
  <2>1. Solve(m, ex, met) = m  BY <1>1 DEF Solve
  <2>2. \A c \in Concepts : ~(met /\ OwnConcept[ex] = c)  BY <1>1, ConceptAssumption
  <2>3. QED  BY <2>1, <2>2, KeepsSame
<1>2. CASE met /\ OwnConcept[ex] # None
  <2>1. PICK own \in Concepts : own = OwnConcept[ex]  BY <1>2, ConceptAssumption
  <2>2. m[own] \in Entry  BY <2>1 DEF ConceptMap
  <2>3. PICK e \in Entry :
            /\ e = [m[own] EXCEPT !.state = "grasped"]
            /\ e.state = "grasped"
            /\ e.evidence = m[own].evidence
    <3> DEFINE f == [m[own] EXCEPT !.state = "grasped"]
    <3>1. f \in Entry /\ f.state = "grasped" /\ f.evidence = m[own].evidence
      BY <2>2 DEF Entry
    <3>2. QED  BY <3>1
  <2>4. Solve(m, ex, met) = [m EXCEPT ![own] = e]  BY <1>2, <2>1, <2>3 DEF Solve
  <2>5. e.evidence >= m[own].evidence /\ (Firm(m[own]) => Firm(e))
    <3>1. m[own].evidence \in Nat  BY <2>2 DEF Entry
    <3>2. QED  BY <2>3, <3>1 DEF Firm
  <2>6. Solve(m, ex, met) \in ConceptMap /\ Solve(m, ex, met)[own] = e
    BY <2>4 DEF ConceptMap
  <2>7. Keeps(m, Solve(m, ex, met))  BY <2>4, <2>5, UpdateKeeps
  <2>8. QED  BY <2>1, <2>3, <2>6, <2>7
<1>3. QED  BY <1>1, <1>2

\* Rules 3 to 5 lose nothing: they demote only entries that are not firm.
LEMMA MisconceiveRule ==
    ASSUME NEW m \in ConceptMap, NEW mid \in Misconceptions \cup {None}
    PROVE  Misconceive(m, mid) \in ConceptMap /\ Keeps(m, Misconceive(m, mid))
<1>1. CASE mid = None \/ Firm(EntryOf(m, MisconceptionOf[mid]))
  <2>1. Misconceive(m, mid) = m  BY <1>1 DEF Misconceive
  <2>2. QED  BY <2>1, KeepsSame
<1>2. CASE mid # None /\ ~Firm(EntryOf(m, MisconceptionOf[mid]))
  <2>1. PICK c \in Concepts : c = MisconceptionOf[mid]  BY <1>2, ConceptAssumption
  <2> DEFINE old == EntryOf(m, c)
             k == IF m[c] = Absent THEN 1 ELSE old.evidence
             f == [old EXCEPT !.state = "shaky", !.evidence = k]
  <2>2. old \in Entry /\ k \in Nat /\ (m[c] # Absent => k = m[c].evidence)
    <3>1. old \in Entry  BY EntryOfType
    <3>2. QED  BY <3>1 DEF Entry, EntryOf
  <2>3. Misconceive(m, mid) = [m EXCEPT ![c] = f]  BY <1>2, <2>1 DEF Misconceive
  <2>4. f \in Entry /\ f.evidence = k
    <3> HIDE DEF old, k
    <3>1. QED  BY <2>2 DEF Entry
  <2>5. m[c] # Absent => ~Firm(m[c])  BY <1>2, <2>1 DEF EntryOf
  <2>6. m[c] # Absent => f.evidence >= m[c].evidence /\ (Firm(m[c]) => Firm(f))
    <3> HIDE DEF f, k, old
    <3>1. QED  BY <2>2, <2>4, <2>5
  <2>7. Keeps(m, Misconceive(m, mid))
    <3> HIDE DEF f
    <3>1. QED  BY <2>3, <2>4, <2>6, UpdateKeeps
  <2>8. Misconceive(m, mid) \in ConceptMap
    <3> HIDE DEF f
    <3>1. QED  BY <2>3, <2>4 DEF ConceptMap
  <2>9. QED  BY <2>7, <2>8
<1>3. QED  BY <1>1, <1>2

LEMMA RepeatRule ==
    ASSUME NEW m \in ConceptMap, NEW ex \in Exercises,
           NEW repeated \in BOOLEAN, NEW met \in BOOLEAN
    PROVE  /\ Repeat(m, ex, repeated, met) \in ConceptMap
           /\ Keeps(m, Repeat(m, ex, repeated, met))
<1> DEFINE own == OwnConcept[ex]
           act == repeated /\ ~met /\ own # None /\ ~Firm(EntryOf(m, own))
<1>1. CASE ~act
  <2>1. Repeat(m, ex, repeated, met) = m  BY <1>1 DEF Repeat
  <2>2. QED  BY <2>1, KeepsSame
<1>2. CASE act
  <2>1. PICK c \in Concepts : c = own  BY <1>2, ConceptAssumption
  <2> DEFINE old == EntryOf(m, c)
             f == [old EXCEPT !.state = "shaky"]
  <2>2. old \in Entry /\ (m[c] # Absent => old = m[c])
    <3>1. old \in Entry  BY EntryOfType
    <3>2. QED  BY <3>1 DEF EntryOf
  <2>3. Repeat(m, ex, repeated, met) = [m EXCEPT ![c] = f]  BY <1>2, <2>1 DEF Repeat
  <2>4. f \in Entry /\ f.evidence = old.evidence
    <3> HIDE DEF old
    <3>1. QED  BY <2>2 DEF Entry
  <2>5. m[c] # Absent => f.evidence >= m[c].evidence /\ (Firm(m[c]) => Firm(f))
    <3>1. ~Firm(old)  BY <1>2, <2>1
    <3>2. m[c] # Absent => old.evidence \in Nat
      <4> HIDE DEF old
      <4>1. QED  BY <2>2 DEF Entry
    <3> HIDE DEF f, old
    <3>3. QED  BY <2>2, <2>4, <3>1, <3>2
  <2>6. Keeps(m, Repeat(m, ex, repeated, met))
    <3> HIDE DEF f
    <3>1. QED  BY <2>3, <2>4, <2>5, UpdateKeeps
  <2>7. Repeat(m, ex, repeated, met) \in ConceptMap
    <3> HIDE DEF f
    <3>1. QED  BY <2>3, <2>4 DEF ConceptMap
  <2>8. QED  BY <2>6, <2>7
<1>3. QED  BY <1>1, <1>2

LEMMA ReviewRule ==
    ASSUME NEW m \in ConceptMap, NEW ex \in Exercises, NEW revisit \in Concepts \cup {None}
    PROVE  Review(m, ex, revisit) \in ConceptMap /\ Keeps(m, Review(m, ex, revisit))
<1>1. CASE revisit = None \/ m[revisit] = Absent
  <2>1. Review(m, ex, revisit) = m  BY <1>1 DEF Review
  <2>2. QED  BY <2>1, KeepsSame
<1>2. CASE revisit # None /\ m[revisit] # Absent
  <2>1. PICK c \in Concepts : c = revisit  BY <1>2
  <2> DEFINE old == EntryOf(m, c)
             f == [old EXCEPT !.reviewEx = ex]
  <2>2. old \in Entry /\ old = m[c]
    <3>1. old \in Entry  BY EntryOfType
    <3>2. QED  BY <1>2, <2>1, <3>1 DEF EntryOf
  <2>3. Review(m, ex, revisit) = [m EXCEPT ![c] = f]  BY <1>2, <2>1 DEF Review
  <2>4. f \in Entry /\ f.evidence = old.evidence /\ f.state = old.state
    <3> HIDE DEF old
    <3>1. QED  BY <2>2 DEF Entry
  <2>5. f.evidence >= m[c].evidence /\ (Firm(m[c]) => Firm(f))
    <3>1. old.evidence \in Nat
      <4> HIDE DEF old
      <4>1. QED  BY <2>2 DEF Entry
    <3> HIDE DEF f, old
    <3>2. QED  BY <2>2, <2>4, <3>1 DEF Firm
  <2>6. Keeps(m, Review(m, ex, revisit))
    <3> HIDE DEF f
    <3>1. QED  BY <2>3, <2>4, <2>5, UpdateKeeps
  <2>7. Review(m, ex, revisit) \in ConceptMap
    <3> HIDE DEF f
    <3>1. QED  BY <2>3, <2>4 DEF ConceptMap
  <2>8. QED  BY <2>6, <2>7
<1>3. QED  BY <1>1, <1>2

-----------------------------------------------------------------------------
(* The whole update.                                                       *)

\* All five rules together lose nothing; and a turn that met the goal adds one
\* piece of evidence to the own concept, and makes it firm if it had any.
LEMMA UpdateRule ==
    ASSUME NEW m \in ConceptMap, NEW s \in Signal
    PROVE  LET n == UpdateConcepts(m, s.ex, s.met, s.mid, s.repeated, s.revisit) IN
           /\ n \in ConceptMap
           /\ Keeps(m, n)
           /\ \A c \in Concepts : s.met /\ OwnConcept[s.ex] = c =>
                /\ n[c] # Absent
                /\ n[c].evidence >= EntryOf(m, c).evidence + 1
                /\ EntryOf(m, c).evidence >= 1 => Firm(n[c])
<1> DEFINE t == Touch(m, s.ex)
           v == Solve(t, s.ex, s.met)
           w == Misconceive(v, s.mid)
           x == Repeat(w, s.ex, s.repeated, s.met)
           n == Review(x, s.ex, s.revisit)
<1>1. /\ s.ex \in Exercises /\ s.met \in BOOLEAN /\ s.mid \in Misconceptions \cup {None}
      /\ s.repeated \in BOOLEAN /\ s.revisit \in Concepts \cup {None}
  BY DEF Signal
<1>2. n = UpdateConcepts(m, s.ex, s.met, s.mid, s.repeated, s.revisit)
  BY DEF UpdateConcepts
<1>3. /\ t \in ConceptMap /\ Keeps(m, t)
      /\ \A c \in Concepts : OwnConcept[s.ex] = c =>
           t[c] # Absent /\ t[c].evidence = EntryOf(m, c).evidence + 1
  BY <1>1, TouchRule
<1> HIDE DEF t
<1>4. /\ v \in ConceptMap /\ Keeps(t, v)
      /\ \A c \in Concepts : s.met /\ OwnConcept[s.ex] = c =>
           v[c].state = "grasped" /\ v[c].evidence = t[c].evidence
  BY <1>1, <1>3, SolveRule
<1> HIDE DEF v
<1>5. w \in ConceptMap /\ Keeps(v, w)  BY <1>1, <1>4, MisconceiveRule
<1> HIDE DEF w
<1>6. x \in ConceptMap /\ Keeps(w, x)  BY <1>1, <1>5, RepeatRule
<1> HIDE DEF x
<1>7. n \in ConceptMap /\ Keeps(x, n)  BY <1>1, <1>6, ReviewRule
<1> HIDE DEF n
<1>8. Keeps(v, n)
  <2>1. Keeps(v, x)  BY <1>4, <1>5, <1>6, KeepsTransitive
  <2>2. QED  BY <2>1, <1>4, <1>6, <1>7, KeepsTransitive
<1>9. Keeps(m, n)
  <2>1. Keeps(m, v)  BY <1>3, <1>4, KeepsTransitive
  <2>2. QED  BY <2>1, <1>4, <1>7, <1>8, KeepsTransitive
<1>10. ASSUME NEW c \in Concepts, s.met, OwnConcept[s.ex] = c
       PROVE  /\ n[c] # Absent
              /\ n[c].evidence >= EntryOf(m, c).evidence + 1
              /\ EntryOf(m, c).evidence >= 1 => Firm(n[c])
  <2>1. EntryOf(m, c).evidence \in Nat
    <3>1. EntryOf(m, c) \in Entry  BY EntryOfType
    <3>2. QED  BY <3>1 DEF Entry
  <2>2. t[c] # Absent /\ t[c].evidence = EntryOf(m, c).evidence + 1  BY <1>3, <1>10
  <2>3. v[c] # Absent  BY <2>2, <1>4 DEF Keeps
  <2>4. v[c].state = "grasped" /\ v[c].evidence = EntryOf(m, c).evidence + 1
    BY <1>4, <1>10, <2>2
  <2>5. EntryOf(m, c).evidence >= 1 => Firm(v[c])  BY <2>1, <2>4 DEF Firm
  <2>6. n[c] # Absent /\ n[c].evidence >= v[c].evidence /\ (Firm(v[c]) => Firm(n[c]))
    BY <2>3, <1>8 DEF Keeps
  <2>7. QED  BY <2>4, <2>5, <2>6
<1>11. QED  BY <1>2, <1>7, <1>9, <1>10

-----------------------------------------------------------------------------
(* Promotions and review stamps.                                           *)

Grasped(m, c) == m[c] # Absent /\ m[c].state = "grasped"

\* Nothing is promoted but the concepts in P, and no review stamp changes.
Tame(m, n, P) ==
    \A c \in Concepts :
        /\ m[c] # Absent => n[c] # Absent /\ n[c].reviewEx = m[c].reviewEx
        /\ Grasped(n, c) => Grasped(m, c) \/ c \in P

LEMMA UpdateTame ==
    ASSUME NEW m \in ConceptMap, NEW c \in Concepts, NEW e \in Entry, NEW P,
           m[c] # Absent => e.reviewEx = m[c].reviewEx,
           e.state = "grasped" => Grasped(m, c) \/ c \in P
    PROVE  Tame(m, [m EXCEPT ![c] = e], P)
<1>1. e # Absent  BY EntryNotAbsent
<1> DEFINE n == [m EXCEPT ![c] = e]
<1>2. n[c] = e /\ \A d \in Concepts \ {c} : n[d] = m[d]  BY DEF ConceptMap
<1> HIDE DEF n
<1>3. QED  BY <1>1, <1>2 DEF Tame, Grasped, n

LEMMA TameSame == ASSUME NEW m, NEW P PROVE Tame(m, m, P)
  BY DEF Tame

LEMMA TameTransitive ==
    ASSUME NEW k, NEW m, NEW n, NEW P, Tame(k, m, P), Tame(m, n, P)
    PROVE  Tame(k, n, P)
  BY DEF Tame

\* A turn promotes no concept but the one whose exercise met the goal, and stamps none
\* but the one revisited.
LEMMA UpdateTames ==
    ASSUME NEW m \in ConceptMap, NEW s \in Signal
    PROVE  LET n == UpdateConcepts(m, s.ex, s.met, s.mid, s.repeated, s.revisit) IN
           \A c \in Concepts :
             /\ m[c] # Absent =>
                  n[c].reviewEx = IF c = s.revisit THEN s.ex ELSE m[c].reviewEx
             /\ Grasped(n, c) => Grasped(m, c) \/ (s.met /\ OwnConcept[s.ex] = c)
             /\ OwnConcept[s.ex] = c /\ Grasped(m, c) /\ m[c].evidence >= 1 => Firm(n[c])
<1> DEFINE t == Touch(m, s.ex)
           v == Solve(t, s.ex, s.met)
           w == Misconceive(v, s.mid)
           x == Repeat(w, s.ex, s.repeated, s.met)
           n == Review(x, s.ex, s.revisit)
           P == {c \in Concepts : s.met /\ OwnConcept[s.ex] = c}
<1>1. /\ s.ex \in Exercises /\ s.met \in BOOLEAN /\ s.mid \in Misconceptions \cup {None}
      /\ s.repeated \in BOOLEAN /\ s.revisit \in Concepts \cup {None}
  BY DEF Signal
<1>2. n = UpdateConcepts(m, s.ex, s.met, s.mid, s.repeated, s.revisit)
  BY DEF UpdateConcepts
<1>3. /\ t \in ConceptMap
      /\ \A c \in Concepts : OwnConcept[s.ex] = c =>
           /\ t[c] # Absent /\ t[c].evidence = EntryOf(m, c).evidence + 1
           /\ t[c].state = EntryOf(m, c).state
  BY <1>1, TouchRule
<1>4. Tame(m, t, P)
  <2>1. CASE OwnConcept[s.ex] = None
    <3>1. t = m  BY <2>1 DEF Touch
    <3> HIDE DEF t, P
    <3>2. QED  BY <3>1, TameSame
  <2>2. CASE OwnConcept[s.ex] # None
    <3>1. PICK own \in Concepts : own = OwnConcept[s.ex]  BY <1>1, <2>2, ConceptAssumption
    <3> DEFINE old == EntryOf(m, own)
               e == [old EXCEPT !.evidence = old.evidence + 1]
    <3>2. old \in Entry  BY EntryOfType
    <3>3. m[own] # Absent => old = m[own]  BY DEF EntryOf
    <3>4. m[own] = Absent => old.state = "shaky"  BY DEF EntryOf, DefaultEntry
    <3>5. t = [m EXCEPT ![own] = e]  BY <2>2, <3>1 DEF Touch
    <3> HIDE DEF old, t, P
    <3>6. e \in Entry /\ e.reviewEx = old.reviewEx /\ e.state = old.state
      BY <3>2 DEF Entry
    <3> HIDE DEF e
    <3>7. e.state = "grasped" => Grasped(m, own)
      BY <3>3, <3>4, <3>6 DEF Grasped
    <3>8. QED  BY <3>3, <3>5, <3>6, <3>7, UpdateTame
  <2>3. QED  BY <2>1, <2>2
<1> HIDE DEF t
<1>5. /\ v \in ConceptMap /\ Keeps(t, v)
  BY <1>1, <1>3, SolveRule
<1>6. Tame(t, v, P)
  <2>1. CASE ~(s.met /\ OwnConcept[s.ex] # None)
    <3>1. v = t  BY <2>1 DEF Solve
    <3> HIDE DEF v, P
    <3>2. QED  BY <3>1, TameSame
  <2>2. CASE s.met /\ OwnConcept[s.ex] # None
    <3>1. PICK own \in Concepts : own = OwnConcept[s.ex]  BY <1>1, <2>2, ConceptAssumption
    <3> DEFINE e == [t[own] EXCEPT !.state = "grasped"]
    <3>2. t[own] \in Entry  BY <1>3, <3>1 DEF ConceptMap
    <3>3. v = [t EXCEPT ![own] = e]  BY <2>2, <3>1 DEF Solve
    <3>4. own \in P  BY <2>2, <3>1
    <3> HIDE DEF v, P
    <3>5. e \in Entry /\ e.reviewEx = t[own].reviewEx  BY <3>2 DEF Entry
    <3> HIDE DEF e
    <3>6. QED  BY <1>3, <3>3, <3>4, <3>5, UpdateTame
  <2>3. QED  BY <2>1, <2>2
<1> HIDE DEF v
<1>7. w \in ConceptMap /\ Keeps(v, w)  BY <1>1, <1>5, MisconceiveRule
<1>8. Tame(v, w, P)
  <2>1. CASE s.mid = None \/ Firm(EntryOf(v, MisconceptionOf[s.mid]))
    <3>1. w = v  BY <2>1 DEF Misconceive
    <3> HIDE DEF w, P
    <3>2. QED  BY <3>1, TameSame
  <2>2. CASE s.mid # None /\ ~Firm(EntryOf(v, MisconceptionOf[s.mid]))
    <3>1. PICK c \in Concepts : c = MisconceptionOf[s.mid]
      BY <1>1, <2>2, ConceptAssumption
    <3> DEFINE old == EntryOf(v, c)
               k == IF v[c] = Absent THEN 1 ELSE old.evidence
               e == [old EXCEPT !.state = "shaky", !.evidence = k]
    <3>2. old \in Entry  BY <1>5, EntryOfType
    <3>3. v[c] # Absent => old = v[c]  BY DEF EntryOf
    <3>4. w = [v EXCEPT ![c] = e]  BY <2>2, <3>1 DEF Misconceive
    <3>5. k \in Nat  BY <3>2 DEF Entry
    <3> HIDE DEF old, k, w, P
    <3>6. e \in Entry /\ e.reviewEx = old.reviewEx /\ e.state = "shaky"
      BY <3>2, <3>5 DEF Entry
    <3> HIDE DEF e
    <3>7. QED  BY <1>5, <3>3, <3>4, <3>6, UpdateTame
  <2>3. QED  BY <2>1, <2>2
<1> HIDE DEF w
<1>9. x \in ConceptMap /\ Keeps(w, x)  BY <1>1, <1>7, RepeatRule
<1>10. Tame(w, x, P)
  <2> DEFINE act == /\ s.repeated /\ ~s.met /\ OwnConcept[s.ex] # None
                    /\ ~Firm(EntryOf(w, OwnConcept[s.ex]))
  <2>1. CASE ~act
    <3>1. x = w  BY <2>1 DEF Repeat
    <3> HIDE DEF x, P
    <3>2. QED  BY <3>1, TameSame
  <2>2. CASE act
    <3>1. PICK own \in Concepts : own = OwnConcept[s.ex]  BY <1>1, <2>2, ConceptAssumption
    <3> DEFINE old == EntryOf(w, own)
               e == [old EXCEPT !.state = "shaky"]
    <3>2. old \in Entry  BY <1>7, EntryOfType
    <3>3. w[own] # Absent => old = w[own]  BY DEF EntryOf
    <3>4. x = [w EXCEPT ![own] = e]  BY <2>2, <3>1 DEF Repeat
    <3> HIDE DEF old, x, P
    <3>5. e \in Entry /\ e.reviewEx = old.reviewEx /\ e.state = "shaky"
      BY <3>2 DEF Entry
    <3> HIDE DEF e
    <3>6. QED  BY <1>7, <3>3, <3>4, <3>5, UpdateTame
  <2>3. QED  BY <2>1, <2>2
<1> HIDE DEF x
<1>11. n \in ConceptMap /\ Keeps(x, n)  BY <1>1, <1>9, ReviewRule
<1>12. \A c \in Concepts :
         /\ x[c] # Absent =>
              n[c].reviewEx = IF c = s.revisit THEN s.ex ELSE x[c].reviewEx
         /\ Grasped(n, c) => Grasped(x, c)
  <2>1. CASE s.revisit = None \/ x[s.revisit] = Absent
    <3>1. n = x  BY <2>1 DEF Review
    <3>2. \A c \in Concepts : x[c] # Absent => c # s.revisit
      BY <2>1, ConceptAssumption
    <3> HIDE DEF n
    <3>3. QED  BY <3>1, <3>2
  <2>2. CASE s.revisit # None /\ x[s.revisit] # Absent
    <3> DEFINE r == s.revisit
               e == [x[r] EXCEPT !.reviewEx = s.ex]
    <3>1. r \in Concepts /\ x[r] \in Entry  BY <1>1, <1>9, <2>2 DEF ConceptMap
    <3>2. n = [x EXCEPT ![r] = e]  BY <2>2 DEF Review, EntryOf
    <3> HIDE DEF n
    <3>3. e.reviewEx = s.ex /\ e.state = x[r].state  BY <3>1 DEF Entry
    <3> HIDE DEF e
    <3>4. n[r] = e /\ \A d \in Concepts \ {r} : n[d] = x[d]  BY <1>9, <3>1, <3>2 DEF ConceptMap
    <3>5. QED  BY <2>2, <3>3, <3>4 DEF Grasped
  <2>3. QED  BY <2>1, <2>2
<1> HIDE DEF n
<1>13. Tame(m, x, P)
  <2> HIDE DEF P
  <2>1. Tame(m, w, P)  BY <1>4, <1>6, <1>8, TameTransitive
  <2>2. QED  BY <2>1, <1>10, TameTransitive
<1>14. ASSUME NEW c \in Concepts
       PROVE  /\ m[c] # Absent =>
                   n[c].reviewEx = IF c = s.revisit THEN s.ex ELSE m[c].reviewEx
              /\ Grasped(n, c) => Grasped(m, c) \/ (s.met /\ OwnConcept[s.ex] = c)
  BY <1>12, <1>13 DEF Tame
<1>15. ASSUME NEW c \in Concepts, OwnConcept[s.ex] = c, Grasped(m, c), m[c].evidence >= 1
       PROVE  Firm(n[c])
  <2>1. EntryOf(m, c) = m[c] /\ m[c] \in Entry  BY <1>15 DEF EntryOf, Grasped, ConceptMap
  <2>2. m[c].evidence \in Nat  BY <2>1 DEF Entry
  <2>3. t[c] # Absent /\ t[c].evidence = m[c].evidence + 1 /\ t[c].state = "grasped"
    BY <1>3, <1>15, <2>1 DEF Grasped
  <2>4. Firm(t[c])  BY <1>15, <2>2, <2>3 DEF Firm
  <2>5. Keeps(t, n)
    <3>1. Keeps(t, w)  BY <1>3, <1>5, <1>7, KeepsTransitive
    <3>2. Keeps(t, x)  BY <3>1, <1>3, <1>7, <1>9, KeepsTransitive
    <3>3. QED  BY <3>2, <1>3, <1>9, <1>11, KeepsTransitive
  <2>6. QED  BY <2>3, <2>4, <2>5 DEF Keeps
<1>16. QED  BY <1>2, <1>14, <1>15
=============================================================================
