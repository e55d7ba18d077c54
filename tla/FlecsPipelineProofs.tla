------------------------- MODULE FlecsPipelineProofs -------------------------
(***************************************************************************)
(* Theorems about FlecsPipeline, for every number of systems of any kinds.   *)
(*                                                                          *)
(* First what flecs_pipeline_build makes of the systems: the shape of the    *)
(* schedule and what is in the write state, kept as each system is added.    *)
(* Then the invariant of a run in such a schedule, and the properties.       *)
(***************************************************************************)
EXTENDS FlecsPipeline, SequenceTheorems, WellFoundedInduction, TLAPS

-----------------------------------------------------------------------------
(***************************************************************************)
(* Induction, for a set of numbers and for a function.                       *)
(***************************************************************************)

\* Of a set of numbers that has a member, one is the least.
LEMMA SmallestOf ==
    ASSUME NEW S \in SUBSET Nat, S # {}
    PROVE  \E n \in S : \A m \in S : n <= m
<1>1. IsWellFoundedOn(OpToRel(<, Nat), Nat)
  BY NatLessThanWellFounded
<1>2. PICK n \in S : \A m \in S : <<m, n>> \notin OpToRel(<, Nat)
  BY <1>1, WFMin
<1>3. \A m \in S : ~(m < n)
  BY <1>2 DEF OpToRel
<1> QED
  BY <1>3

\* A set with 0 that has each number up to N with the one before has them all.
LEMMA UpTo ==
    ASSUME NEW N \in Nat, NEW G, 0 \in G, \A n \in 1 .. N : n - 1 \in G => n \in G
    PROVE  0 .. N \subseteq G
<1> SUFFICES ASSUME (0 .. N) \ G # {} PROVE FALSE
  OBVIOUS
<1>1. (0 .. N) \ G \in SUBSET Nat
  OBVIOUS
<1>2. PICK n \in (0 .. N) \ G : \A m \in (0 .. N) \ G : n <= m
  BY <1>1, SmallestOf
<1>3. n \in 1 .. N
  BY <1>2
<1>4. n - 1 \in 0 .. N /\ ~(n <= n - 1)
  BY <1>3
<1>5. n - 1 \in G
  BY <1>2, <1>4
<1> QED
  BY <1>2, <1>3, <1>5

\* The first values of a function that is defined by recursion
FirstValues(f, n, start, step) == f[0] = start /\ \A k \in 1 .. n : f[k] = step[<<k, f[k - 1]>>]

\* A function that is defined by recursion on a number exists.
LEMMA RecursionExists ==
    ASSUME NEW N \in Nat, NEW S, NEW start \in S, NEW step \in [(1 .. N) \X S -> S]
    PROVE  \E f \in [0 .. N -> S] : FirstValues(f, N, start, step)
<1> DEFINE G == {n \in 0 .. N : \E f \in [0 .. n -> S] : FirstValues(f, n, start, step)}
<1>1. 0 \in G
  <2> DEFINE f == [k \in 0 .. 0 |-> start]
  <2>1. f \in [0 .. 0 -> S] /\ f[0] = start /\ 1 .. 0 = {}
    OBVIOUS
  <2> HIDE DEF f
  <2>2. FirstValues(f, 0, start, step)
    BY <2>1 DEF FirstValues
  <2> QED
    BY <2>1, <2>2
<1>2. ASSUME NEW n \in 1 .. N, n - 1 \in G PROVE n \in G
  <2>1. PICK f \in [0 .. n - 1 -> S] : FirstValues(f, n - 1, start, step)
    BY <1>2
  <2> DEFINE next == step[<<n, f[n - 1]>>]
             g == [k \in 0 .. n |-> IF k = n THEN next ELSE f[k]]
  <2>2. next \in S
    BY <1>2, <2>1
  <2> HIDE DEF next
  <2>3. g \in [0 .. n -> S]
    BY <1>2, <2>1, <2>2
  <2>4. g[0] = start
    BY <1>2, <2>1 DEF FirstValues
  <2>5. ASSUME NEW k \in 1 .. n PROVE g[k] = step[<<k, g[k - 1]>>]
    <3>1. CASE k = n
      BY <1>2, <3>1, SMTT(30) DEF next
    <3>2. CASE k # n
      <4>1. k \in 1 .. n - 1
        BY <1>2, <3>2
      <4>2. g[k] = f[k] /\ g[k - 1] = f[k - 1]
        BY <1>2, <4>1
      <4> QED
        BY <2>1, <4>1, <4>2 DEF FirstValues
    <3> QED
      BY <3>1, <3>2
  <2> HIDE DEF g
  <2>6. FirstValues(g, n, start, step)
    BY <2>4, <2>5 DEF FirstValues
  <2> QED
    BY <1>2, <2>3, <2>6
<1> HIDE DEF G
<1>3. 0 .. N \subseteq G
  BY <1>1, <1>2, UpTo
<1>4. N \in G
  BY <1>3
<1> QED
  BY <1>4 DEF G

-----------------------------------------------------------------------------
(***************************************************************************)
(* The write state                                                           *)
(***************************************************************************)

\* What is staged with more ids in the write state
LEMMA StagedUnion ==
    ASSUME NEW A, NEW B, NEW id
    PROVE  Staged(A \cup B, id) <=> Staged(A, id) \/ Staged(B, id)
  BY DEF Staged

Checks == [needs_merge : BOOLEAN, written : SUBSET Ids]

\* What checking a term does: what the term itself stages is added to the write
\* state, and a term that accesses what is staged needs a merge.
LEMMA CheckTermFacts ==
    ASSUME NEW c \in Checks, NEW t \in Terms, NEW active \in BOOLEAN,
           NEW r, r = CheckTerm(c, t, active)
    PROVE  /\ r \in Checks
           /\ c.written \subseteq r.written
           /\ r.written \subseteq c.written \cup (IF active /\ Stages(t) THEN {t.id} ELSE {})
           /\ c.needs_merge => r.needs_merge
           /\ ~r.needs_merge /\ Accesses(t) => ~Staged(c.written, t.id)
           /\ ~r.needs_merge /\ active /\ Stages(t) => t.id \in r.written
<1>1. t.id \in Ids
  BY DEF Terms
<1>2. c.written \subseteq Ids /\ c.needs_merge \in BOOLEAN
  BY DEF Checks
<1>3. CASE t.inout = "filter"
  <2>1. r = c
    BY <1>3 DEF CheckTerm
  <2> QED
    BY <1>3, <2>1 DEF Stages, Accesses
<1>4. CASE t.inout # "filter" /\ t.src = "this" /\ Staged(c.written, t.id)
  <2>1. r = [c EXCEPT !.needs_merge = TRUE]
    BY <1>4 DEF CheckTerm
  <2>2. r.needs_merge = TRUE /\ r.written = c.written /\ r \in Checks
    BY <2>1 DEF Checks
  <2> QED
    BY <2>2
<1>5. CASE t.inout # "filter" /\ ~(t.src = "this" /\ Staged(c.written, t.id))
  <2>1. r = [needs_merge |-> c.needs_merge \/ (IsStaging(t) /\ Reads(t) /\ Staged(c.written, t.id)),
             written |-> SetWritten(c.written, t, active)]
    BY <1>5 DEF CheckTerm
  <2>2. r.needs_merge = (c.needs_merge \/ (IsStaging(t) /\ Reads(t) /\ Staged(c.written, t.id)))
    BY <2>1
  <2>3. r.written = IF active /\ Stages(t) THEN c.written \cup {t.id} ELSE c.written
    BY <1>5, <2>1 DEF SetWritten, Stages
  <2>4. r \in Checks
    <3>1. r.written \subseteq Ids
      BY <1>1, <1>2, <2>3
    <3> QED
      BY <2>1, <3>1 DEF Checks
  <2> QED
    BY <1>5, <2>2, <2>3, <2>4 DEF Accesses
<1> QED
  BY <1>3, <1>4, <1>5

\* One check is as far as another that started without W in the write state.
SameFrom(W, c, z) == c.written = W \cup z.written /\ c.needs_merge = z.needs_merge

\* Checking a term that accesses nothing of W does the same whether W is in the
\* write state or not.
LEMMA CheckTermFrom ==
    ASSUME NEW W \in SUBSET Ids, NEW c \in Checks, NEW z \in Checks,
           NEW t \in Terms, NEW active \in BOOLEAN,
           SameFrom(W, c, z), ~(Accesses(t) /\ Staged(W, t.id)),
           NEW r, r = CheckTerm(c, t, active), NEW s, s = CheckTerm(z, t, active)
    PROVE  SameFrom(W, r, s)
<1>1. Staged(c.written, t.id) <=> Staged(W, t.id) \/ Staged(z.written, t.id)
  BY StagedUnion DEF SameFrom
<1> USE DEF SameFrom
<1>2. CASE t.inout = "filter"
  BY <1>2 DEF CheckTerm
<1>3. CASE t.inout # "filter" /\ t.src = "this"
  <2>1. Staged(c.written, t.id) <=> Staged(z.written, t.id)
    BY <1>1, <1>3 DEF Accesses
  <2>2. CASE Staged(z.written, t.id)
    <3>1. /\ CheckTerm(c, t, active) = [c EXCEPT !.needs_merge = TRUE]
          /\ CheckTerm(z, t, active) = [z EXCEPT !.needs_merge = TRUE]
      BY <1>3, <2>1, <2>2 DEF CheckTerm
    <3> QED
      BY <3>1 DEF Checks
  <2>3. CASE ~Staged(z.written, t.id)
    <3>1. /\ CheckTerm(c, t, active) =
                 [needs_merge |-> c.needs_merge \/ (IsStaging(t) /\ Reads(t) /\ FALSE),
                  written |-> SetWritten(c.written, t, active)]
          /\ CheckTerm(z, t, active) =
                 [needs_merge |-> z.needs_merge \/ (IsStaging(t) /\ Reads(t) /\ FALSE),
                  written |-> SetWritten(z.written, t, active)]
      BY <1>3, <2>1, <2>3 DEF CheckTerm
    <3>2. SetWritten(c.written, t, active) = W \cup SetWritten(z.written, t, active)
      BY DEF SetWritten
    <3> QED
      BY <3>1, <3>2
  <2> QED
    BY <2>2, <2>3
<1>4. CASE t.inout # "filter" /\ t.src # "this"
  <2>1. /\ CheckTerm(c, t, active) =
             [needs_merge |-> c.needs_merge \/ (IsStaging(t) /\ Reads(t) /\ Staged(c.written, t.id)),
              written |-> SetWritten(c.written, t, active)]
        /\ CheckTerm(z, t, active) =
             [needs_merge |-> z.needs_merge \/ (IsStaging(t) /\ Reads(t) /\ Staged(z.written, t.id)),
              written |-> SetWritten(z.written, t, active)]
    BY <1>4 DEF CheckTerm
  <2>2. SetWritten(c.written, t, active) = W \cup SetWritten(z.written, t, active)
    BY DEF SetWritten
  <2>3. IsStaging(t) /\ Reads(t) => (Staged(c.written, t.id) <=> Staged(z.written, t.id))
    BY <1>1, <1>4 DEF Accesses
  <2>4. /\ CheckTerm(c, t, active).needs_merge
             = (c.needs_merge \/ (IsStaging(t) /\ Reads(t) /\ Staged(c.written, t.id)))
        /\ CheckTerm(z, t, active).needs_merge
             = (z.needs_merge \/ (IsStaging(t) /\ Reads(t) /\ Staged(z.written, t.id)))
    BY <2>1
  <2>5. CheckTerm(c, t, active).needs_merge = CheckTerm(z, t, active).needs_merge
    BY <2>3, <2>4
  <2>6. /\ CheckTerm(c, t, active).written = SetWritten(c.written, t, active)
        /\ CheckTerm(z, t, active).written = SetWritten(z.written, t, active)
    BY <2>1
  <2> QED
    BY <2>2, <2>5, <2>6
<1> QED
  BY <1>2, <1>3, <1>4

\* What one of the loops does with one of the terms
TermStep(c, t, active, this) == IF this <=> t.src = "this" THEN CheckTerm(c, t, active) ELSE c

\* The loop over the terms is what its definition says.
LEMMA LoopFacts ==
    ASSUME NEW terms \in Seq(Terms), NEW active \in BOOLEAN, NEW this \in BOOLEAN,
           NEW start \in Checks, NEW f, f = CheckedTerms(terms, active, start, this)
    PROVE  /\ f \in [0 .. Len(terms) -> Checks]
           /\ f[0] = start
           /\ \A n \in 1 .. Len(terms) : f[n] = TermStep(f[n - 1], terms[n], active, this)
<1> DEFINE N == Len(terms)
           IsLoop(g) == g = [n \in 0 .. N |->
                                 IF n = 0 THEN start
                                 ELSE IF this <=> terms[n].src = "this"
                                      THEN CheckTerm(g[n - 1], terms[n], active)
                                      ELSE g[n - 1]]
           step == [p \in (1 .. N) \X Checks |-> TermStep(p[2], terms[p[1]], active, this)]
<1>1. N \in Nat
  OBVIOUS
<1>2. step \in [(1 .. N) \X Checks -> Checks]
  <2>1. ASSUME NEW n \in 1 .. N, NEW c \in Checks
        PROVE  TermStep(c, terms[n], active, this) \in Checks
    <3>1. terms[n] \in Terms
      OBVIOUS
    <3> QED
      BY <3>1, CheckTermFacts DEF TermStep
  <2> QED
    BY <2>1
<1>3. \A n \in 1 .. N, c \in Checks : step[<<n, c>>] = TermStep(c, terms[n], active, this)
  OBVIOUS
<1> HIDE DEF step, N
<1>4. PICK g \in [0 .. N -> Checks] : FirstValues(g, N, start, step)
  BY <1>1, <1>2, RecursionExists
<1>5. g[0] = start /\ \A n \in 1 .. N : g[n] = TermStep(g[n - 1], terms[n], active, this)
  <2>1. ASSUME NEW n \in 1 .. N PROVE g[n] = TermStep(g[n - 1], terms[n], active, this)
    <3>1. n - 1 \in 0 .. N
      BY <1>1
    <3> QED
      BY <1>3, <1>4, <3>1 DEF FirstValues
  <2> QED
    BY <1>4, <2>1 DEF FirstValues
<1>6. IsLoop(g)
  <2>1. ASSUME NEW n \in 0 .. N
        PROVE  g[n] = IF n = 0 THEN start
                      ELSE IF this <=> terms[n].src = "this"
                           THEN CheckTerm(g[n - 1], terms[n], active)
                           ELSE g[n - 1]
    <3>1. n = 0 \/ n \in 1 .. N
      BY <1>1
    <3> QED
      BY <1>5, <3>1 DEF TermStep
  <2> QED
    BY <2>1
<1>7. f = CHOOSE h : IsLoop(h)
  BY DEF CheckedTerms, N
<1> HIDE DEF IsLoop
<1>8. IsLoop(f)
  BY <1>6, <1>7
<1>9. f = [n \in 0 .. N |-> IF n = 0 THEN start
                             ELSE TermStep(f[n - 1], terms[n], active, this)]
  BY <1>8 DEF IsLoop, TermStep
<1> DEFINE G == {n \in 0 .. N : f[n] \in Checks}
<1>10. 0 \in G
  BY <1>1, <1>9
<1>11. ASSUME NEW n \in 1 .. N PROVE f[n] = TermStep(f[n - 1], terms[n], active, this)
  BY <1>1, <1>9
<1>12. ASSUME NEW n \in 1 .. N, n - 1 \in G PROVE n \in G
  <2>1. terms[n] \in Terms
    BY DEF N
  <2>2. f[n - 1] \in Checks /\ n \in 0 .. N
    BY <1>1, <1>12
  <2>3. CheckTerm(f[n - 1], terms[n], active) \in Checks
    BY <2>1, <2>2, CheckTermFacts
  <2>4. f[n] \in Checks
    BY <1>11, <2>2, <2>3 DEF TermStep
  <2> QED
    BY <2>2, <2>4
<1> HIDE DEF G
<1>13. 0 .. N \subseteq G
  BY <1>1, <1>10, <1>12, UpTo
<1>14. f \in [0 .. N -> Checks]
  BY <1>9, <1>13 DEF G
<1>15. f[0] = start
  BY <1>1, <1>9
<1> QED
  BY <1>11, <1>14, <1>15 DEF N

\* What is staged by the terms that a loop handles, up to one of them
Handled(terms, n, this) == {i \in 1 .. n : this <=> terms[i].src = "this"}

\* What a loop leaves in the write state, and when it finds no need of a merge
LoopResult(terms, active, this, start, r) ==
    /\ r \in Checks
    /\ start.written \subseteq r.written
    /\ \A id \in r.written \ start.written :
          active /\ \E i \in 1 .. Len(terms) : Stages(terms[i]) /\ terms[i].id = id
    /\ ~r.needs_merge =>
          /\ ~start.needs_merge
          /\ \A i \in Handled(terms, Len(terms), this) :
                /\ Accesses(terms[i]) => ~Staged(start.written, terms[i].id)
                /\ active /\ Stages(terms[i]) => terms[i].id \in r.written

LEMMA LoopChecks ==
    ASSUME NEW terms \in Seq(Terms), NEW active \in BOOLEAN, NEW this \in BOOLEAN,
           NEW start \in Checks, NEW r, r = CheckedTerms(terms, active, start, this)[Len(terms)]
    PROVE  LoopResult(terms, active, this, start, r)
<1> DEFINE f == CheckedTerms(terms, active, start, this)
           N == Len(terms)
           Sound(n) ==
               /\ start.written \subseteq f[n].written
               /\ \A id \in f[n].written \ start.written :
                     active /\ \E i \in 1 .. n : Stages(terms[i]) /\ terms[i].id = id
               /\ ~f[n].needs_merge =>
                     /\ ~start.needs_merge
                     /\ \A i \in Handled(terms, n, this) :
                           /\ Accesses(terms[i]) => ~Staged(start.written, terms[i].id)
                           /\ active /\ Stages(terms[i]) => terms[i].id \in f[n].written
           G == {n \in 0 .. N : Sound(n)}
<1>1. /\ f \in [0 .. N -> Checks]
      /\ f[0] = start
      /\ \A n \in 1 .. N : f[n] = TermStep(f[n - 1], terms[n], active, this)
  BY LoopFacts
<1>2. N \in Nat
  OBVIOUS
<1> HIDE DEF f, N
<1>3. 0 \in G
  <2>1. Handled(terms, 0, this) = {}
    BY DEF Handled
  <2> QED
    BY <1>1, <1>2, <2>1
<1>4. ASSUME NEW n \in 1 .. N, n - 1 \in G PROVE n \in G
  <2>1. terms[n] \in Terms /\ f[n - 1] \in Checks /\ n \in Nat /\ n - 1 \in Nat
    BY <1>1, <1>2 DEF N
  <2>2. Sound(n - 1)
    BY <1>4
  <2>3. f[n] = TermStep(f[n - 1], terms[n], active, this)
    BY <1>1
  <2>4. 1 .. n = (1 .. n - 1) \cup {n}
    BY <2>1
  <2>5. CASE ~(this <=> terms[n].src = "this")
    <3>1. f[n] = f[n - 1]
      BY <2>3, <2>5 DEF TermStep
    <3>2. Handled(terms, n, this) = Handled(terms, n - 1, this)
      BY <2>4, <2>5 DEF Handled
    <3>3. 1 .. n - 1 \subseteq 1 .. n
      BY <2>4
    <3>4. Sound(n)
      BY <2>2, <3>1, <3>2, <3>3
    <3> QED
      BY <3>4
  <2>6. CASE this <=> terms[n].src = "this"
    <3> DEFINE c == f[n - 1]
               d == f[n]
    <3>1. d = CheckTerm(c, terms[n], active)
      BY <2>3, <2>6 DEF TermStep
    <3>2. /\ c.written \subseteq d.written
          /\ d.written \subseteq c.written \cup (IF active /\ Stages(terms[n]) THEN {terms[n].id} ELSE {})
          /\ c.needs_merge => d.needs_merge
          /\ ~d.needs_merge /\ Accesses(terms[n]) => ~Staged(c.written, terms[n].id)
          /\ ~d.needs_merge /\ active /\ Stages(terms[n]) => terms[n].id \in d.written
      BY <2>1, <3>1, CheckTermFacts
    <3>3. Handled(terms, n, this) = Handled(terms, n - 1, this) \cup {n}
      BY <2>4, <2>6 DEF Handled
    <3>4. start.written \subseteq c.written
      BY <2>2
    <3>5. Staged(start.written, terms[n].id) => Staged(c.written, terms[n].id)
      BY <3>4 DEF Staged
    <3>6. start.written \subseteq d.written
      BY <3>2, <3>4
    <3>7. ASSUME NEW id \in d.written \ start.written
          PROVE  active /\ \E i \in 1 .. n : Stages(terms[i]) /\ terms[i].id = id
      <4>1. CASE id \in c.written
        <5>1. active /\ \E i \in 1 .. n - 1 : Stages(terms[i]) /\ terms[i].id = id
          BY <2>2, <3>7, <4>1
        <5> QED
          BY <2>4, <5>1
      <4>2. CASE id \notin c.written
        <5>1. active /\ Stages(terms[n]) /\ id = terms[n].id
          BY <3>2, <3>7, <4>2
        <5> QED
          BY <2>4, <5>1
      <4> QED
        BY <4>1, <4>2
    <3>8. ASSUME ~d.needs_merge
          PROVE  /\ ~start.needs_merge
                 /\ \A i \in Handled(terms, n, this) :
                       /\ Accesses(terms[i]) => ~Staged(start.written, terms[i].id)
                       /\ active /\ Stages(terms[i]) => terms[i].id \in d.written
      <4>1. ~c.needs_merge
        BY <3>2, <3>8
      <4>2. /\ ~start.needs_merge
            /\ \A i \in Handled(terms, n - 1, this) :
                  /\ Accesses(terms[i]) => ~Staged(start.written, terms[i].id)
                  /\ active /\ Stages(terms[i]) => terms[i].id \in c.written
        BY <2>2, <4>1
      <4>3. /\ Accesses(terms[n]) => ~Staged(start.written, terms[n].id)
            /\ active /\ Stages(terms[n]) => terms[n].id \in d.written
        BY <3>2, <3>5, <3>8
      <4> QED
        BY <3>2, <3>3, <4>2, <4>3
    <3>9. Sound(n)
      BY <3>6, <3>7, <3>8
    <3> QED
      BY <3>9
  <2> QED
    BY <2>5, <2>6
<1> HIDE DEF G
<1>5. 0 .. N \subseteq G
  BY <1>2, <1>3, <1>4, UpTo
<1>6. N \in G /\ r = f[N]
  BY <1>2, <1>5 DEF f, N
<1>7. r \in Checks
  BY <1>1, <1>2, <1>6
<1> QED
  BY <1>6, <1>7 DEF G, N, LoopResult

LEMMA TermStepFrom ==
    ASSUME NEW W \in SUBSET Ids, NEW c \in Checks, NEW z \in Checks,
           NEW t \in Terms, NEW active \in BOOLEAN, NEW this \in BOOLEAN,
           SameFrom(W, c, z), ~(Accesses(t) /\ Staged(W, t.id)),
           NEW r, r = TermStep(c, t, active, this), NEW s, s = TermStep(z, t, active, this)
    PROVE  SameFrom(W, r, s)
<1>1. CASE this <=> t.src = "this"
  <2>1. r = CheckTerm(c, t, active) /\ s = CheckTerm(z, t, active)
    BY <1>1 DEF TermStep
  <2> QED
    BY <2>1, CheckTermFrom
<1>2. CASE ~(this <=> t.src = "this")
  BY <1>2 DEF TermStep
<1> QED
  BY <1>1, <1>2

\* A loop that starts with W in the write state, and handles no term that
\* accesses it, does the same as one that starts without.
LEMMA LoopFrom ==
    ASSUME NEW terms \in Seq(Terms), NEW active \in BOOLEAN, NEW this \in BOOLEAN,
           NEW start \in Checks, NEW zero \in Checks, NEW W \in SUBSET Ids,
           SameFrom(W, start, zero),
           \A i \in 1 .. Len(terms) : ~(Accesses(terms[i]) /\ Staged(W, terms[i].id)),
           NEW r, r = CheckedTerms(terms, active, start, this)[Len(terms)],
           NEW z, z = CheckedTerms(terms, active, zero, this)[Len(terms)]
    PROVE  SameFrom(W, r, z)
<1> DEFINE f == CheckedTerms(terms, active, start, this)
           g == CheckedTerms(terms, active, zero, this)
           N == Len(terms)
           G == {n \in 0 .. N : SameFrom(W, f[n], g[n])}
<1>1. /\ f \in [0 .. N -> Checks]
      /\ f[0] = start
      /\ \A n \in 1 .. N : f[n] = TermStep(f[n - 1], terms[n], active, this)
  BY LoopFacts
<1>2. /\ g \in [0 .. N -> Checks]
      /\ g[0] = zero
      /\ \A n \in 1 .. N : g[n] = TermStep(g[n - 1], terms[n], active, this)
  BY LoopFacts
<1>3. N \in Nat /\ r = f[N] /\ z = g[N]
  OBVIOUS
<1> HIDE DEF f, g, N
<1>4. 0 \in G
  BY <1>1, <1>2, <1>3
<1>5. ASSUME NEW n \in 1 .. N, n - 1 \in G PROVE n \in G
  <2>1. /\ terms[n] \in Terms /\ f[n - 1] \in Checks /\ g[n - 1] \in Checks /\ n \in 0 .. N
        /\ ~(Accesses(terms[n]) /\ Staged(W, terms[n].id))
    BY <1>1, <1>2, <1>3 DEF N
  <2>2. SameFrom(W, f[n - 1], g[n - 1])
    BY <1>5
  <2>3. /\ f[n] = TermStep(f[n - 1], terms[n], active, this)
        /\ g[n] = TermStep(g[n - 1], terms[n], active, this)
    BY <1>1, <1>2
  <2>4. SameFrom(W, f[n], g[n])
    BY <2>1, <2>2, <2>3, TermStepFrom
  <2> QED
    BY <2>1, <2>4
<1> HIDE DEF G
<1>6. 0 .. N \subseteq G
  BY <1>3, <1>4, <1>5, UpTo
<1>7. N \in G
  BY <1>3, <1>6
<1> QED
  BY <1>3, <1>7 DEF G

\* A system that is inactive stages nothing: without anything in the write
\* state it never needs a merge.
LEMMA LoopInactive ==
    ASSUME NEW terms \in Seq(Terms), NEW this \in BOOLEAN,
           NEW start \in Checks, start.written = {}, ~start.needs_merge,
           NEW r, r = CheckedTerms(terms, FALSE, start, this)[Len(terms)]
    PROVE  r \in Checks /\ r.written = {} /\ ~r.needs_merge
<1> DEFINE f == CheckedTerms(terms, FALSE, start, this)
           N == Len(terms)
           G == {n \in 0 .. N : f[n].written = {} /\ ~f[n].needs_merge}
<1>1. /\ f \in [0 .. N -> Checks]
      /\ f[0] = start
      /\ \A n \in 1 .. N : f[n] = TermStep(f[n - 1], terms[n], FALSE, this)
  BY LoopFacts
<1>2. N \in Nat /\ r = f[N]
  OBVIOUS
<1> HIDE DEF f, N
<1>3. 0 \in G
  BY <1>1, <1>2
<1>4. ASSUME NEW n \in 1 .. N, n - 1 \in G PROVE n \in G
  <2>1. terms[n] \in Terms /\ f[n - 1] \in Checks /\ n \in 0 .. N
    BY <1>1, <1>2 DEF N
  <2>2. f[n - 1].written = {} /\ ~f[n - 1].needs_merge
    BY <1>4
  <2>3. f[n] = TermStep(f[n - 1], terms[n], FALSE, this)
    BY <1>1
  <2>4. ~Staged(f[n - 1].written, terms[n].id)
    BY <2>2 DEF Staged
  <2>5. SetWritten(f[n - 1].written, terms[n], FALSE) = {}
    BY <2>2 DEF SetWritten
  <2>6. /\ CheckTerm(f[n - 1], terms[n], FALSE).written = {}
        /\ ~CheckTerm(f[n - 1], terms[n], FALSE).needs_merge
    BY <2>2, <2>4, <2>5 DEF CheckTerm
  <2> QED
    BY <2>1, <2>2, <2>3, <2>6 DEF TermStep
<1> HIDE DEF G
<1>5. 0 .. N \subseteq G
  BY <1>2, <1>3, <1>4, UpTo
<1>6. N \in G /\ r \in Checks
  BY <1>1, <1>2, <1>5
<1> QED
  BY <1>2, <1>6 DEF G

\* What checking the terms of a system comes to: without a merge it accesses
\* nothing that is staged, and what it stages itself is in the write state; with
\* one it accesses something that was staged before it.
SystemResult(system, active, W, r) ==
    /\ r \in Checks
    /\ W \subseteq r.written
    /\ r.written \subseteq W \cup (IF active THEN StagedBy(system) ELSE {})
    /\ ~r.needs_merge => \A id \in AccessedBy(system) : ~Staged(W, id)
    /\ ~r.needs_merge /\ active => StagedBy(system) \subseteq r.written
    /\ r.needs_merge => \E id \in AccessedBy(system) : Staged(W, id)

LEMMA SystemCheck ==
    ASSUME NEW system \in SystemRecords, NeedsNoMerge(system), NEW active \in BOOLEAN,
           NEW W \in SUBSET Ids, NEW r, r = CheckTerms(system.terms, active, W)
    PROVE  SystemResult(system, active, W, r)
<1> DEFINE terms == system.terms
           N == Len(terms)
           start(w) == [needs_merge |-> FALSE, written |-> w]
           first == CheckedTerms(terms, active, start(W), TRUE)[N]
<1>1. terms \in Seq(Terms)
  BY DEF SystemRecords
<1>2. start(W) \in Checks /\ start(W).written = W /\ ~start(W).needs_merge
  BY DEF Checks
<1>3. r = CheckedTerms(terms, active, first, FALSE)[N]
  BY DEF CheckTerms
<1>4. /\ StagedBy(system) = {terms[i].id : i \in {j \in 1 .. N : Stages(terms[j])}}
      /\ AccessedBy(system) = {terms[i].id : i \in {j \in 1 .. N : Accesses(terms[j])}}
  <2>1. Range(terms) = {terms[i] : i \in 1 .. N}
    BY <1>1 DEF Range
  <2> QED
    BY <2>1 DEF StagedBy, AccessedBy
<1> HIDE DEF terms
<1>5. /\ first \in Checks
      /\ W \subseteq first.written
      /\ \A id \in first.written \ W : active /\ \E i \in 1 .. N : Stages(terms[i]) /\ terms[i].id = id
      /\ ~first.needs_merge =>
            \A i \in Handled(terms, N, TRUE) :
                /\ Accesses(terms[i]) => ~Staged(W, terms[i].id)
                /\ active /\ Stages(terms[i]) => terms[i].id \in first.written
  <2> HIDE DEF start
  <2>1. LoopResult(terms, active, TRUE, start(W), first)
    BY <1>1, <1>2, LoopChecks
  <2> HIDE DEF first
  <2> QED
    BY <1>2, <2>1 DEF LoopResult
<1> HIDE DEF first
<1>6. /\ r \in Checks
      /\ first.written \subseteq r.written
      /\ \A id \in r.written \ first.written :
             active /\ \E i \in 1 .. N : Stages(terms[i]) /\ terms[i].id = id
      /\ ~r.needs_merge =>
            /\ ~first.needs_merge
            /\ \A i \in Handled(terms, N, FALSE) :
                  /\ Accesses(terms[i]) => ~Staged(first.written, terms[i].id)
                  /\ active /\ Stages(terms[i]) => terms[i].id \in r.written
  <2>1. LoopResult(terms, active, FALSE, first, r)
    BY <1>1, <1>3, <1>5, LoopChecks
  <2> QED
    BY <2>1 DEF LoopResult
<1>7. W \subseteq r.written
  BY <1>5, <1>6
<1>8. r.written \subseteq W \cup (IF active THEN StagedBy(system) ELSE {})
  BY <1>4, <1>5, <1>6
<1>9. ASSUME ~r.needs_merge, NEW i \in 1 .. N
      PROVE  /\ Accesses(terms[i]) => ~Staged(W, terms[i].id)
             /\ active /\ Stages(terms[i]) => terms[i].id \in r.written
  <2>1. CASE terms[i].src = "this"
    <3>1. i \in Handled(terms, N, TRUE)
      BY <2>1 DEF Handled
    <3> QED
      BY <1>5, <1>6, <1>9, <3>1
  <2>2. CASE terms[i].src # "this"
    <3>1. i \in Handled(terms, N, FALSE)
      BY <2>2 DEF Handled
    <3>2. Staged(W, terms[i].id) => Staged(first.written, terms[i].id)
      BY <1>5 DEF Staged
    <3> QED
      BY <1>6, <1>9, <3>1, <3>2
  <2> QED
    BY <2>1, <2>2
<1>10. ASSUME r.needs_merge, \A id \in AccessedBy(system) : ~Staged(W, id) PROVE FALSE
  <2> DEFINE zero == CheckedTerms(terms, active, start({}), TRUE)[N]
             z == CheckedTerms(terms, active, zero, FALSE)[N]
  <2>1. start({}) \in Checks /\ start({}).written = {} /\ ~start({}).needs_merge
    BY DEF Checks
  <2>2. \A i \in 1 .. N : ~(Accesses(terms[i]) /\ Staged(W, terms[i].id))
    BY <1>4, <1>10
  <2>3. SameFrom(W, start(W), start({}))
    BY DEF SameFrom
  <2> HIDE DEF start
  <2>4. SameFrom(W, first, zero)
    BY <1>1, <1>2, <2>1, <2>2, <2>3, LoopFrom DEF first
  <2>5. zero \in Checks
    <3>1. LoopResult(terms, active, TRUE, start({}), zero)
      BY <1>1, <2>1, LoopChecks
    <3> QED
      BY <3>1 DEF LoopResult
  <2> HIDE DEF zero
  <2>6. SameFrom(W, r, z)
    BY <1>1, <1>3, <1>5, <2>2, <2>4, <2>5, LoopFrom
  <2>7. z.needs_merge
    BY <1>10, <2>6 DEF SameFrom
  <2>8. CASE active
    <3>1. active = TRUE
      BY <2>8
    <3>2. z = CheckTerms(system.terms, TRUE, {})
      BY <3>1 DEF CheckTerms, zero, start, terms
    <3> QED
      BY <2>7, <3>2 DEF NeedsNoMerge
  <2>9. CASE ~active
    <3>1. active = FALSE
      BY <2>9
    <3>2. zero \in Checks /\ zero.written = {} /\ ~zero.needs_merge
      BY <1>1, <2>1, <3>1, LoopInactive DEF zero
    <3>3. ~z.needs_merge
      BY <1>1, <3>1, <3>2, LoopInactive
    <3> QED
      BY <2>7, <3>3
  <2> QED
    BY <2>8, <2>9
<1> QED
  BY <1>4, <1>6, <1>7, <1>8, <1>9, <1>10 DEF SystemResult

\* After a merge the write state holds what the system itself stages.
LEMMA WrittenAfterMerge ==
    ASSUME NEW system \in SystemRecords, NeedsNoMerge(system), NEW active \in BOOLEAN
    PROVE  WrittenAfter(system, active) = IF active THEN StagedBy(system) ELSE {}
<1> DEFINE r == CheckTerms(system.terms, TRUE, {})
<1>1. ~r.needs_merge
  BY DEF NeedsNoMerge
<1>2. SystemResult(system, TRUE, {}, r)
  BY SystemCheck
<1> HIDE DEF r
<1>3. r.written = StagedBy(system)
  BY <1>1, <1>2 DEF SystemResult
<1> QED
  BY <1>3 DEF WrittenAfter, r

-----------------------------------------------------------------------------
(***************************************************************************)
(* When one system depends on another                                        *)
(***************************************************************************)

\* What is taken to be staged is something that overlaps.
LEMMA StagedOverlaps ==
    ASSUME NEW W \in SUBSET Ids, NEW id \in Ids, Staged(W, id)
    PROVE  \E w \in W : Overlap(w, id)
<1>1. PICK w \in W : w = AnyId \/ id = AnyId \/ (~IsWildcard(w) /\ Match(w, id)) \/ Match(id, w)
  BY DEF Staged
<1>2. CASE w = AnyId \/ id = AnyId
  BY <1>2 DEF Overlap
<1>3. CASE Match(w, id) /\ id # AnyId
  <2>1. Len(w) = Len(id) /\ \A k \in DOMAIN w : id[k] \in {"*", w[k]}
    BY <1>3 DEF Match
  <2> QED
    BY <2>1 DEF Overlap
<1>4. CASE Match(id, w) /\ w # AnyId
  <2>1. Len(w) = Len(id) /\ \A k \in DOMAIN id : w[k] \in {"*", id[k]}
    BY <1>4 DEF Match
  <2>2. DOMAIN w = DOMAIN id
    BY <2>1 DEF Ids
  <2>3. \A k \in DOMAIN w : "*" \in {w[k], id[k]} \/ w[k] = id[k]
    BY <2>1, <2>2
  <2> QED
    BY <2>1, <2>3 DEF Overlap
<1> QED
  BY <1>1, <1>2, <1>3, <1>4

\* What overlaps is taken to be staged, but for wildcards in different places.
LEMMA OverlapIsStaged ==
    ASSUME NEW W \in SUBSET Ids, NEW w \in W, NEW id \in Ids, Overlap(w, id),
           IsWildcard(w) /\ IsWildcard(id) => AnyId \in {w, id} \/ Match(id, w)
    PROVE  Staged(W, id)
<1>1. CASE AnyId \in {w, id}
  BY <1>1 DEF Staged
<1>2. CASE AnyId \notin {w, id}
  <2>1. Len(w) = Len(id) /\ \A k \in DOMAIN w : "*" \in {w[k], id[k]} \/ w[k] = id[k]
    BY <1>2 DEF Overlap
  <2>2. DOMAIN w = DOMAIN id
    BY <2>1 DEF Ids
  <2>3. CASE ~IsWildcard(w)
    <3>1. \A k \in DOMAIN w : w[k] # "*"
      BY <2>3 DEF IsWildcard
    <3>2. \A k \in DOMAIN w : id[k] \in {"*", w[k]}
      BY <2>1, <3>1
    <3>3. Match(w, id)
      BY <2>1, <3>2 DEF Match
    <3> QED
      BY <2>3, <3>3 DEF Staged
  <2>4. CASE ~IsWildcard(id)
    <3>1. \A k \in DOMAIN id : id[k] # "*"
      BY <2>4 DEF IsWildcard
    <3>2. \A k \in DOMAIN id : w[k] \in {"*", id[k]}
      BY <2>1, <2>2, <3>1
    <3>3. Match(id, w)
      BY <2>1, <3>2 DEF Match
    <3> QED
      BY <3>3 DEF Staged
  <2>5. CASE IsWildcard(w) /\ IsWildcard(id)
    <3>1. Match(id, w)
      BY <1>2, <2>5
    <3> QED
      BY <3>1 DEF Staged
  <2> QED
    BY <2>3, <2>4, <2>5
<1> QED
  BY <1>1, <1>2

LEMMA SystemIds ==
    ASSUME NEW system \in SystemRecords
    PROVE  StagedBy(system) \subseteq Ids /\ AccessedBy(system) \subseteq Ids
<1>1. Range(system.terms) \subseteq Terms
  BY DEF SystemRecords, Range
<1> QED
  BY <1>1 DEF StagedBy, AccessedBy, Terms

\* A system that accesses nothing of what is staged does not depend on one that
\* has staged.
LEMMA NotStagedNoDependency ==
    ASSUME NEW later \in SystemRecords, NEW earlier \in SystemRecords, Nested(later, earlier),
           NEW W \in SUBSET Ids, StagedBy(earlier) \subseteq W,
           \A id \in AccessedBy(later) : ~Staged(W, id)
    PROVE  ~Depends(later, earlier)
<1> SUFFICES ASSUME Depends(later, earlier) PROVE FALSE
  OBVIOUS
<1>1. PICK id \in StagedBy(earlier), other \in AccessedBy(later) : Overlap(id, other)
  BY DEF Depends
<1>2. id \in W /\ id \in Ids /\ other \in Ids
  BY SystemIds
<1>3. IsWildcard(id) /\ IsWildcard(other) => AnyId \in {id, other} \/ Match(other, id)
  BY <1>1 DEF Nested
<1>4. Staged(W, other)
  BY <1>1, <1>2, <1>3, OverlapIsStaged
<1> QED
  BY <1>4

-----------------------------------------------------------------------------
(***************************************************************************)
(* How one more system changes the schedule                                  *)
(***************************************************************************)

OperationRecords == [offset : Nat, count : Nat, multi_threaded : BOOLEAN, immediate : BOOLEAN]
Builds == [systems : Seq(Systems), ops : Seq(OperationRecords), written : SUBSET Ids,
           first : BOOLEAN, multi_threaded : BOOLEAN, immediate : BOOLEAN]

\* A merge comes before a system, a system is the first of a new operation.
Merges(b, system, active) ==
    NeedsMerge(b, system, active, CheckTerms(system.terms, active, b.written).needs_merge)
Opens(b, system, active) == NewOperation(b, Merges(b, system, active))

NewOps(b, system, active) ==
    IF Opens(b, system, active) THEN Append(b.ops, Operation(Len(b.systems))) ELSE b.ops

Added(b, s, system, active, r) ==
    /\ r \in Builds
    /\ r.systems = IF active THEN Append(b.systems, s) ELSE b.systems
    /\ r.ops = IF active
               THEN [NewOps(b, system, active) EXCEPT
                        ![Len(NewOps(b, system, active))] = Filled(@, system)]
               ELSE NewOps(b, system, active)
    /\ r.written = IF Merges(b, system, active)
                   THEN IF active THEN StagedBy(system) ELSE {}
                   ELSE CheckTerms(system.terms, active, b.written).written
    /\ r.first = (b.first /\ ~active)
    /\ r.multi_threaded = IF active THEN system.multi_threaded ELSE b.multi_threaded
    /\ r.immediate = IF active THEN system.immediate ELSE b.immediate

LEMMA AddSystemFacts ==
    ASSUME NEW b \in Builds, NEW s \in Systems, NEW system \in SystemRecords, NeedsNoMerge(system),
           NEW active \in BOOLEAN, NEW r, r = AddSystem(b, s, system, active)
    PROVE  Added(b, s, system, active, r)
<1> DEFINE check == CheckTerms(system.terms, active, b.written)
           needs_merge == NeedsMerge(b, system, active, check.needs_merge)
           opened == IF NewOperation(b, needs_merge)
                     THEN Append(b.ops, Operation(Len(b.systems))) ELSE b.ops
           mode == IF active THEN system ELSE b
           written == IF needs_merge THEN WrittenAfter(system, active) ELSE check.written
           filled == IF active THEN [opened EXCEPT ![Len(opened)] = Filled(@, system)] ELSE opened
           following == IF active THEN Append(b.systems, s) ELSE b.systems
<1>1. r = [systems |-> following, ops |-> filled, written |-> written,
           first |-> b.first /\ ~active,
           multi_threaded |-> mode.multi_threaded, immediate |-> mode.immediate]
  BY DEF AddSystem
<1>2. b.systems \in Seq(Systems) /\ b.ops \in Seq(OperationRecords) /\ b.written \in SUBSET Ids
  BY DEF Builds
<1>3. written = IF needs_merge THEN IF active THEN StagedBy(system) ELSE {} ELSE check.written
  BY WrittenAfterMerge
<1>4. written \in SUBSET Ids
  <2>1. SystemResult(system, active, b.written, check)
    BY <1>2, SystemCheck
  <2> HIDE DEF check
  <2>2. check.written \in SUBSET Ids
    BY <2>1 DEF SystemResult, Checks
  <2> HIDE DEF needs_merge, written
  <2> QED
    BY <1>3, <2>2, SystemIds
<1>5. opened \in Seq(OperationRecords) /\ opened # <<>>
  <2> HIDE DEF needs_merge
  <2>1. Operation(Len(b.systems)) \in OperationRecords
    BY <1>2 DEF Operation, OperationRecords
  <2>2. CASE NewOperation(b, needs_merge)
    BY <1>2, <2>1, <2>2
  <2>3. CASE ~NewOperation(b, needs_merge)
    BY <1>2, <2>3 DEF NewOperation
  <2> QED
    BY <2>2, <2>3
<1>6. filled \in Seq(OperationRecords)
  <2> HIDE DEF opened
  <2>1. Len(opened) \in 1 .. Len(opened)
    BY <1>5
  <2> DEFINE op == opened[Len(opened)]
  <2>2. op \in OperationRecords
    BY <1>5, <2>1
  <2> HIDE DEF op
  <2>3. system.multi_threaded \in BOOLEAN /\ system.immediate \in BOOLEAN
    BY DEF SystemRecords
  <2>4. Filled(op, system) \in OperationRecords
    <3>1. CASE op.count > 0
      <4>1. Filled(op, system) = [op EXCEPT !.count = @ + 1]
        BY <3>1 DEF Filled
      <4> QED
        BY <2>2, <4>1 DEF OperationRecords
    <3>2. CASE ~(op.count > 0)
      <4>1. Filled(op, system) = [op EXCEPT !.count = 1, !.multi_threaded = system.multi_threaded,
                                            !.immediate = system.immediate]
        BY <3>2 DEF Filled
      <4>2. Filled(op, system) = [offset |-> op.offset, count |-> 1,
                                  multi_threaded |-> system.multi_threaded,
                                  immediate |-> system.immediate]
        BY <2>2, <4>1 DEF OperationRecords
      <4>3. op.offset \in Nat
        BY <2>2 DEF OperationRecords
      <4> QED
        BY <2>3, <4>2, <4>3 DEF OperationRecords
    <3> QED
      BY <3>1, <3>2
  <2> QED
    BY <1>5, <2>1, <2>4 DEF op
<1>7. following \in Seq(Systems)
  BY <1>2
<1>8. /\ mode.multi_threaded = IF active THEN system.multi_threaded ELSE b.multi_threaded
      /\ mode.immediate = IF active THEN system.immediate ELSE b.immediate
      /\ mode.multi_threaded \in BOOLEAN /\ mode.immediate \in BOOLEAN
      /\ b.first \in BOOLEAN
  BY DEF SystemRecords, Builds
<1>9. /\ filled = IF active
                  THEN [NewOps(b, system, active) EXCEPT
                           ![Len(NewOps(b, system, active))] = Filled(@, system)]
                  ELSE NewOps(b, system, active)
      /\ needs_merge = Merges(b, system, active)
  BY DEF NewOps, Opens, Merges
<1> HIDE DEF needs_merge, opened, mode, written, filled, following, check
<1>10. r \in Builds
  BY <1>1, <1>4, <1>6, <1>7, <1>8 DEF Builds
<1>11. /\ r.systems = following /\ r.ops = filled /\ r.written = written
       /\ r.first = (b.first /\ ~active)
       /\ r.multi_threaded = mode.multi_threaded /\ r.immediate = mode.immediate
  BY <1>1
<1> QED
  BY <1>3, <1>8, <1>9, <1>10, <1>11 DEF following, check, Added

-----------------------------------------------------------------------------
(***************************************************************************)
(* The shape of a schedule                                                   *)
(***************************************************************************)

\* The places of an operation's systems, and the last of them
Places(op) == op.offset + 1 .. op.offset + op.count
End(op) == op.offset + op.count

\* The operations take up the systems one after the other.
Tiled(list, seq) ==
    /\ seq = <<>> => list = <<>>
    /\ seq # <<>> => seq[1].offset = 0 /\ End(seq[Len(seq)]) = Len(list)
    /\ \A o \in 1 .. Len(seq) : End(seq[o]) <= Len(list)
    /\ \A o \in 1 .. Len(seq) - 1 : seq[o].count > 0 /\ seq[o + 1].offset = End(seq[o])
    /\ \A i \in 1 .. Len(list) : \E o \in 1 .. Len(seq) : i \in Places(seq[o])

Increasing(list) == \A i, j \in 1 .. Len(list) : i < j => list[i] < list[j]

\* The systems of an operation are run in the operation's way.
Uniform(list, seq, D) ==
    \A o \in 1 .. Len(seq) :
        /\ \A i \in Places(seq[o]) : /\ D[list[i]].multi_threaded = seq[o].multi_threaded
                                     /\ D[list[i]].immediate = seq[o].immediate
        /\ seq[o].immediate => seq[o].count = 1

\* A new operation begins where the systems end.
LEMMA OpenTiled ==
    ASSUME NEW list \in Seq(Systems), NEW seq \in Seq(OperationRecords), Tiled(list, seq),
           seq # <<>> => seq[Len(seq)].count > 0,
           NEW new, new = Append(seq, Operation(Len(list)))
    PROVE  Tiled(list, new)
<1> DEFINE L == Len(seq)
           op == Operation(Len(list))
<1>1. L \in Nat /\ Len(list) \in Nat
  OBVIOUS
<1>2. op.offset = Len(list) /\ op.count = 0 /\ End(op) = Len(list) /\ op \in OperationRecords
  BY <1>1 DEF Operation, End, OperationRecords
<1>3. Len(new) = L + 1 /\ new[L + 1] = op /\ \A o \in 1 .. L : new[o] = seq[o]
  OBVIOUS
<1> HIDE DEF L, op
<1>4. seq = <<>> <=> L = 0
  BY DEF L
<1>5. /\ L = 0 => Len(list) = 0
      /\ L # 0 => seq[1].offset = 0 /\ End(seq[L]) = Len(list)
      /\ \A o \in 1 .. L : End(seq[o]) <= Len(list)
      /\ \A o \in 1 .. L - 1 : seq[o].count > 0 /\ seq[o + 1].offset = End(seq[o])
      /\ \A i \in 1 .. Len(list) : \E o \in 1 .. L : i \in Places(seq[o])
  BY <1>4 DEF Tiled, L
<1>6. new # <<>>
  BY <1>1, <1>3
<1>7. new[1].offset = 0 /\ End(new[Len(new)]) = Len(list)
  <2>1. CASE L = 0
    BY <1>2, <1>3, <1>5, <2>1
  <2>2. CASE L # 0
    <3>1. new[1] = seq[1]
      BY <1>1, <1>3, <2>2
    <3> QED
      BY <1>2, <1>3, <1>5, <2>2, <3>1
  <2> QED
    BY <2>1, <2>2
<1>8. \A o \in 1 .. Len(new) : End(new[o]) <= Len(list)
  <2> TAKE o \in 1 .. Len(new)
  <2>1. o = L + 1 \/ o \in 1 .. L
    BY <1>1, <1>3
  <2> QED
    BY <1>1, <1>2, <1>3, <1>5, <2>1
<1>9. ASSUME NEW o \in 1 .. Len(new) - 1
      PROVE  new[o].count > 0 /\ new[o + 1].offset = End(new[o])
  <2>1. o \in 1 .. L /\ new[o] = seq[o]
    BY <1>1, <1>3
  <2>2. CASE o = L
    <3>1. seq[L].count > 0
      BY <1>4, <2>1, <2>2 DEF L
    <3>2. new[o + 1] = op
      BY <1>3, <2>2
    <3> QED
      BY <1>2, <1>5, <2>1, <2>2, <3>1, <3>2
  <2>3. CASE o # L
    <3>1. o \in 1 .. L - 1 /\ o + 1 \in 1 .. L
      BY <1>1, <2>1, <2>3
    <3> QED
      BY <1>3, <1>5, <2>1, <3>1
  <2> QED
    BY <2>2, <2>3
<1>10. ASSUME NEW i \in 1 .. Len(list) PROVE \E o \in 1 .. Len(new) : i \in Places(new[o])
  <2>1. PICK o \in 1 .. L : i \in Places(seq[o])
    BY <1>5
  <2>2. o \in 1 .. Len(new) /\ new[o] = seq[o]
    BY <1>1, <1>3
  <2> QED
    BY <2>1, <2>2
<1> QED
  BY <1>6, <1>7, <1>8, <1>9, <1>10 DEF Tiled

\* One more system is in the last operation.
LEMMA FillTiled ==
    ASSUME NEW list \in Seq(Systems), NEW seq \in Seq(OperationRecords), Tiled(list, seq),
           seq # <<>>, NEW s \in Systems, NEW op \in OperationRecords,
           op.offset = seq[Len(seq)].offset, op.count = seq[Len(seq)].count + 1,
           NEW new, new = [seq EXCEPT ![Len(seq)] = op]
    PROVE  Tiled(Append(list, s), new)
<1> DEFINE L == Len(seq)
           longer == Append(list, s)
<1>1. L \in Nat /\ L >= 1 /\ Len(list) \in Nat
  OBVIOUS
<1>2. Len(new) = L /\ new[L] = op /\ \A o \in 1 .. L - 1 : new[o] = seq[o]
  OBVIOUS
<1>3. Len(longer) = Len(list) + 1
  OBVIOUS
<1>4. \A o \in 1 .. L : seq[o] \in OperationRecords
  OBVIOUS
<1>5. /\ seq[1].offset = 0 /\ End(seq[L]) = Len(list)
      /\ \A o \in 1 .. L : End(seq[o]) <= Len(list)
      /\ \A o \in 1 .. L - 1 : seq[o].count > 0 /\ seq[o + 1].offset = End(seq[o])
      /\ \A i \in 1 .. Len(list) : \E o \in 1 .. L : i \in Places(seq[o])
  BY DEF Tiled
<1>6. op.offset = seq[L].offset /\ op.count = seq[L].count + 1 /\ seq[L] \in OperationRecords
  BY <1>1, <1>4
<1>7. op.offset \in Nat /\ op.count \in Nat /\ seq[L].offset \in Nat /\ seq[L].count \in Nat
  BY <1>6 DEF OperationRecords
<1> HIDE DEF L, longer
<1>8. End(op) = Len(longer)
  BY <1>3, <1>5, <1>6, <1>7 DEF End
<1>9. new # <<>> /\ longer # <<>>
  BY <1>1, <1>2, <1>3
<1>10. new[1].offset = 0
  BY <1>1, <1>2, <1>5, <1>6
<1>11. \A o \in 1 .. Len(new) : End(new[o]) <= Len(longer)
  <2> TAKE o \in 1 .. Len(new)
  <2>1. o = L \/ o \in 1 .. L - 1
    BY <1>1, <1>2
  <2>2. CASE o = L
    BY <1>1, <1>2, <1>3, <1>8, <2>2
  <2>3. CASE o \in 1 .. L - 1
    <3>1. new[o] = seq[o] /\ o \in 1 .. L
      BY <1>1, <1>2, <2>3
    <3>2. End(seq[o]) \in Nat
      BY <1>4, <3>1 DEF End, OperationRecords
    <3> QED
      BY <1>1, <1>3, <1>5, <3>1, <3>2
  <2> QED
    BY <2>1, <2>2, <2>3
<1>12. ASSUME NEW o \in 1 .. Len(new) - 1
       PROVE  new[o].count > 0 /\ new[o + 1].offset = End(new[o])
  <2>1. o \in 1 .. L - 1 /\ o + 1 \in 1 .. L /\ new[o] = seq[o]
    BY <1>1, <1>2
  <2>2. new[o + 1].offset = seq[o + 1].offset
    <3>1. o + 1 = L \/ o + 1 \in 1 .. L - 1
      BY <1>1, <2>1
    <3> QED
      BY <1>2, <1>6, <3>1
  <2> QED
    BY <1>5, <2>1, <2>2
<1>13. ASSUME NEW i \in 1 .. Len(longer) PROVE \E o \in 1 .. Len(new) : i \in Places(new[o])
  <2>1. CASE i = Len(longer)
    <3>1. i \in Places(op)
      BY <1>1, <1>3, <1>6, <1>8, <2>1, SMTT(30) DEF Places, End, OperationRecords
    <3> QED
      BY <1>1, <1>2, <3>1
  <2>2. CASE i # Len(longer)
    <3>1. i \in 1 .. Len(list)
      BY <1>1, <1>3, <2>2
    <3>2. PICK o \in 1 .. L : i \in Places(seq[o])
      BY <1>5, <3>1
    <3>3. CASE o = L
      <4>1. i \in Places(op)
        BY <1>6, <1>7, <3>2, <3>3 DEF Places
      <4> QED
        BY <1>1, <1>2, <4>1
    <3>4. CASE o # L
      <4>1. o \in 1 .. L - 1
        BY <1>1, <3>4
      <4> QED
        BY <1>2, <3>2, <4>1
    <3> QED
      BY <3>3, <3>4
  <2> QED
    BY <2>1, <2>2
<1>14. End(new[Len(new)]) = Len(longer)
  BY <1>2, <1>8
<1> QED
  BY <1>9, <1>10, <1>11, <1>12, <1>13, <1>14 DEF Tiled, longer

LEMMA AppendIncreasing ==
    ASSUME NEW list \in Seq(Systems), Increasing(list), NEW s \in Systems,
           \A i \in 1 .. Len(list) : list[i] < s
    PROVE  Increasing(Append(list, s))
<1> DEFINE longer == Append(list, s)
<1>1. Len(longer) = Len(list) + 1 /\ Len(list) \in Nat
  OBVIOUS
<1>2. longer[Len(list) + 1] = s /\ \A i \in 1 .. Len(list) : longer[i] = list[i]
  OBVIOUS
<1> HIDE DEF longer
<1>3. ASSUME NEW i \in 1 .. Len(longer), NEW j \in 1 .. Len(longer), i < j
      PROVE  longer[i] < longer[j]
  <2>1. i \in 1 .. Len(list)
    BY <1>1, <1>3
  <2>2. CASE j = Len(list) + 1
    BY <1>2, <2>1, <2>2
  <2>3. CASE j # Len(list) + 1
    <3>1. j \in 1 .. Len(list)
      BY <1>1, <2>3
    <3> QED
      BY <1>2, <1>3, <2>1, <3>1 DEF Increasing
  <2> QED
    BY <2>2, <2>3
<1> QED
  BY <1>3 DEF Increasing, longer

LEMMA OpenUniform ==
    ASSUME NEW list \in Seq(Systems), NEW seq \in Seq(OperationRecords), NEW D, Uniform(list, seq, D),
           NEW new, new = Append(seq, Operation(Len(list)))
    PROVE  Uniform(list, new, D)
<1> DEFINE L == Len(seq)
           op == Operation(Len(list))
<1>1. L \in Nat /\ Len(new) = L + 1 /\ new[L + 1] = op /\ \A o \in 1 .. L : new[o] = seq[o]
  OBVIOUS
<1>2. Places(op) = {} /\ ~op.immediate
  BY DEF Operation, Places
<1> HIDE DEF op
<1>3. ASSUME NEW o \in 1 .. Len(new)
      PROVE  /\ \A i \in Places(new[o]) : /\ D[list[i]].multi_threaded = new[o].multi_threaded
                                          /\ D[list[i]].immediate = new[o].immediate
             /\ new[o].immediate => new[o].count = 1
  <2>1. CASE o = L + 1
    BY <1>1, <1>2, <2>1
  <2>2. CASE o # L + 1
    <3>1. o \in 1 .. L
      BY <1>1, <2>2
    <3> QED
      BY <1>1, <3>1 DEF Uniform
  <2> QED
    BY <2>1, <2>2
<1> QED
  BY <1>3 DEF Uniform

\* The places of the last operation, with one more system.
LEMMA FillPlaces ==
    ASSUME NEW list \in Seq(Systems), NEW seq \in Seq(OperationRecords), Tiled(list, seq),
           seq # <<>>, NEW op \in OperationRecords,
           op.offset = seq[Len(seq)].offset, op.count = seq[Len(seq)].count + 1
    PROVE  /\ Places(op) = Places(seq[Len(seq)]) \cup {Len(list) + 1}
           /\ \A o \in 1 .. Len(seq) : Places(seq[o]) \subseteq 1 .. Len(list)
<1> DEFINE L == Len(seq)
<1>1. L \in 1 .. L /\ Len(list) \in Nat
  OBVIOUS
<1>2. \A o \in 1 .. L : seq[o].offset \in Nat /\ seq[o].count \in Nat
  <2>1. \A o \in 1 .. L : seq[o] \in OperationRecords
    OBVIOUS
  <2> QED
    BY <2>1 DEF OperationRecords
<1>3. End(seq[L]) = Len(list) /\ \A o \in 1 .. L : End(seq[o]) <= Len(list)
  BY DEF Tiled
<1>4. op.offset \in Nat /\ op.count \in Nat /\ op.offset = seq[L].offset /\ op.count = seq[L].count + 1
  BY DEF OperationRecords
<1> HIDE DEF L
<1>5. Places(op) = Places(seq[L]) \cup {Len(list) + 1}
  <2>1. \A from, to \in Nat : from <= to => from + 1 .. to + 1 = (from + 1 .. to) \cup {to + 1}
    OBVIOUS
  <2>2. PICK from \in Nat, count \in Nat : seq[L].offset = from /\ seq[L].count = count
    BY <1>1, <1>2
  <2>3. from + count = Len(list)
    BY <1>3, <2>2 DEF End
  <2>4. op.offset = from /\ op.count = count + 1
    BY <1>4, <2>2
  <2>5. op.offset + op.count = Len(list) + 1 /\ from <= Len(list)
    BY <1>1, <2>3, <2>4
  <2>6. Places(op) = from + 1 .. Len(list) + 1 /\ Places(seq[L]) = from + 1 .. Len(list)
    BY <2>2, <2>3, <2>4, <2>5 DEF Places
  <2> QED
    BY <1>1, <2>1, <2>5, <2>6
<1>6. \A o \in 1 .. L : Places(seq[o]) \subseteq 1 .. Len(list)
  BY <1>1, <1>2, <1>3, SMTT(30) DEF Places, End
<1> QED
  BY <1>5, <1>6 DEF L

LEMMA FillUniform ==
    ASSUME NEW list \in Seq(Systems), NEW seq \in Seq(OperationRecords), Tiled(list, seq),
           seq # <<>>, NEW s \in Systems, NEW D, Uniform(list, seq, D),
           NEW op \in OperationRecords,
           op.offset = seq[Len(seq)].offset, op.count = seq[Len(seq)].count + 1,
           op.multi_threaded = D[s].multi_threaded, op.immediate = D[s].immediate,
           \/ seq[Len(seq)].count = 0
           \/ /\ seq[Len(seq)].multi_threaded = op.multi_threaded
              /\ seq[Len(seq)].immediate = op.immediate
              /\ ~op.immediate,
           NEW new, new = [seq EXCEPT ![Len(seq)] = op]
    PROVE  Uniform(Append(list, s), new, D)
<1> DEFINE L == Len(seq)
           longer == Append(list, s)
<1>1. L \in 1 .. L /\ Len(list) \in Nat /\ L \in Nat
  OBVIOUS
<1>2. Len(new) = L /\ new[L] = op /\ \A o \in 1 .. L - 1 : new[o] = seq[o]
  OBVIOUS
<1>3. longer[Len(list) + 1] = s /\ \A i \in 1 .. Len(list) : longer[i] = list[i]
  OBVIOUS
<1>4. /\ Places(op) = Places(seq[L]) \cup {Len(list) + 1}
      /\ \A o \in 1 .. L : Places(seq[o]) \subseteq 1 .. Len(list)
  BY FillPlaces
<1>5. \/ seq[L].count = 0
      \/ /\ seq[L].multi_threaded = op.multi_threaded
         /\ seq[L].immediate = op.immediate
         /\ ~op.immediate
  OBVIOUS
<1>6. op.count = seq[L].count + 1
  OBVIOUS
<1> HIDE DEF longer
<1>7. ASSUME NEW o \in 1 .. Len(new)
      PROVE  /\ \A i \in Places(new[o]) : /\ D[longer[i]].multi_threaded = new[o].multi_threaded
                                          /\ D[longer[i]].immediate = new[o].immediate
             /\ new[o].immediate => new[o].count = 1
  <2>1. CASE o = L
    <3>1. ASSUME NEW i \in Places(op)
          PROVE  D[longer[i]].multi_threaded = op.multi_threaded /\ D[longer[i]].immediate = op.immediate
      <4>1. CASE i = Len(list) + 1
        BY <1>3, <4>1
      <4>2. CASE i # Len(list) + 1
        <5>1. i \in Places(seq[L]) /\ longer[i] = list[i]
          BY <1>1, <1>3, <1>4, <3>1, <4>2
        <5>2. seq[L].count # 0
          <6>1. seq[L] \in OperationRecords
            BY <1>1
          <6>2. seq[L].offset \in Nat /\ seq[L].count \in Nat
            BY <6>1 DEF OperationRecords
          <6> QED
            BY <5>1, <6>2 DEF Places
        <5>3. D[list[i]].multi_threaded = seq[L].multi_threaded /\ D[list[i]].immediate = seq[L].immediate
          BY <1>1, <5>1 DEF Uniform
        <5> QED
          BY <1>5, <5>1, <5>2, <5>3
      <4> QED
        BY <4>1, <4>2
    <3>2. op.immediate => op.count = 1
      BY <1>5, <1>6
    <3> QED
      BY <1>2, <2>1, <3>1, <3>2
  <2>2. CASE o # L
    <3>1. o \in 1 .. L - 1 /\ o \in 1 .. L
      BY <1>1, <1>2, <2>2
    <3>2. new[o] = seq[o] /\ \A i \in Places(seq[o]) : longer[i] = list[i]
      BY <1>2, <1>3, <1>4, <3>1
    <3> QED
      BY <3>1, <3>2 DEF Uniform
  <2> QED
    BY <2>1, <2>2
<1> QED
  BY <1>7 DEF Uniform, longer

\* The schedule with the systems up to n
BuildShape(b, n, D, active) ==
    /\ b \in Builds
    /\ Increasing(b.systems)
    /\ Range(b.systems) = active \cap (1 .. n)
    /\ Tiled(b.systems, b.ops)
    /\ Uniform(b.systems, b.ops, D)
    /\ b.first <=> b.systems = <<>>
    /\ b.systems = <<>> => ~b.immediate
    /\ b.systems # <<>> => /\ b.multi_threaded = D[b.systems[Len(b.systems)]].multi_threaded
                           /\ b.immediate = D[b.systems[Len(b.systems)]].immediate

\* Where the last operation has systems, and is filled further, it is run as the
\* system asks for.
LEMMA FillMode ==
    ASSUME NEW D \in [Systems -> SystemRecords], NEW active \in SUBSET Systems, NEW n \in Systems,
           NEW b, BuildShape(b, n - 1, D, active),
           n \in active, ~Opens(b, D[n], TRUE), b.ops[Len(b.ops)].count # 0
    PROVE  /\ b.ops[Len(b.ops)].multi_threaded = D[n].multi_threaded
           /\ b.ops[Len(b.ops)].immediate = D[n].immediate
           /\ ~D[n].immediate
<1> DEFINE L == Len(b.ops)
           op == b.ops[L]
           S == Len(b.systems)
<1>1. b.systems \in Seq(Systems) /\ b.ops \in Seq(OperationRecords)
  BY DEF BuildShape, Builds
<1>2. b.ops # <<>> /\ ~(Merges(b, D[n], TRUE) /\ op.count > 0)
  BY DEF Opens, NewOperation
<1>3. L \in 1 .. L /\ op \in OperationRecords /\ S \in Nat
  BY <1>1, <1>2
<1>4. op.offset \in Nat /\ op.count \in Nat
  BY <1>3 DEF OperationRecords
<1>5. ~Merges(b, D[n], TRUE)
  <2>1. op.count > 0
    BY <1>4
  <2> QED
    BY <1>2, <2>1, Zenon
<1>6. /\ ~(~b.first /\ <<b.multi_threaded, b.immediate>> # <<D[n].multi_threaded, D[n].immediate>>)
      /\ ~D[n].immediate
  BY <1>5 DEF Merges, NeedsMerge
<1>7. End(op) = S
  BY <1>2 DEF BuildShape, Tiled
<1>8. S \in Places(op) /\ b.systems # <<>>
  BY <1>1, <1>3, <1>4, <1>7 DEF Places, End
<1>9. D[b.systems[S]].multi_threaded = op.multi_threaded /\ D[b.systems[S]].immediate = op.immediate
  BY <1>3, <1>8 DEF BuildShape, Uniform
<1>10. /\ b.multi_threaded = D[b.systems[S]].multi_threaded
       /\ b.immediate = D[b.systems[S]].immediate
       /\ ~b.first
  BY <1>8 DEF BuildShape
<1> QED
  BY <1>6, <1>9, <1>10

\* Where an operation is opened, the one before it has systems.
Opened(b, system, act, D, mid) ==
    /\ mid \in Seq(OperationRecords) /\ mid # <<>>
    /\ Tiled(b.systems, mid) /\ Uniform(b.systems, mid, D)
    /\ Opens(b, system, act) => /\ Len(mid) = Len(b.ops) + 1
                                /\ mid[Len(mid)] = Operation(Len(b.systems))
                                /\ \A o \in 1 .. Len(b.ops) : mid[o] = b.ops[o]
    /\ ~Opens(b, system, act) => mid = b.ops

LEMMA OpenShape ==
    ASSUME NEW D, NEW active, NEW m, NEW b, BuildShape(b, m, D, active), NEW system,
           NEW act \in BOOLEAN, NEW mid, mid = NewOps(b, system, act)
    PROVE  Opened(b, system, act, D, mid)
<1> DEFINE op == Operation(Len(b.systems))
<1>1. b.systems \in Seq(Systems) /\ b.ops \in Seq(OperationRecords)
  BY DEF BuildShape, Builds
<1>2. Tiled(b.systems, b.ops) /\ Uniform(b.systems, b.ops, D)
  BY DEF BuildShape
<1>3. CASE Opens(b, system, act)
  <2>1. mid = Append(b.ops, op)
    BY <1>3 DEF NewOps
  <2>2. op \in OperationRecords
    BY <1>1 DEF Operation, OperationRecords
  <2>3. b.ops # <<>> => b.ops[Len(b.ops)].count > 0
    BY <1>3 DEF Opens, NewOperation
  <2>4. Tiled(b.systems, mid)
    BY <1>1, <1>2, <2>1, <2>3, OpenTiled
  <2>5. Uniform(b.systems, mid, D)
    BY <1>1, <1>2, <2>1, OpenUniform
  <2> HIDE DEF op
  <2>6. /\ mid \in Seq(OperationRecords) /\ mid # <<>>
        /\ Len(mid) = Len(b.ops) + 1 /\ mid[Len(mid)] = op
        /\ \A o \in 1 .. Len(b.ops) : mid[o] = b.ops[o]
    BY <1>1, <2>1, <2>2
  <2> QED
    BY <1>3, <2>4, <2>5, <2>6 DEF op, Opened
<1>4. CASE ~Opens(b, system, act)
  <2>1. mid = b.ops /\ b.ops # <<>>
    BY <1>4 DEF NewOps, Opens, NewOperation
  <2> QED
    BY <1>1, <1>2, <1>4, <2>1 DEF Opened
<1> QED
  BY <1>3, <1>4

LEMMA FilledFacts ==
    ASSUME NEW op \in OperationRecords, NEW system \in SystemRecords,
           NEW filled, filled = Filled(op, system)
    PROVE  /\ filled \in OperationRecords
           /\ filled.offset = op.offset /\ filled.count = op.count + 1
           /\ filled.multi_threaded = IF op.count = 0 THEN system.multi_threaded ELSE op.multi_threaded
           /\ filled.immediate = IF op.count = 0 THEN system.immediate ELSE op.immediate
<1>1. op.offset \in Nat /\ op.count \in Nat /\ op.multi_threaded \in BOOLEAN /\ op.immediate \in BOOLEAN
  BY DEF OperationRecords
<1>2. system.multi_threaded \in BOOLEAN /\ system.immediate \in BOOLEAN
  BY DEF SystemRecords
<1>3. CASE op.count > 0
  <2>1. filled = [op EXCEPT !.count = @ + 1]
    BY <1>3 DEF Filled
  <2>2. filled = [offset |-> op.offset, count |-> op.count + 1,
                  multi_threaded |-> op.multi_threaded, immediate |-> op.immediate]
    BY <2>1 DEF OperationRecords
  <2>3. op.count + 1 \in Nat /\ op.count # 0
    BY <1>1, <1>3
  <2> QED
    BY <1>1, <2>2, <2>3 DEF OperationRecords
<1>4. CASE ~(op.count > 0)
  <2>1. filled = [op EXCEPT !.count = 1, !.multi_threaded = system.multi_threaded,
                            !.immediate = system.immediate]
    BY <1>4 DEF Filled
  <2>2. filled = [offset |-> op.offset, count |-> 1,
                  multi_threaded |-> system.multi_threaded, immediate |-> system.immediate]
    BY <2>1 DEF OperationRecords
  <2>3. op.count = 0 /\ op.count + 1 = 1
    BY <1>1, <1>4
  <2> QED
    BY <1>1, <1>2, <2>2, <2>3 DEF OperationRecords
<1> QED
  BY <1>3, <1>4

LEMMA ShapeStep ==
    ASSUME NEW D \in [Systems -> SystemRecords], \A s \in Systems : NeedsNoMerge(D[s]),
           NEW active \in SUBSET Systems, NEW n \in Systems,
           NEW b, BuildShape(b, n - 1, D, active),
           NEW r, r = AddSystem(b, n, D[n], n \in active)
    PROVE  BuildShape(r, n, D, active)
<1> DEFINE act == n \in active
           system == D[n]
           mid == NewOps(b, system, act)
           L == Len(mid)
           op == Filled(mid[L], system)
<1>1. /\ b \in Builds /\ b.systems \in Seq(Systems)
      /\ system \in SystemRecords /\ NeedsNoMerge(system) /\ act \in BOOLEAN
  BY DEF BuildShape, Builds
<1>2. n \in Nat /\ Systems \subseteq Nat
  BY DEF Systems
<1>3. /\ r \in Builds
      /\ r.systems = IF act THEN Append(b.systems, n) ELSE b.systems
      /\ r.ops = IF act THEN [mid EXCEPT ![L] = op] ELSE mid
      /\ r.first = (b.first /\ ~act)
      /\ r.multi_threaded = IF act THEN system.multi_threaded ELSE b.multi_threaded
      /\ r.immediate = IF act THEN system.immediate ELSE b.immediate
  <2>1. r = AddSystem(b, n, system, act)
    OBVIOUS
  <2> HIDE DEF system, act
  <2>2. Added(b, n, system, act, r)
    BY <1>1, <2>1, AddSystemFacts
  <2> QED
    BY <2>2 DEF Added
<1>4. /\ mid \in Seq(OperationRecords) /\ mid # <<>>
      /\ Tiled(b.systems, mid) /\ Uniform(b.systems, mid, D)
      /\ Opens(b, system, act) => mid[L] = Operation(Len(b.systems))
      /\ ~Opens(b, system, act) => mid = b.ops
  <2> HIDE DEF system, act
  <2>1. Opened(b, system, act, D, mid)
    BY <1>1, OpenShape
  <2> QED
    BY <2>1 DEF Opened
<1>5. /\ Increasing(b.systems) /\ Range(b.systems) = active \cap (1 .. n - 1)
      /\ b.first <=> b.systems = <<>>
      /\ b.systems = <<>> => ~b.immediate
      /\ b.systems # <<>> => /\ b.multi_threaded = D[b.systems[Len(b.systems)]].multi_threaded
                             /\ b.immediate = D[b.systems[Len(b.systems)]].immediate
  BY DEF BuildShape
<1>6. CASE ~act
  <2>1. active \cap (1 .. n) = active \cap (1 .. n - 1)
    BY <1>2, <1>6
  <2> HIDE DEF mid
  <2>2. r.systems = b.systems /\ r.ops = mid /\ (r.first <=> b.first)
        /\ r.multi_threaded = b.multi_threaded /\ r.immediate = b.immediate
    BY <1>3, <1>6
  <2> QED
    BY <1>3, <1>4, <1>5, <2>1, <2>2 DEF BuildShape
<1>7. CASE act
  <2>1. L \in 1 .. L /\ mid[L] \in OperationRecords
    <3> HIDE DEF mid
    <3> QED
      BY <1>4
  <2>2. /\ op \in OperationRecords
        /\ op.offset = mid[L].offset /\ op.count = mid[L].count + 1
        /\ op.multi_threaded = IF mid[L].count = 0 THEN system.multi_threaded ELSE mid[L].multi_threaded
        /\ op.immediate = IF mid[L].count = 0 THEN system.immediate ELSE mid[L].immediate
    <3> HIDE DEF mid
    <3> QED
      BY <1>1, <2>1, FilledFacts
  <2>3. \/ mid[L].count = 0
        \/ /\ mid[L].multi_threaded = system.multi_threaded
           /\ mid[L].immediate = system.immediate
           /\ ~system.immediate
    <3>1. CASE Opens(b, system, act)
      <4> HIDE DEF mid
      <4> QED
        BY <1>4, <3>1 DEF Operation
    <3>2. CASE ~Opens(b, system, act)
      <4>1. mid = b.ops /\ ~Opens(b, D[n], TRUE)
        BY <1>4, <1>7, <3>2
      <4> HIDE DEF mid
      <4> QED
        BY <1>7, <4>1, FillMode
    <3> QED
      BY <3>1, <3>2
  <2> HIDE DEF mid, op
  <2>4. op.multi_threaded = system.multi_threaded /\ op.immediate = system.immediate
    BY <2>2, <2>3
  <2>5. Tiled(Append(b.systems, n), [mid EXCEPT ![L] = op])
    BY <1>1, <1>4, <2>2, FillTiled
  <2>6. Uniform(Append(b.systems, n), [mid EXCEPT ![L] = op], D)
    BY <1>1, <1>4, <2>2, <2>3, <2>4, FillUniform
  <2>7. \A i \in 1 .. Len(b.systems) : b.systems[i] < n
    <3>1. \A i \in 1 .. Len(b.systems) : b.systems[i] \in Range(b.systems)
      BY <1>1 DEF Range
    <3> QED
      BY <1>2, <1>5, <3>1
  <2>8. Increasing(Append(b.systems, n))
    BY <1>1, <1>5, <2>7, AppendIncreasing
  <2>9. Range(Append(b.systems, n)) = active \cap (1 .. n)
    <3>1. Range(Append(b.systems, n)) = Range(b.systems) \cup {n}
      <4> DEFINE list == b.systems
      <4>1. list \in Seq(Systems)
        BY <1>1
      <4> HIDE DEF list
      <4>2. DOMAIN Append(list, n) = (DOMAIN list) \cup {Len(list) + 1}
        BY <4>1
      <4>3. Append(list, n)[Len(list) + 1] = n /\ \A i \in DOMAIN list : Append(list, n)[i] = list[i]
        BY <4>1
      <4>4. Range(Append(list, n)) = Range(list) \cup {n}
        BY <4>2, <4>3 DEF Range
      <4> QED
        BY <4>4 DEF list
    <3>2. active \cap (1 .. n) = (active \cap (1 .. n - 1)) \cup {n}
      <4>1. 1 .. n = (1 .. n - 1) \cup {n} /\ n \in active
        BY <1>2, <1>7 DEF Systems
      <4> QED
        BY <4>1
    <3> QED
      BY <1>5, <3>1, <3>2
  <2>10. /\ r.systems = Append(b.systems, n) /\ r.ops = [mid EXCEPT ![L] = op]
         /\ ~r.first
         /\ r.multi_threaded = system.multi_threaded /\ r.immediate = system.immediate
    BY <1>3, <1>7
  <2>11. r.systems # <<>> /\ r.systems[Len(r.systems)] = n
    BY <1>1, <2>10
  <2> QED
    BY <1>3, <2>5, <2>6, <2>8, <2>9, <2>10, <2>11 DEF BuildShape
<1> QED
  BY <1>6, <1>7

-----------------------------------------------------------------------------
(***************************************************************************)
(* What is in the write state, and what merges are for                       *)
(***************************************************************************)

\* The places in the last operation that were there before the system
Carried(b, system, act) == IF Opens(b, system, act) THEN {} ELSE Places(b.ops[Len(b.ops)])

\* Why there is a merge before a system
MergeReason(b, system, act) ==
    \/ \E id \in AccessedBy(system) : Staged(b.written, id)
    \/ /\ act /\ b.systems # <<>>
       /\ <<b.multi_threaded, b.immediate>> # <<system.multi_threaded, system.immediate>>
    \/ act /\ system.immediate
    \/ ~act /\ b.immediate

\* One system after the others
StepOps(b, n, system, act, r) ==
    /\ r.ops # <<>>
    /\ Len(r.ops) = IF Opens(b, system, act) THEN Len(b.ops) + 1 ELSE Len(b.ops)
    /\ \A o \in 1 .. Len(r.ops) - 1 : o \in 1 .. Len(b.ops) /\ r.ops[o] = b.ops[o]
    /\ Opens(b, system, act) => r.ops[Len(r.ops)].offset = Len(b.systems)
    /\ ~Opens(b, system, act) => r.ops[Len(r.ops)].offset = b.ops[Len(b.ops)].offset
    /\ ~Opens(b, system, act) /\ b.ops[Len(b.ops)].count # 0 =>
           /\ r.ops[Len(r.ops)].multi_threaded = b.ops[Len(b.ops)].multi_threaded
           /\ r.ops[Len(r.ops)].immediate = b.ops[Len(b.ops)].immediate
    /\ Carried(b, system, act) \subseteq 1 .. Len(b.systems)
    /\ Places(r.ops[Len(r.ops)]) = Carried(b, system, act) \cup (IF act THEN {Len(b.systems) + 1} ELSE {})
    /\ Merges(b, system, act) => Carried(b, system, act) = {}
    /\ Opens(b, system, act) /\ ~Merges(b, system, act) => b.ops = <<>>
    /\ \A i \in 1 .. Len(b.systems) : r.systems[i] = b.systems[i]
    /\ act => Len(r.systems) = Len(b.systems) + 1 /\ r.systems[Len(b.systems) + 1] = n
    /\ ~act => r.systems = b.systems

StepWritten(b, n, system, act, r) ==
    /\ Merges(b, system, act) =>
           r.written = (IF act THEN StagedBy(system) ELSE {}) /\ MergeReason(b, system, act)
    /\ ~Merges(b, system, act) =>
           /\ b.written \subseteq r.written
           /\ r.written \subseteq b.written \cup (IF act THEN StagedBy(system) ELSE {})
           /\ act => StagedBy(system) \subseteq r.written
           /\ \A id \in AccessedBy(system) : ~Staged(b.written, id)

LEMMA LastReplaced ==
    ASSUME NEW T, NEW seq \in Seq(T), seq # <<>>, NEW e, NEW new, new = [seq EXCEPT ![Len(seq)] = e]
    PROVE  /\ Len(new) = Len(seq) /\ new # <<>> /\ new[Len(seq)] = e
           /\ \A o \in 1 .. Len(seq) - 1 : new[o] = seq[o]
<1>1. DOMAIN seq = 1 .. Len(seq) /\ Len(seq) \in Nat /\ Len(seq) >= 1
  OBVIOUS
<1>2. DOMAIN new = 1 .. Len(seq)
  BY <1>1
<1>3. Len(new) = Len(seq)
  BY <1>1, <1>2
<1>4. new[Len(seq)] = e
  BY <1>1
<1>5. ASSUME NEW o \in 1 .. Len(seq) - 1 PROVE new[o] = seq[o]
  <2>1. \A n \in Nat : \A k \in 1 .. n - 1 : k \in 1 .. n /\ k # n
    OBVIOUS
  <2>2. o \in DOMAIN seq /\ o # Len(seq)
    BY <1>1, <2>1
  <2> QED
    BY <2>2
<1>6. new # <<>>
  BY <1>1, <1>3
<1> QED
  BY <1>3, <1>4, <1>5, <1>6

LEMMA Appended ==
    ASSUME NEW T, NEW seq \in Seq(T), NEW e, NEW new, new = Append(seq, e)
    PROVE  /\ Len(new) = Len(seq) + 1 /\ new[Len(seq) + 1] = e
           /\ \A o \in 1 .. Len(seq) : new[o] = seq[o]
  OBVIOUS

LEMMA StepOpsFacts ==
    ASSUME NEW D \in [Systems -> SystemRecords], \A s \in Systems : NeedsNoMerge(D[s]),
           NEW active \in SUBSET Systems, NEW n \in Systems,
           NEW b, BuildShape(b, n - 1, D, active), NEW act \in BOOLEAN,
           NEW system, system = D[n], NEW r, r = AddSystem(b, n, system, act)
    PROVE  StepOps(b, n, system, act, r)
<1> DEFINE mid == NewOps(b, system, act)
           L == Len(mid)
           op == Filled(mid[L], system)
           B == Len(b.ops)
           S == Len(b.systems)
<1>1. /\ b \in Builds /\ b.systems \in Seq(Systems) /\ b.ops \in Seq(OperationRecords)
      /\ system \in SystemRecords /\ NeedsNoMerge(system)
  BY DEF BuildShape, Builds
<1>2. /\ r.systems = IF act THEN Append(b.systems, n) ELSE b.systems
      /\ r.ops = IF act THEN [mid EXCEPT ![L] = op] ELSE mid
  <2>1. Added(b, n, system, act, r)
    BY <1>1, AddSystemFacts
  <2> QED
    BY <2>1 DEF Added
<1>3. /\ mid \in Seq(OperationRecords) /\ mid # <<>>
      /\ Tiled(b.systems, mid)
      /\ Opens(b, system, act) => /\ L = B + 1 /\ mid[L] = Operation(S)
                                  /\ \A o \in 1 .. B : mid[o] = b.ops[o]
      /\ ~Opens(b, system, act) => mid = b.ops
  <2>1. Opened(b, system, act, D, mid)
    BY <1>1, OpenShape
  <2> QED
    BY <2>1 DEF Opened
<1> HIDE DEF mid
<1>4. L \in 1 .. L /\ mid[L] \in OperationRecords /\ S \in Nat /\ B \in Nat
  BY <1>1, <1>3
<1>5. /\ op \in OperationRecords
      /\ op.offset = mid[L].offset /\ op.count = mid[L].count + 1
      /\ op.multi_threaded = IF mid[L].count = 0 THEN system.multi_threaded ELSE mid[L].multi_threaded
      /\ op.immediate = IF mid[L].count = 0 THEN system.immediate ELSE mid[L].immediate
  BY <1>1, <1>4, FilledFacts
<1>6. /\ Places(op) = Places(mid[L]) \cup {S + 1}
      /\ \A o \in 1 .. L : Places(mid[o]) \subseteq 1 .. S
  BY <1>1, <1>3, <1>5, FillPlaces
<1> HIDE DEF op
<1>7. Places(mid[L]) = Carried(b, system, act)
  <2>1. CASE Opens(b, system, act)
    <3>1. mid[L] = Operation(S)
      BY <1>3, <2>1
    <3>2. Places(Operation(S)) = {}
      BY <1>4 DEF Places, Operation
    <3> QED
      BY <2>1, <3>1, <3>2 DEF Carried
  <2>2. CASE ~Opens(b, system, act)
    BY <1>3, <2>2 DEF Carried
  <2> QED
    BY <2>1, <2>2
<1>8. Merges(b, system, act) => Carried(b, system, act) = {}
  <2> SUFFICES ASSUME Merges(b, system, act), ~Opens(b, system, act) PROVE Carried(b, system, act) = {}
    BY DEF Carried
  <2>1. ~(b.ops[B].count > 0) /\ mid = b.ops
    BY <1>3 DEF Opens, NewOperation
  <2>2. mid[L].offset \in Nat /\ mid[L].count \in Nat
    BY <1>4 DEF OperationRecords
  <2>3. Places(mid[L]) = {}
    BY <2>1, <2>2 DEF Places
  <2> QED
    BY <1>7, <2>3
<1>9. Opens(b, system, act) /\ ~Merges(b, system, act) => b.ops = <<>>
  BY DEF Opens, NewOperation
<1>10. /\ Len(r.ops) = L /\ r.ops # <<>>
       /\ r.ops[L] = IF act THEN op ELSE mid[L]
       /\ \A o \in 1 .. L - 1 : r.ops[o] = mid[o]
  <2>1. CASE act
    <3> DEFINE new == [mid EXCEPT ![Len(mid)] = op]
    <3>1. r.ops = new
      BY <1>2, <2>1
    <3>2. /\ Len(new) = L /\ new # <<>> /\ new[L] = op
          /\ \A o \in 1 .. L - 1 : new[o] = mid[o]
      BY <1>3, LastReplaced
    <3> HIDE DEF new, L
    <3> QED
      BY <2>1, <3>1, <3>2
  <2>2. CASE ~act
    <3>1. r.ops = mid
      BY <1>2, <2>2
    <3> QED
      BY <1>3, <1>4, <2>2, <3>1
  <2> QED
    BY <2>1, <2>2
<1>11. /\ L = IF Opens(b, system, act) THEN B + 1 ELSE B
       /\ \A o \in 1 .. L - 1 : o \in 1 .. B /\ mid[o] = b.ops[o]
       /\ Opens(b, system, act) => mid[L].offset = S
       /\ ~Opens(b, system, act) => mid[L].offset = b.ops[B].offset
  <2>1. CASE Opens(b, system, act)
    BY <1>3, <1>4, <2>1 DEF Operation
  <2>2. CASE ~Opens(b, system, act)
    BY <1>3, <1>4, <2>2
  <2> QED
    BY <2>1, <2>2
<1>12. Places(r.ops[L]) = Carried(b, system, act) \cup (IF act THEN {S + 1} ELSE {})
  BY <1>6, <1>7, <1>10
<1>13. r.ops[L].offset = mid[L].offset
  BY <1>5, <1>10
<1>14. /\ \A i \in 1 .. S : r.systems[i] = b.systems[i]
       /\ act => Len(r.systems) = S + 1 /\ r.systems[S + 1] = n
       /\ ~act => r.systems = b.systems
  <2>1. CASE act
    <3> DEFINE new == Append(b.systems, n)
    <3>1. r.systems = new
      BY <1>2, <2>1
    <3>2. /\ Len(new) = S + 1 /\ new[S + 1] = n
          /\ \A i \in 1 .. S : new[i] = b.systems[i]
      BY <1>1, Appended
    <3> HIDE DEF new, S
    <3> QED
      BY <2>1, <3>1, <3>2
  <2>2. CASE ~act
    <3>1. r.systems = b.systems
      BY <1>2, <2>2
    <3> QED
      BY <2>2, <3>1
  <2> QED
    BY <2>1, <2>2
<1>15. Carried(b, system, act) \subseteq 1 .. S
  BY <1>4, <1>6, <1>7
<1>16. ~Opens(b, system, act) /\ b.ops[B].count # 0 =>
           /\ r.ops[L].multi_threaded = b.ops[B].multi_threaded
           /\ r.ops[L].immediate = b.ops[B].immediate
  <2> SUFFICES ASSUME ~Opens(b, system, act), b.ops[B].count # 0
               PROVE  /\ r.ops[L].multi_threaded = b.ops[B].multi_threaded
                      /\ r.ops[L].immediate = b.ops[B].immediate
    OBVIOUS
  <2>1. mid[L] = b.ops[B]
    BY <1>3
  <2> HIDE DEF L, B
  <2> QED
    BY <1>5, <1>10, <2>1
<1> HIDE DEF L, B, S
<1>17. \A o \in 1 .. L - 1 : o \in 1 .. B /\ r.ops[o] = b.ops[o]
  BY <1>10, <1>11
<1>18. /\ Opens(b, system, act) => r.ops[L].offset = S
       /\ ~Opens(b, system, act) => r.ops[L].offset = b.ops[B].offset
  BY <1>11, <1>13
<1>19. Len(r.ops) = L /\ r.ops # <<>> /\ L = IF Opens(b, system, act) THEN B + 1 ELSE B
  BY <1>10, <1>11
<1> QED
  BY <1>8, <1>9, <1>12, <1>14, <1>15, <1>17, <1>18, <1>19, <1>16 DEF StepOps, S, B

LEMMA StepWrittenFacts ==
    ASSUME NEW D \in [Systems -> SystemRecords], \A s \in Systems : NeedsNoMerge(D[s]),
           NEW active \in SUBSET Systems, NEW n \in Systems,
           NEW b, BuildShape(b, n - 1, D, active), NEW act \in BOOLEAN,
           NEW system, system = D[n], NEW r, r = AddSystem(b, n, system, act)
    PROVE  StepWritten(b, n, system, act, r)
<1> DEFINE check == CheckTerms(system.terms, act, b.written)
           merges == Merges(b, system, act)
<1>1. /\ b \in Builds /\ b.written \in SUBSET Ids /\ (b.first <=> b.systems = <<>>)
      /\ system \in SystemRecords /\ NeedsNoMerge(system)
  BY DEF BuildShape, Builds
<1>2. r.written = IF merges THEN IF act THEN StagedBy(system) ELSE {} ELSE check.written
  <2>1. Added(b, n, system, act, r)
    BY <1>1, AddSystemFacts
  <2> QED
    BY <2>1 DEF Added
<1>3. SystemResult(system, act, b.written, check)
  BY <1>1, SystemCheck
<1>4. merges <=> \/ check.needs_merge
                 \/ act /\ ~b.first /\ <<b.multi_threaded, b.immediate>>
                                         # <<system.multi_threaded, system.immediate>>
                 \/ act /\ system.immediate
                 \/ ~act /\ b.immediate
  BY DEF Merges, NeedsMerge
<1> HIDE DEF check, merges
<1>5. ASSUME merges PROVE MergeReason(b, system, act)
  <2>1. check.needs_merge => \E id \in AccessedBy(system) : Staged(b.written, id)
    BY <1>3 DEF SystemResult
  <2> QED
    BY <1>1, <1>4, <1>5, <2>1 DEF MergeReason
<1>6. ASSUME merges PROVE r.written = IF act THEN StagedBy(system) ELSE {}
  BY <1>2, <1>6
<1>7. ASSUME ~merges
      PROVE  /\ b.written \subseteq r.written
             /\ r.written \subseteq b.written \cup (IF act THEN StagedBy(system) ELSE {})
             /\ act => StagedBy(system) \subseteq r.written
             /\ \A id \in AccessedBy(system) : ~Staged(b.written, id)
  <2>1. r.written = check.written /\ ~check.needs_merge
    BY <1>2, <1>4, <1>7
  <2> QED
    BY <1>3, <2>1 DEF SystemResult
<1> QED
  BY <1>5, <1>6, <1>7 DEF StepWritten, merges

LEMMA PlacesFacts ==
    ASSUME NEW op \in OperationRecords
    PROVE  /\ Places(op) = {} <=> op.count = 0
           /\ op.count > 0 => op.offset + 1 \in Places(op) /\ End(op) \in Places(op)
<1>1. op.offset \in Nat /\ op.count \in Nat
  BY DEF OperationRecords
<1>2. \A from, count \in Nat : (from + 1 .. from + count = {} <=> count = 0)
  OBVIOUS
<1>3. \A from, count \in Nat : count > 0 => /\ from + 1 \in from + 1 .. from + count
                                          /\ from + count \in from + 1 .. from + count
  OBVIOUS
<1> QED
  BY <1>1, <1>2, <1>3 DEF Places, End

\* What is known of the schedule when a system is added
LEMMA ShapeFacts ==
    ASSUME NEW D, NEW active, NEW m \in Int, NEW b, BuildShape(b, m, D, active)
    PROVE  /\ b \in Builds /\ b.systems \in Seq(Systems) /\ b.ops \in Seq(OperationRecords)
           /\ b.written \in SUBSET Ids
           /\ \A o \in 1 .. Len(b.ops) : b.ops[o] \in OperationRecords
           /\ \A o \in 1 .. Len(b.ops) : Places(b.ops[o]) \subseteq 1 .. Len(b.systems)
           /\ \A i \in 1 .. Len(b.systems) : b.systems[i] \in active /\ b.systems[i] \in 1 .. m
<1>1. b \in Builds /\ b.systems \in Seq(Systems) /\ b.ops \in Seq(OperationRecords)
      /\ b.written \in SUBSET Ids
  BY DEF BuildShape, Builds
<1>2. \A o \in 1 .. Len(b.ops) : b.ops[o] \in OperationRecords
  BY <1>1
<1>3. ASSUME NEW o \in 1 .. Len(b.ops) PROVE Places(b.ops[o]) \subseteq 1 .. Len(b.systems)
  <2>1. b.ops[o].offset \in Nat /\ b.ops[o].count \in Nat
    BY <1>2 DEF OperationRecords
  <2>2. End(b.ops[o]) <= Len(b.systems) /\ Len(b.systems) \in Nat
    BY <1>1 DEF BuildShape, Tiled
  <2>3. \A from, count, n \in Nat : from + count <= n => from + 1 .. from + count \subseteq 1 .. n
    OBVIOUS
  <2> QED
    BY <2>1, <2>2, <2>3 DEF Places, End
<1>4. \A i \in 1 .. Len(b.systems) : b.systems[i] \in Range(b.systems)
  BY <1>1 DEF Range
<1>5. Range(b.systems) = active \cap (1 .. m)
  BY DEF BuildShape
<1> QED
  BY <1>1, <1>2, <1>3, <1>4, <1>5

\* The write state is what the systems of the last operation stage.
Wrote(b, D) ==
    /\ \A i \in IF b.ops = <<>> THEN {} ELSE Places(b.ops[Len(b.ops)]) :
           StagedBy(D[b.systems[i]]) \subseteq b.written
    /\ \A id \in b.written : \E i \in IF b.ops = <<>> THEN {} ELSE Places(b.ops[Len(b.ops)]) :
           id \in StagedBy(D[b.systems[i]])

LEMMA WroteStep ==
    ASSUME NEW D \in [Systems -> SystemRecords], NEW n \in Systems, NEW b, Wrote(b, D),
           NEW act \in BOOLEAN, NEW system, system = D[n], NEW r,
           StepOps(b, n, system, act, r), StepWritten(b, n, system, act, r)
    PROVE  Wrote(r, D)
<1> DEFINE last == r.ops[Len(r.ops)]
           kept == Carried(b, system, act)
           S == Len(b.systems)
           before == IF b.ops = <<>> THEN {} ELSE Places(b.ops[Len(b.ops)])
<1>1. /\ r.ops # <<>>
      /\ Places(last) = kept \cup (IF act THEN {S + 1} ELSE {})
      /\ kept \subseteq 1 .. S
      /\ \A i \in 1 .. S : r.systems[i] = b.systems[i]
      /\ act => r.systems[S + 1] = n
      /\ Merges(b, system, act) => kept = {}
      /\ Opens(b, system, act) /\ ~Merges(b, system, act) => b.ops = <<>>
  BY DEF StepOps
<1>2. ~Opens(b, system, act) => b.ops # <<>> /\ kept = before
  BY DEF Opens, NewOperation, Carried
<1>3. Opens(b, system, act) => kept = {}
  BY DEF Carried
<1>4. ~Merges(b, system, act) => kept = before
  BY <1>1, <1>2, <1>3
<1> HIDE DEF kept
<1>5. /\ \A i \in before : StagedBy(D[b.systems[i]]) \subseteq b.written
      /\ \A id \in b.written : \E i \in before : id \in StagedBy(D[b.systems[i]])
  BY DEF Wrote
<1> HIDE DEF last, S, before
<1>6. CASE Merges(b, system, act)
  <2>1. r.written = IF act THEN StagedBy(system) ELSE {}
    BY <1>6 DEF StepWritten
  <2>2. Places(last) = IF act THEN {S + 1} ELSE {}
    BY <1>1, <1>6
  <2>3. \A i \in Places(last) : r.systems[i] = n
    BY <1>1, <2>2
  <2>4. \A i \in Places(last) : StagedBy(D[r.systems[i]]) \subseteq r.written
    BY <2>1, <2>2, <2>3
  <2>5. \A id \in r.written : \E i \in Places(last) : id \in StagedBy(D[r.systems[i]])
    BY <2>1, <2>2, <2>3
  <2> QED
    BY <1>1, <2>4, <2>5 DEF Wrote, last
<1>7. CASE ~Merges(b, system, act)
  <2>1. /\ b.written \subseteq r.written
        /\ r.written \subseteq b.written \cup (IF act THEN StagedBy(system) ELSE {})
        /\ act => StagedBy(system) \subseteq r.written
    BY <1>7 DEF StepWritten
  <2>2. \A i \in before : r.systems[i] = b.systems[i]
    BY <1>1, <1>4, <1>7
  <2>3. ASSUME NEW i \in Places(last) PROVE StagedBy(D[r.systems[i]]) \subseteq r.written
    <3>1. CASE i \in before
      BY <1>5, <2>1, <2>2, <3>1
    <3>2. CASE i \notin before
      <4>1. act /\ r.systems[i] = n
        BY <1>1, <1>4, <1>7, <3>2
      <4> QED
        BY <2>1, <4>1
    <3> QED
      BY <3>1, <3>2
  <2>4. ASSUME NEW id \in r.written PROVE \E i \in Places(last) : id \in StagedBy(D[r.systems[i]])
    <3>1. CASE id \in b.written
      <4>1. PICK i \in before : id \in StagedBy(D[b.systems[i]])
        BY <1>5, <3>1
      <4>2. i \in Places(last) /\ r.systems[i] = b.systems[i]
        BY <1>1, <1>4, <1>7, <2>2
      <4> QED
        BY <4>1, <4>2
    <3>2. CASE id \notin b.written
      <4>1. act /\ id \in StagedBy(system)
        BY <2>1, <3>2
      <4>2. S + 1 \in Places(last) /\ r.systems[S + 1] = n
        BY <1>1, <4>1
      <4> QED
        BY <4>1, <4>2
    <3> QED
      BY <3>1, <3>2
  <2> QED
    BY <1>1, <2>3, <2>4 DEF Wrote, last
<1> QED
  BY <1>6, <1>7

\* No system of an operation stages what a later one, that is not behind the
\* operation's systems, accesses.
Apart(list, seq, D, enabled) ==
    \A o \in 1 .. Len(seq) : \A i, j \in Places(seq[o]) : \A x \in enabled :
        list[i] < x /\ x <= list[j] => ~Depends(D[x], D[list[i]])

\* The same for the last operation while it can still grow
Pending(b, n, D, enabled) ==
    b.ops # <<>> =>
        \A i \in Places(b.ops[Len(b.ops)]) : \A x \in enabled \cap (1 .. n) :
            b.systems[i] < x => ~Depends(D[x], D[b.systems[i]])

LEMMA PendingStep ==
    ASSUME NEW D \in [Systems -> SystemRecords], \A x, y \in Systems : Nested(D[x], D[y]),
           NEW enabled \in SUBSET Systems, NEW active, NEW n \in Systems,
           NEW b, BuildShape(b, n - 1, D, active), Wrote(b, D), Pending(b, n - 1, D, enabled),
           NEW act \in BOOLEAN, NEW system, system = D[n], NEW r,
           StepOps(b, n, system, act, r), StepWritten(b, n, system, act, r)
    PROVE  Pending(r, n, D, enabled)
<1> DEFINE last == r.ops[Len(r.ops)]
           kept == Carried(b, system, act)
           S == Len(b.systems)
<1>1. /\ Places(last) = kept \cup (IF act THEN {S + 1} ELSE {})
      /\ kept \subseteq 1 .. S
      /\ \A i \in 1 .. S : r.systems[i] = b.systems[i]
      /\ act => r.systems[S + 1] = n
      /\ Merges(b, system, act) => kept = {}
  BY DEF StepOps
<1>2. n \in Nat /\ n - 1 \in Int /\ Systems \subseteq Nat
  BY DEF Systems
<1>3. /\ b.systems \in Seq(Systems) /\ b.written \in SUBSET Ids
      /\ \A i \in 1 .. S : b.systems[i] \in 1 .. n - 1
  BY <1>2, ShapeFacts
<1>4. kept # {} => /\ b.ops # <<>> /\ kept = Places(b.ops[Len(b.ops)])
                   /\ ~Merges(b, system, act)
  BY <1>1 DEF Opens, NewOperation, Carried
<1> HIDE DEF kept
<1>5. ASSUME NEW i \in Places(last), NEW x \in enabled \cap (1 .. n), r.systems[i] < x
      PROVE  ~Depends(D[x], D[r.systems[i]])
  <2>1. i \in kept
    <3>1. ~(r.systems[i] = n)
      BY <1>2, <1>5
    <3> QED
      BY <1>1, <3>1
  <2>2. r.systems[i] = b.systems[i] /\ b.systems[i] \in Systems /\ i \in 1 .. S
    <3>1. i \in 1 .. S
      BY <1>1, <2>1
    <3> QED
      BY <1>1, <1>3, <3>1
  <2>3. b.ops # <<>> /\ i \in Places(b.ops[Len(b.ops)]) /\ ~Merges(b, system, act)
    BY <1>4, <2>1
  <2>4. CASE x = n
    <3>1. StagedBy(D[b.systems[i]]) \subseteq b.written
      BY <2>3 DEF Wrote
    <3>2. \A id \in AccessedBy(system) : ~Staged(b.written, id)
      BY <2>3 DEF StepWritten
    <3>3. D[n] \in SystemRecords /\ D[b.systems[i]] \in SystemRecords /\ Nested(D[n], D[b.systems[i]])
      BY <2>2
    <3>4. ~Depends(D[n], D[b.systems[i]])
      BY <1>3, <3>1, <3>2, <3>3, NotStagedNoDependency
    <3> QED
      BY <2>2, <2>4, <3>4
  <2>5. CASE x # n
    <3>1. x \in enabled \cap (1 .. n - 1)
      BY <1>2, <2>5
    <3> QED
      BY <1>5, <2>2, <2>3, <3>1 DEF Pending
  <2> QED
    BY <2>4, <2>5
<1> QED
  BY <1>5 DEF Pending

LEMMA ApartStep ==
    ASSUME NEW D \in [Systems -> SystemRecords], NEW enabled \in SUBSET Systems,
           NEW active, NEW n \in Systems,
           NEW b, BuildShape(b, n - 1, D, active), Apart(b.systems, b.ops, D, enabled),
           NEW act \in BOOLEAN, NEW system, system = D[n], NEW r,
           BuildShape(r, n, D, active), StepOps(b, n, system, act, r), Pending(r, n, D, enabled)
    PROVE  Apart(r.systems, r.ops, D, enabled)
<1>1. n \in Nat /\ n \in Int /\ n - 1 \in Int /\ Systems \subseteq Nat
  BY DEF Systems
<1>2. \A o \in 1 .. Len(b.ops) : Places(b.ops[o]) \subseteq 1 .. Len(b.systems)
  BY <1>1, ShapeFacts
<1>3. /\ \A o \in 1 .. Len(r.ops) : Places(r.ops[o]) \subseteq 1 .. Len(r.systems)
      /\ \A i \in 1 .. Len(r.systems) : r.systems[i] \in 1 .. n
      /\ r.ops \in Seq(OperationRecords)
  BY <1>1, ShapeFacts
<1>4. /\ r.ops # <<>>
      /\ \A o \in 1 .. Len(r.ops) - 1 : o \in 1 .. Len(b.ops) /\ r.ops[o] = b.ops[o]
      /\ \A i \in 1 .. Len(b.systems) : r.systems[i] = b.systems[i]
  BY DEF StepOps
<1>5. ASSUME NEW o \in 1 .. Len(r.ops), NEW i \in Places(r.ops[o]), NEW j \in Places(r.ops[o]),
             NEW x \in enabled, r.systems[i] < x, x <= r.systems[j]
      PROVE  ~Depends(D[x], D[r.systems[i]])
  <2>1. CASE o = Len(r.ops)
    <3>1. r.systems[j] \in 1 .. n
      BY <1>3
    <3>2. x \in enabled \cap (1 .. n)
      BY <1>1, <1>5, <3>1 DEF Systems
    <3> QED
      BY <1>4, <1>5, <2>1, <3>2 DEF Pending
  <2>2. CASE o # Len(r.ops)
    <3>1. o \in 1 .. Len(r.ops) - 1
      BY <1>3, <2>2
    <3>2. o \in 1 .. Len(b.ops) /\ r.ops[o] = b.ops[o]
      BY <1>4, <3>1
    <3>3. i \in 1 .. Len(b.systems) /\ j \in 1 .. Len(b.systems)
      BY <1>2, <3>2
    <3>4. r.systems[i] = b.systems[i] /\ r.systems[j] = b.systems[j]
      BY <1>4, <3>3
    <3> QED
      BY <1>5, <3>2, <3>4 DEF Apart
  <2> QED
    BY <2>1, <2>2
<1> QED
  BY <1>5 DEF Apart

-----------------------------------------------------------------------------

\* Why there is a merge between an operation and the next: a system at the
\* border is the next operation's first, or an inactive one before it.
Reason(list, seq, D, enabled, active, o) ==
    \/ seq[o].multi_threaded # seq[o + 1].multi_threaded
    \/ seq[o].immediate
    \/ seq[o + 1].immediate
    \/ \E i \in Places(seq[o]), x \in enabled :
          /\ list[i] < x
          /\ LET next == list[seq[o + 1].offset + 1] IN x = next \/ (x \notin active /\ x < next)
          /\ Depends(D[x], D[list[i]])

Reasons(list, seq, D, enabled, active) ==
    \A o \in 1 .. Len(seq) - 1 : seq[o + 1].count > 0 => Reason(list, seq, D, enabled, active, o)

\* The same before an operation that has no systems yet
PendingReason(b, n, D, enabled, active) ==
    Len(b.ops) > 1 /\ b.ops[Len(b.ops)].count = 0 =>
        \/ b.ops[Len(b.ops) - 1].immediate
        \/ \E i \in Places(b.ops[Len(b.ops) - 1]), x \in enabled :
              b.systems[i] < x /\ x <= n /\ x \notin active /\ Depends(D[x], D[b.systems[i]])

\* A system that accesses what is staged depends on one of the last operation.
LEMMA StagedReason ==
    ASSUME NEW D \in [Systems -> SystemRecords], NEW b, b.systems \in Seq(Systems),
           b.written \in SUBSET Ids, Wrote(b, D), b.ops # <<>>,
           NEW system \in SystemRecords, NEW id \in AccessedBy(system), Staged(b.written, id)
    PROVE  \E i \in Places(b.ops[Len(b.ops)]) : Depends(system, D[b.systems[i]])
<1>1. id \in Ids
  BY SystemIds
<1>2. PICK w \in b.written : Overlap(w, id)
  BY <1>1, StagedOverlaps
<1>3. PICK i \in Places(b.ops[Len(b.ops)]) : w \in StagedBy(D[b.systems[i]])
  BY DEF Wrote
<1> QED
  BY <1>2, <1>3 DEF Depends

\* An operation that has systems is run as the last of them is.
LEMMA LastMode ==
    ASSUME NEW D, NEW active, NEW m \in Int, NEW b, BuildShape(b, m, D, active),
           b.ops # <<>>, b.ops[Len(b.ops)].count > 0
    PROVE  /\ b.systems # <<>>
           /\ b.ops[Len(b.ops)].multi_threaded = b.multi_threaded
           /\ b.ops[Len(b.ops)].immediate = b.immediate
<1> DEFINE L == Len(b.ops)
<1>1. b.ops \in Seq(OperationRecords) /\ b.systems \in Seq(Systems)
  BY ShapeFacts
<1>2. L \in 1 .. L /\ b.ops[L] \in OperationRecords
  BY <1>1
<1>3. End(b.ops[L]) = Len(b.systems)
  BY DEF BuildShape, Tiled
<1>4. Len(b.systems) \in Places(b.ops[L])
  BY <1>2, <1>3, PlacesFacts
<1>5. Places(b.ops[L]) \subseteq 1 .. Len(b.systems)
  BY <1>2, ShapeFacts
<1>6. b.systems # <<>>
  BY <1>1, <1>4, <1>5
<1> HIDE DEF L
<1>7. /\ D[b.systems[Len(b.systems)]].multi_threaded = b.ops[L].multi_threaded
      /\ D[b.systems[Len(b.systems)]].immediate = b.ops[L].immediate
  BY <1>2, <1>4 DEF BuildShape, Uniform, L
<1> QED
  BY <1>6, <1>7 DEF BuildShape, L

LEMMA PendingReasonStep ==
    ASSUME NEW D \in [Systems -> SystemRecords],
           NEW enabled \in SUBSET Systems, NEW active, NEW n \in enabled,
           NEW b, BuildShape(b, n - 1, D, active), Wrote(b, D),
           PendingReason(b, n - 1, D, enabled, active),
           NEW act \in BOOLEAN, act <=> n \in active, NEW system, system = D[n], NEW r,
           BuildShape(r, n, D, active),
           StepOps(b, n, system, act, r), StepWritten(b, n, system, act, r)
    PROVE  PendingReason(r, n, D, enabled, active)
<1> SUFFICES ASSUME Len(r.ops) > 1, r.ops[Len(r.ops)].count = 0
             PROVE  \/ r.ops[Len(r.ops) - 1].immediate
                    \/ \E i \in Places(r.ops[Len(r.ops) - 1]), x \in enabled :
                          /\ r.systems[i] < x /\ x <= n /\ x \notin active
                          /\ Depends(D[x], D[r.systems[i]])
  BY DEF PendingReason
<1> DEFINE L == Len(r.ops)
           B == Len(b.ops)
           S == Len(b.systems)
<1>1. n \in Nat /\ n - 1 \in Int /\ n \in Int /\ n \in Systems /\ Systems \subseteq Nat
  BY DEF Systems
<1>2. /\ b.systems \in Seq(Systems) /\ b.ops \in Seq(OperationRecords) /\ b.written \in SUBSET Ids
      /\ \A o \in 1 .. B : b.ops[o] \in OperationRecords
      /\ \A o \in 1 .. B : Places(b.ops[o]) \subseteq 1 .. S
      /\ \A i \in 1 .. S : b.systems[i] \in active /\ b.systems[i] \in 1 .. n - 1
  BY <1>1, ShapeFacts
<1>3. r.ops \in Seq(OperationRecords) /\ \A o \in 1 .. L : r.ops[o] \in OperationRecords
  BY <1>1, ShapeFacts
<1>4. L \in Nat /\ B \in Nat /\ S \in Nat /\ L > 1 /\ r.ops[L].count = 0 /\ r.ops[L] \in OperationRecords
  BY <1>2, <1>3
<1>5. Places(r.ops[L]) = {}
  BY <1>4, PlacesFacts
<1>6. /\ L = IF Opens(b, system, act) THEN B + 1 ELSE B
      /\ \A o \in 1 .. L - 1 : o \in 1 .. B /\ r.ops[o] = b.ops[o]
      /\ Places(r.ops[L]) = Carried(b, system, act) \cup (IF act THEN {S + 1} ELSE {})
      /\ Opens(b, system, act) /\ ~Merges(b, system, act) => b.ops = <<>>
      /\ \A i \in 1 .. S : r.systems[i] = b.systems[i]
  BY DEF StepOps
<1>7. ~act /\ n \notin active /\ Carried(b, system, act) = {}
  BY <1>5, <1>6
<1>8. L - 1 \in 1 .. B /\ r.ops[L - 1] = b.ops[L - 1]
  <2>1. L - 1 \in 1 .. L - 1
    BY <1>4
  <2> QED
    BY <1>6, <2>1
<1>9. system \in SystemRecords
  BY <1>1
<1> HIDE DEF L, B, S
<1>10. CASE Opens(b, system, act)
  <2>1. L - 1 = B /\ B >= 1 /\ b.ops # <<>>
    BY <1>2, <1>4, <1>6, <1>10 DEF B
  <2>2. Merges(b, system, act) /\ b.ops[B].count > 0
    BY <1>6, <1>10, <2>1 DEF Opens, NewOperation, B
  <2>3. MergeReason(b, system, act)
    BY <2>2 DEF StepWritten
  <2>4. CASE b.immediate
    <3>1. b.ops[B].immediate
      BY <1>1, <2>1, <2>2, <2>4, LastMode DEF B
    <3> QED
      BY <1>8, <2>1, <3>1 DEF L
  <2>5. CASE \E id \in AccessedBy(system) : Staged(b.written, id)
    <3>1. PICK i \in Places(b.ops[B]) : Depends(system, D[b.systems[i]])
      BY <1>2, <1>9, <2>1, <2>5, StagedReason DEF B
    <3>2. i \in 1 .. S
      BY <1>2, <1>4, <2>1
    <3>3. r.systems[i] = b.systems[i] /\ b.systems[i] \in 1 .. n - 1
      BY <1>2, <1>6, <3>2
    <3>4. r.systems[i] < n /\ n <= n
      BY <1>1, <3>3
    <3> QED
      BY <1>7, <1>8, <2>1, <3>1, <3>3, <3>4 DEF L
  <2> QED
    BY <1>7, <2>3, <2>4, <2>5 DEF MergeReason
<1>11. CASE ~Opens(b, system, act)
  <2>1. L = B /\ Places(b.ops[B]) = {}
    BY <1>6, <1>7, <1>11 DEF Carried, B
  <2>2. b.ops[B].count = 0
    BY <1>2, <1>4, <2>1, PlacesFacts
  <2>3. \/ b.ops[B - 1].immediate
        \/ \E i \in Places(b.ops[B - 1]), x \in enabled :
              b.systems[i] < x /\ x <= n - 1 /\ x \notin active /\ Depends(D[x], D[b.systems[i]])
    BY <1>4, <2>1, <2>2 DEF PendingReason, B
  <2>4. CASE b.ops[B - 1].immediate
    BY <1>8, <2>1, <2>4 DEF L
  <2>5. CASE \E i \in Places(b.ops[B - 1]), x \in enabled :
                b.systems[i] < x /\ x <= n - 1 /\ x \notin active /\ Depends(D[x], D[b.systems[i]])
    <3>1. PICK i \in Places(b.ops[B - 1]), x \in enabled :
                b.systems[i] < x /\ x <= n - 1 /\ x \notin active /\ Depends(D[x], D[b.systems[i]])
      BY <2>5
    <3>2. i \in 1 .. S
      BY <1>2, <1>8, <2>1
    <3>3. r.systems[i] = b.systems[i]
      BY <1>6, <3>2
    <3>4. x <= n
      BY <1>1, <3>1
    <3> QED
      BY <1>8, <2>1, <3>1, <3>3, <3>4 DEF L
  <2> QED
    BY <2>3, <2>4, <2>5
<1> QED
  BY <1>10, <1>11

LEMMA ReasonsStep ==
    ASSUME NEW D \in [Systems -> SystemRecords],
           NEW enabled \in SUBSET Systems, NEW active, NEW n \in enabled,
           NEW b, BuildShape(b, n - 1, D, active), Wrote(b, D),
           PendingReason(b, n - 1, D, enabled, active),
           Reasons(b.systems, b.ops, D, enabled, active),
           NEW act \in BOOLEAN, act <=> n \in active, NEW system, system = D[n], NEW r,
           BuildShape(r, n, D, active),
           StepOps(b, n, system, act, r), StepWritten(b, n, system, act, r)
    PROVE  Reasons(r.systems, r.ops, D, enabled, active)
<1> DEFINE L == Len(r.ops)
           B == Len(b.ops)
           S == Len(b.systems)
<1>1. n \in Nat /\ n - 1 \in Int /\ n \in Int /\ n \in Systems /\ Systems \subseteq Nat
  BY DEF Systems
<1>2. /\ b.systems \in Seq(Systems) /\ b.ops \in Seq(OperationRecords) /\ b.written \in SUBSET Ids
      /\ \A o \in 1 .. B : b.ops[o] \in OperationRecords
      /\ \A o \in 1 .. B : Places(b.ops[o]) \subseteq 1 .. S
      /\ \A i \in 1 .. S : b.systems[i] \in active /\ b.systems[i] \in 1 .. n - 1
  BY <1>1, ShapeFacts
<1>3. r.ops \in Seq(OperationRecords) /\ \A o \in 1 .. L : r.ops[o] \in OperationRecords
  BY <1>1, ShapeFacts
<1>4. L \in Nat /\ B \in Nat /\ S \in Nat /\ L \in 1 .. L
  BY <1>2, <1>3 DEF StepOps
<1>5. /\ L = IF Opens(b, system, act) THEN B + 1 ELSE B
      /\ \A o \in 1 .. L - 1 : o \in 1 .. B /\ r.ops[o] = b.ops[o]
      /\ Opens(b, system, act) => r.ops[L].offset = S
      /\ ~Opens(b, system, act) => r.ops[L].offset = b.ops[B].offset
      /\ ~Opens(b, system, act) /\ b.ops[B].count # 0 =>
             /\ r.ops[L].multi_threaded = b.ops[B].multi_threaded
             /\ r.ops[L].immediate = b.ops[B].immediate
      /\ Places(r.ops[L]) = Carried(b, system, act) \cup (IF act THEN {S + 1} ELSE {})
      /\ Opens(b, system, act) /\ ~Merges(b, system, act) => b.ops = <<>>
      /\ \A i \in 1 .. S : r.systems[i] = b.systems[i]
      /\ act => r.systems[S + 1] = n
  BY DEF StepOps
<1>6. system \in SystemRecords
  BY <1>1
<1>7. ASSUME NEW o \in 1 .. B, b.ops[o].count > 0
      PROVE  /\ b.ops[o].offset + 1 \in 1 .. S
             /\ r.systems[b.ops[o].offset + 1] = b.systems[b.ops[o].offset + 1]
  <2>1. b.ops[o].offset + 1 \in Places(b.ops[o])
    BY <1>2, <1>7, PlacesFacts
  <2> QED
    BY <1>2, <1>5, <2>1
\* A reason that was there still is.
<1>8. ASSUME NEW o \in 1 .. B - 1, b.ops[o + 1].count > 0, o + 1 \in 1 .. L, r.ops[o] = b.ops[o],
             r.ops[o + 1].offset = b.ops[o + 1].offset,
             r.ops[o + 1].multi_threaded = b.ops[o + 1].multi_threaded,
             r.ops[o + 1].immediate = b.ops[o + 1].immediate
      PROVE  Reason(r.systems, r.ops, D, enabled, active, o)
  <2>1. Reason(b.systems, b.ops, D, enabled, active, o)
    BY <1>8 DEF Reasons, B
  <2>2. r.systems[r.ops[o + 1].offset + 1] = b.systems[b.ops[o + 1].offset + 1]
    BY <1>4, <1>7, <1>8
  <2>3. \A i \in Places(b.ops[o]) : r.systems[i] = b.systems[i]
    <3>1. o \in 1 .. B
      BY <1>4
    <3> QED
      BY <1>2, <1>5, <3>1
  <2> QED
    BY <1>8, <2>1, <2>2, <2>3 DEF Reason
<1>9. ASSUME NEW o \in 1 .. L - 1, r.ops[o + 1].count > 0
      PROVE  Reason(r.systems, r.ops, D, enabled, active, o)
  <2>1. o \in 1 .. B /\ r.ops[o] = b.ops[o] /\ o + 1 \in 1 .. L
    BY <1>4, <1>5
  <2>2. CASE o # L - 1
    <3>1. o + 1 \in 1 .. L - 1
      BY <1>4, <2>2
    <3>2. o + 1 \in 1 .. B /\ r.ops[o + 1] = b.ops[o + 1]
      BY <1>5, <3>1
    <3>3. o \in 1 .. B - 1
      BY <1>4, <3>2
    <3> QED
      BY <1>8, <1>9, <2>1, <3>2, <3>3
  <2>3. CASE o = L - 1 /\ Opens(b, system, act)
    <3>1. o = B /\ o + 1 = L /\ b.ops # <<>>
      BY <1>2, <1>4, <1>5, <2>1, <2>3 DEF B
    <3>2. Merges(b, system, act) /\ b.ops[B].count > 0
      BY <1>5, <2>3, <3>1 DEF Opens, NewOperation, B
    <3>3. MergeReason(b, system, act)
      BY <3>2 DEF StepWritten
    <3>4. act /\ S + 1 \in Places(r.ops[L])
      <4>1. Places(r.ops[L]) # {}
        BY <1>3, <1>4, <1>9, <3>1, PlacesFacts
      <4> QED
        BY <1>5, <2>3, <4>1 DEF Carried
    <3>5. r.systems[r.ops[o + 1].offset + 1] = n
      BY <1>5, <2>3, <3>1, <3>4
    <3>6. r.ops[L].multi_threaded = system.multi_threaded /\ r.ops[L].immediate = system.immediate
      <4>1. Uniform(r.systems, r.ops, D)
        BY DEF BuildShape
      <4>2. D[r.systems[S + 1]].multi_threaded = r.ops[L].multi_threaded
            /\ D[r.systems[S + 1]].immediate = r.ops[L].immediate
        BY <1>4, <3>4, <4>1 DEF Uniform
      <4> QED
        BY <1>5, <3>4, <4>2
    <3>7. CASE \E id \in AccessedBy(system) : Staged(b.written, id)
      <4>1. PICK i \in Places(b.ops[B]) : Depends(system, D[b.systems[i]])
        BY <1>2, <1>6, <3>1, <3>7, StagedReason DEF B
      <4>2. i \in 1 .. S
        BY <1>2, <2>1, <3>1
      <4>3. r.systems[i] = b.systems[i] /\ b.systems[i] \in 1 .. n - 1
        BY <1>2, <1>5, <4>2
      <4>4. r.systems[i] < n
        BY <1>1, <4>3
      <4> QED
        BY <2>1, <3>1, <3>5, <4>1, <4>3, <4>4 DEF Reason
    <3>8. CASE <<b.multi_threaded, b.immediate>> # <<system.multi_threaded, system.immediate>>
      <4>1. b.ops[B].multi_threaded = b.multi_threaded /\ b.ops[B].immediate = b.immediate
        BY <1>1, <3>1, <3>2, LastMode DEF B
      <4>2. \/ r.ops[o].multi_threaded # r.ops[o + 1].multi_threaded
            \/ r.ops[o].immediate # r.ops[o + 1].immediate
        BY <2>1, <3>1, <3>6, <3>8, <4>1
      <4>3. r.ops[o].immediate \in BOOLEAN /\ r.ops[o + 1].immediate \in BOOLEAN
        <5>1. r.ops[o] \in OperationRecords /\ r.ops[o + 1] \in OperationRecords
          BY <1>2, <1>3, <2>1
        <5> QED
          BY <5>1 DEF OperationRecords
      <4> QED
        BY <4>2, <4>3 DEF Reason
    <3>9. CASE system.immediate
      BY <3>1, <3>6, <3>9 DEF Reason
    <3> QED
      BY <3>3, <3>4, <3>7, <3>8, <3>9 DEF MergeReason
  <2>4. CASE o = L - 1 /\ ~Opens(b, system, act) /\ b.ops[B].count # 0
    <3>1. L = B /\ o + 1 = B /\ o \in 1 .. B - 1 /\ b.ops[B] \in OperationRecords
      BY <1>2, <1>4, <1>5, <2>1, <2>4
    <3>2. b.ops[B].count > 0
      BY <2>4, <3>1 DEF OperationRecords
    <3> QED
      BY <1>5, <1>8, <2>1, <2>4, <3>1, <3>2
  <2>5. CASE o = L - 1 /\ ~Opens(b, system, act) /\ b.ops[B].count = 0
    <3>1. L = B /\ o + 1 = B /\ o = B - 1 /\ B > 1 /\ b.ops[B] \in OperationRecords
      BY <1>2, <1>4, <1>5, <2>1, <2>5
    <3>2. act
      <4>1. Places(r.ops[L]) # {} /\ Places(b.ops[B]) = {}
        BY <1>3, <1>4, <1>9, <2>5, <3>1, PlacesFacts
      <4> QED
        BY <1>5, <2>5, <4>1 DEF Carried, B
    <3>3. r.systems[r.ops[o + 1].offset + 1] = n
      <4>1. End(b.ops[B]) = S
        <5>1. b.ops # <<>>
          BY <3>1 DEF B
        <5> QED
          BY <5>1 DEF BuildShape, Tiled, B, S
      <4>2. b.ops[B].offset \in Nat
        BY <3>1 DEF OperationRecords
      <4>3. b.ops[B].offset = S
        BY <2>5, <4>1, <4>2 DEF End
      <4> QED
        BY <1>5, <2>5, <3>1, <3>2, <4>3
    <3>4. \/ b.ops[B - 1].immediate
          \/ \E i \in Places(b.ops[B - 1]), x \in enabled :
                b.systems[i] < x /\ x <= n - 1 /\ x \notin active /\ Depends(D[x], D[b.systems[i]])
      BY <2>5, <3>1 DEF PendingReason, B
    <3>5. CASE b.ops[B - 1].immediate
      BY <2>1, <3>1, <3>5 DEF Reason
    <3>6. CASE \E i \in Places(b.ops[B - 1]), x \in enabled :
                  b.systems[i] < x /\ x <= n - 1 /\ x \notin active /\ Depends(D[x], D[b.systems[i]])
      <4>1. PICK i \in Places(b.ops[B - 1]), x \in enabled :
                  b.systems[i] < x /\ x <= n - 1 /\ x \notin active /\ Depends(D[x], D[b.systems[i]])
        BY <3>6
      <4>2. i \in 1 .. S
        BY <1>2, <2>1, <3>1, <4>1
      <4>3. r.systems[i] = b.systems[i]
        BY <1>5, <4>2
      <4>4. x < n
        <5>1. x \in Nat
          BY <1>1, <4>1
        <5> QED
          BY <1>1, <4>1, <5>1
      <4> QED
        BY <2>1, <3>1, <3>3, <4>1, <4>3, <4>4 DEF Reason
    <3> QED
      BY <3>4, <3>5, <3>6
  <2> QED
    BY <2>2, <2>3, <2>4, <2>5
<1> HIDE DEF L
<1> QED
  BY <1>9 DEF Reasons, L

-----------------------------------------------------------------------------
(***************************************************************************)
(* The schedule of all systems                                               *)
(***************************************************************************)

\* What is known of the schedule after n of the systems
BuiltUpTo(b, n, D, enabled, active) ==
    /\ BuildShape(b, n, D, active)
    /\ Wrote(b, D)
    /\ Reasons(b.systems, b.ops, D, enabled, active)
    /\ PendingReason(b, n, D, enabled, active)
    /\ (\A x, y \in Systems : Nested(D[x], D[y])) =>
           Pending(b, n, D, enabled) /\ Apart(b.systems, b.ops, D, enabled)

LEMMA BuiltUpToNone ==
    ASSUME NEW D, NEW enabled, NEW active
    PROVE  BuiltUpTo(NoSchedule, 0, D, enabled, active)
<1> DEFINE b == NoSchedule
<1>1. /\ b.systems = <<>> /\ b.ops = <<>> /\ b.written = {} /\ b.first = TRUE
      /\ b.multi_threaded = FALSE /\ b.immediate = FALSE
  BY DEF NoSchedule
<1>2. b \in Builds
  BY DEF NoSchedule, Builds
<1> HIDE DEF b
<1>3. BuildShape(b, 0, D, active)
  <2>1. Range(b.systems) = {}
    BY <1>1 DEF Range
  <2>2. Increasing(b.systems) /\ Tiled(b.systems, b.ops) /\ Uniform(b.systems, b.ops, D)
    BY <1>1 DEF Increasing, Tiled, Uniform
  <2>3. active \cap (1 .. 0) = {}
    OBVIOUS
  <2> QED
    BY <1>1, <1>2, <2>1, <2>2, <2>3 DEF BuildShape
<1>4. Wrote(b, D)
  BY <1>1 DEF Wrote
<1>5. Reasons(b.systems, b.ops, D, enabled, active) /\ PendingReason(b, 0, D, enabled, active)
  BY <1>1 DEF Reasons, PendingReason
<1>6. Pending(b, 0, D, enabled) /\ Apart(b.systems, b.ops, D, enabled)
  BY <1>1 DEF Pending, Apart
<1> QED
  BY <1>3, <1>4, <1>5, <1>6 DEF BuiltUpTo, b

LEMMA BuiltUpToNext ==
    ASSUME NEW D \in [Systems -> SystemRecords], \A s \in Systems : NeedsNoMerge(D[s]),
           NEW enabled \in SUBSET Systems, NEW active \in SUBSET enabled, NEW n \in Systems,
           NEW b, BuiltUpTo(b, n - 1, D, enabled, active),
           NEW r, r = IF n \in enabled THEN AddSystem(b, n, D[n], n \in active) ELSE b
    PROVE  BuiltUpTo(r, n, D, enabled, active)
<1>1. n \in Nat /\ Systems \subseteq Nat /\ active \in SUBSET Systems
  BY DEF Systems
<1>2. /\ BuildShape(b, n - 1, D, active) /\ Wrote(b, D)
      /\ Reasons(b.systems, b.ops, D, enabled, active) /\ PendingReason(b, n - 1, D, enabled, active)
  BY DEF BuiltUpTo
<1>3. CASE n \in enabled
  <2> DEFINE act == n \in active
             system == D[n]
  <2>1. r = AddSystem(b, n, system, act) /\ act \in BOOLEAN /\ system \in SystemRecords
    BY <1>3
  <2>2. BuildShape(r, n, D, active)
    BY <1>1, <1>2, <2>1, ShapeStep
  <2>3. act <=> n \in active
    OBVIOUS
  <2>4. system = D[n]
    OBVIOUS
  <2> HIDE DEF act, system
  <2>5. StepOps(b, n, system, act, r)
    BY <1>1, <1>2, <2>1, <2>4, StepOpsFacts
  <2>6. StepWritten(b, n, system, act, r)
    BY <1>1, <1>2, <2>1, <2>4, StepWrittenFacts
  <2>7. Wrote(r, D)
    BY <1>2, <2>1, <2>4, <2>5, <2>6, WroteStep
  <2>8. PendingReason(r, n, D, enabled, active)
    BY <1>2, <1>3, <2>1, <2>2, <2>3, <2>4, <2>5, <2>6, PendingReasonStep
  <2>9. Reasons(r.systems, r.ops, D, enabled, active)
    BY <1>2, <1>3, <2>1, <2>2, <2>3, <2>4, <2>5, <2>6, ReasonsStep
  <2>10. ASSUME \A x, y \in Systems : Nested(D[x], D[y])
         PROVE  Pending(r, n, D, enabled) /\ Apart(r.systems, r.ops, D, enabled)
    <3>1. Pending(b, n - 1, D, enabled) /\ Apart(b.systems, b.ops, D, enabled)
      BY <2>10 DEF BuiltUpTo
    <3>2. Pending(r, n, D, enabled)
      BY <1>2, <2>1, <2>4, <2>5, <2>6, <2>10, <3>1, PendingStep
    <3>3. Apart(r.systems, r.ops, D, enabled)
      BY <1>2, <2>1, <2>2, <2>4, <2>5, <3>1, <3>2, ApartStep
    <3> QED
      BY <3>2, <3>3
  <2> QED
    BY <2>2, <2>7, <2>8, <2>9, <2>10 DEF BuiltUpTo
<1>4. CASE n \notin enabled
  <2>1. r = b /\ n \notin active
    BY <1>4
  <2>2. \A T \in SUBSET Nat : n \notin T => T \cap (1 .. n) = T \cap (1 .. n - 1)
    BY <1>1
  <2>3. active \cap (1 .. n) = active \cap (1 .. n - 1) /\ enabled \cap (1 .. n) = enabled \cap (1 .. n - 1)
    BY <1>1, <1>4, <2>1, <2>2
  <2>4. BuildShape(r, n, D, active)
    BY <1>2, <2>1, <2>3 DEF BuildShape
  <2>5. \A x \in enabled : x <= n - 1 => x <= n
    BY <1>1
  <2>6. PendingReason(r, n, D, enabled, active)
    <3>1. SUFFICES ASSUME Len(b.ops) > 1, b.ops[Len(b.ops)].count = 0,
                          ~b.ops[Len(b.ops) - 1].immediate
                   PROVE  \E i \in Places(b.ops[Len(b.ops) - 1]), x \in enabled :
                             /\ b.systems[i] < x /\ x <= n /\ x \notin active
                             /\ Depends(D[x], D[b.systems[i]])
      BY <2>1 DEF PendingReason
    <3>2. PICK i \in Places(b.ops[Len(b.ops) - 1]), x \in enabled :
                             /\ b.systems[i] < x /\ x <= n - 1 /\ x \notin active
                             /\ Depends(D[x], D[b.systems[i]])
      BY <1>2, <3>1 DEF PendingReason
    <3> QED
      BY <2>5, <3>2
  <2>7. Pending(b, n - 1, D, enabled) => Pending(r, n, D, enabled)
    BY <2>1, <2>3 DEF Pending
  <2> QED
    BY <1>2, <2>1, <2>4, <2>6, <2>7 DEF BuiltUpTo
<1> QED
  BY <1>3, <1>4

\* One step of the recursion
SystemStep(b, n, D, enabled, active) ==
    IF n \in enabled THEN AddSystem(b, n, D[n], n \in active) ELSE b

LEMMA SystemStepTyped ==
    ASSUME NEW D \in [Systems -> SystemRecords], \A s \in Systems : NeedsNoMerge(D[s]),
           NEW enabled, NEW active, NEW n \in Systems, NEW b \in Builds
    PROVE  SystemStep(b, n, D, enabled, active) \in Builds
<1> DEFINE act == n \in active
           r == AddSystem(b, n, D[n], act)
<1>1. act \in BOOLEAN /\ D[n] \in SystemRecords /\ NeedsNoMerge(D[n])
  OBVIOUS
<1>2. Added(b, n, D[n], act, r)
  <2> HIDE DEF act
  <2> QED
    BY <1>1, AddSystemFacts
<1>3. r \in Builds
  BY <1>2 DEF Added
<1> QED
  BY <1>3 DEF SystemStep

\* The recursion is what its definition says.
LEMMA SchedulesFacts ==
    ASSUME NEW D \in [Systems -> SystemRecords], \A s \in Systems : NeedsNoMerge(D[s]),
           NEW enabled, NEW active, NEW f, f = Schedules(D, enabled, active)
    PROVE  /\ f[0] = NoSchedule
           /\ \A n \in 1 .. SystemCount : f[n] = SystemStep(f[n - 1], n, D, enabled, active)
<1> DEFINE N == SystemCount
           IsLoop(g) == g = [n \in 0 .. N |->
                                 IF n = 0 THEN NoSchedule
                                 ELSE IF n \in enabled THEN AddSystem(g[n - 1], n, D[n], n \in active)
                                 ELSE g[n - 1]]
           step == [p \in (1 .. N) \X Builds |-> SystemStep(p[2], p[1], D, enabled, active)]
<1>1. N \in Nat /\ Systems = 1 .. N
  BY SystemCountAssumption DEF Systems
<1>2. step \in [(1 .. N) \X Builds -> Builds]
  <2>1. ASSUME NEW n \in 1 .. N, NEW b \in Builds
        PROVE  SystemStep(b, n, D, enabled, active) \in Builds
    BY <1>1, SystemStepTyped
  <2> QED
    BY <2>1
<1>3. \A n \in 1 .. N, b \in Builds : step[<<n, b>>] = SystemStep(b, n, D, enabled, active)
  OBVIOUS
<1>4. NoSchedule \in Builds
  BY DEF NoSchedule, Builds
<1> HIDE DEF step, N
<1>5. PICK g \in [0 .. N -> Builds] : FirstValues(g, N, NoSchedule, step)
  BY <1>1, <1>2, <1>4, RecursionExists
<1>6. ASSUME NEW n \in 1 .. N PROVE g[n] = SystemStep(g[n - 1], n, D, enabled, active)
  <2>1. n - 1 \in 0 .. N
    BY <1>1
  <2> QED
    BY <1>3, <1>5, <2>1 DEF FirstValues
<1>7. IsLoop(g)
  <2>1. ASSUME NEW n \in 0 .. N
        PROVE  g[n] = IF n = 0 THEN NoSchedule
                      ELSE IF n \in enabled THEN AddSystem(g[n - 1], n, D[n], n \in active)
                      ELSE g[n - 1]
    <3>1. n = 0 \/ n \in 1 .. N
      BY <1>1
    <3>2. n \in 1 .. N => n # 0
      BY <1>1
    <3> QED
      BY <1>5, <1>6, <3>1, <3>2 DEF SystemStep, FirstValues
  <2> QED
    BY <2>1
<1>8. f = CHOOSE h : IsLoop(h)
  BY DEF Schedules, N
<1> HIDE DEF IsLoop
<1>9. IsLoop(f)
  BY <1>7, <1>8
<1>10. f = [n \in 0 .. N |-> IF n = 0 THEN NoSchedule
                              ELSE SystemStep(f[n - 1], n, D, enabled, active)]
  BY <1>9 DEF IsLoop, SystemStep
<1>11. ASSUME NEW n \in 1 .. N PROVE f[n] = SystemStep(f[n - 1], n, D, enabled, active)
  BY <1>1, <1>10
<1>12. f[0] = NoSchedule
  BY <1>1, <1>10
<1> QED
  BY <1>11, <1>12 DEF N

LEMMA BuiltUpToAll ==
    ASSUME NEW D \in [Systems -> SystemRecords], \A s \in Systems : NeedsNoMerge(D[s]),
           NEW enabled \in SUBSET Systems, NEW active \in SUBSET enabled,
           NEW b, b = Schedules(D, enabled, active)[SystemCount]
    PROVE  BuiltUpTo(b, SystemCount, D, enabled, active)
<1> DEFINE N == SystemCount
           f == Schedules(D, enabled, active)
           G == {n \in 0 .. N : BuiltUpTo(f[n], n, D, enabled, active)}
<1>1. N \in Nat /\ Systems = 1 .. N
  BY SystemCountAssumption DEF Systems
<1>2. f[0] = NoSchedule /\ \A n \in 1 .. N : f[n] = SystemStep(f[n - 1], n, D, enabled, active)
  <2> HIDE DEF f
  <2>1. f = Schedules(D, enabled, active)
    BY DEF f
  <2> QED
    BY <2>1, SchedulesFacts
<1> HIDE DEF f, N
<1>3. 0 \in G
  BY <1>1, <1>2, BuiltUpToNone
<1>4. ASSUME NEW n \in 1 .. N, n - 1 \in G PROVE n \in G
  <2>1. BuiltUpTo(f[n - 1], n - 1, D, enabled, active) /\ n \in 0 .. N /\ n \in Systems
    BY <1>1, <1>4
  <2>2. f[n] = IF n \in enabled THEN AddSystem(f[n - 1], n, D[n], n \in active) ELSE f[n - 1]
    BY <1>2, <1>4 DEF SystemStep
  <2>3. BuiltUpTo(f[n], n, D, enabled, active)
    BY <2>1, <2>2, BuiltUpToNext
  <2> QED
    BY <2>1, <2>3
<1> HIDE DEF G
<1>5. 0 .. N \subseteq G
  BY <1>1, <1>3, <1>4, UpTo
<1>6. N \in G
  BY <1>1, <1>5
<1> QED
  BY <1>6 DEF G, f, N

\* The schedule that flecs_pipeline_build leaves
Scheduled(list, seq, D, enabled, active) ==
    /\ list \in Seq(Systems) /\ seq \in Seq(OperationRecords)
    /\ Increasing(list)
    /\ Range(list) = active
    /\ Tiled(list, seq)
    /\ Uniform(list, seq, D)
    /\ \A o \in 1 .. Len(seq) : seq[o].count = 0 => Len(seq) = 1
    /\ Reasons(list, seq, D, enabled, active)
    /\ (\A x, y \in Systems : Nested(D[x], D[y])) => Apart(list, seq, D, enabled)

LEMMA FrontOperations ==
    ASSUME NEW seq \in Seq(OperationRecords), Len(seq) > 1, NEW front, front = SubSeq(seq, 1, Len(seq) - 1)
    PROVE  /\ front \in Seq(OperationRecords) /\ Len(front) = Len(seq) - 1
           /\ \A o \in 1 .. Len(front) : o \in 1 .. Len(seq) /\ front[o] = seq[o]
           /\ \A o \in 1 .. Len(front) - 1 : /\ o \in 1 .. Len(seq) - 1 /\ o + 1 \in 1 .. Len(seq)
                                             /\ front[o] = seq[o] /\ front[o + 1] = seq[o + 1]
<1> DEFINE N == Len(seq) - 1
<1>1. N \in Nat /\ N >= 1 /\ \A o \in 1 .. N : o \in 1 .. Len(seq) /\ seq[o] \in OperationRecords
  OBVIOUS
<1>2. front \in Seq(OperationRecords) /\ Len(front) = N /\ \A o \in 1 .. N : front[o] = seq[o]
  <2>1. front = [o \in 1 .. N |-> seq[o]]
    BY <1>1
  <2> QED
    BY <1>1, <2>1
<1> HIDE DEF N
<1>3. \A o \in 1 .. N - 1 : o \in 1 .. N /\ o + 1 \in 1 .. N
  BY <1>1
<1> QED
  BY <1>1, <1>2, <1>3 DEF N

LEMMA BuildFacts ==
    ASSUME NEW D \in [Systems -> SystemRecords], \A s \in Systems : NeedsNoMerge(D[s]),
           NEW enabled \in SUBSET Systems, NEW active \in SUBSET enabled,
           NEW s, s = Build(D, enabled, active)
    PROVE  Scheduled(s.systems, s.ops, D, enabled, active)
<1> DEFINE b == Schedules(D, enabled, active)[SystemCount]
           L == Len(b.ops)
<1>1. s.systems = b.systems /\ s.ops = WithoutEmptyOperation(b.ops)
  BY DEF Build
<1>2. BuiltUpTo(b, SystemCount, D, enabled, active)
  <2> HIDE DEF b
  <2>1. b = Schedules(D, enabled, active)[SystemCount]
    BY DEF b
  <2> QED
    BY <2>1, BuiltUpToAll
<1> HIDE DEF b
<1>3. /\ BuildShape(b, SystemCount, D, active) /\ Reasons(b.systems, b.ops, D, enabled, active)
      /\ (\A x, y \in Systems : Nested(D[x], D[y])) => Apart(b.systems, b.ops, D, enabled)
  BY <1>2 DEF BuiltUpTo
<1>4. b.systems \in Seq(Systems) /\ b.ops \in Seq(OperationRecords)
  BY <1>3 DEF BuildShape, Builds
<1>5. active \cap (1 .. SystemCount) = active
  BY DEF Systems
<1>6. Increasing(b.systems) /\ Range(b.systems) = active /\ Tiled(b.systems, b.ops)
      /\ Uniform(b.systems, b.ops, D)
  BY <1>3, <1>5 DEF BuildShape
<1>7. CASE L > 1 /\ b.ops[L].count = 0
  <2> DEFINE front == SubSeq(b.ops, 1, L - 1)
             F == Len(front)
  <2>1. s.ops = front
    BY <1>1, <1>7 DEF WithoutEmptyOperation
  <2>2. /\ front \in Seq(OperationRecords) /\ F = L - 1
        /\ \A o \in 1 .. F : o \in 1 .. L /\ front[o] = b.ops[o]
        /\ \A o \in 1 .. F - 1 : /\ o \in 1 .. L - 1 /\ o + 1 \in 1 .. L
                                 /\ front[o] = b.ops[o] /\ front[o + 1] = b.ops[o + 1]
    BY <1>4, <1>7, FrontOperations
  <2>3. L \in Nat /\ F \in 1 .. F /\ F \in 1 .. L - 1 /\ 1 \in 1 .. F /\ F + 1 = L /\ b.ops # <<>>
    BY <1>4, <1>7, <2>2
  <2>4. /\ \A o \in 1 .. L : End(b.ops[o]) <= Len(b.systems)
        /\ \A o \in 1 .. L - 1 : b.ops[o].count > 0 /\ b.ops[o + 1].offset = End(b.ops[o])
        /\ \A i \in 1 .. Len(b.systems) : \E o \in 1 .. L : i \in Places(b.ops[o])
        /\ b.ops[1].offset = 0 /\ End(b.ops[L]) = Len(b.systems)
    BY <1>6, <2>3 DEF Tiled
  <2>5. b.ops[L] \in OperationRecords /\ L \in 1 .. L
    BY <1>4, <2>3
  <2>6. Places(b.ops[L]) = {}
    BY <1>7, <2>5, PlacesFacts
  <2>7. End(b.ops[F]) = Len(b.systems)
    <3>1. b.ops[L].offset = End(b.ops[F])
      BY <2>3, <2>4
    <3>2. b.ops[L].offset \in Nat
      BY <2>5 DEF OperationRecords
    <3> QED
      BY <1>7, <2>4, <3>1, <3>2 DEF End
  <2> HIDE DEF front, F, L
  <2>8. Tiled(b.systems, front)
    <3>1. \A o \in 1 .. F : End(front[o]) <= Len(b.systems)
      BY <2>2, <2>4
    <3>2. \A o \in 1 .. F - 1 : front[o].count > 0 /\ front[o + 1].offset = End(front[o])
      BY <2>2, <2>4
    <3>3. ASSUME NEW i \in 1 .. Len(b.systems) PROVE \E o \in 1 .. F : i \in Places(front[o])
      <4>1. PICK o \in 1 .. L : i \in Places(b.ops[o])
        BY <2>4
      <4>2. o # L
        BY <2>6, <4>1
      <4>3. o \in 1 .. F
        BY <2>3, <4>1, <4>2
      <4> QED
        BY <2>2, <4>1, <4>3
    <3>4. front # <<>> /\ front[1].offset = 0 /\ End(front[F]) = Len(b.systems)
      BY <2>2, <2>3, <2>4, <2>7 DEF F
    <3> QED
      BY <3>1, <3>2, <3>3, <3>4 DEF Tiled, F
  <2>9. Uniform(b.systems, front, D)
    BY <1>6, <2>2 DEF Uniform, F, L
  <2>10. \A o \in 1 .. F : front[o].count > 0
    <3>1. \A o \in 1 .. F : o \in 1 .. L - 1
      BY <2>3
    <3> QED
      BY <2>2, <2>4, <3>1
  <2>11. Reasons(b.systems, front, D, enabled, active)
    <3>1. SUFFICES ASSUME NEW o \in 1 .. F - 1, front[o + 1].count > 0
                   PROVE  Reason(b.systems, front, D, enabled, active, o)
      BY DEF Reasons, F
    <3>2. o \in 1 .. L - 1 /\ front[o] = b.ops[o] /\ front[o + 1] = b.ops[o + 1]
      BY <2>2
    <3>3. Reason(b.systems, b.ops, D, enabled, active, o)
      BY <1>3, <3>1, <3>2 DEF Reasons, L
    <3> QED
      BY <3>2, <3>3 DEF Reason
  <2>12. Apart(b.systems, b.ops, D, enabled) => Apart(b.systems, front, D, enabled)
    BY <2>2 DEF Apart, F, L
  <2>13. \A o \in 1 .. F : front[o].count = 0 => F = 1
    <3>1. ASSUME NEW o \in 1 .. F PROVE front[o].count # 0
      BY <2>10
    <3> QED
      BY <3>1
  <2> QED
    BY <1>1, <1>3, <1>4, <1>6, <2>1, <2>2, <2>8, <2>9, <2>11, <2>12, <2>13 DEF Scheduled, F
<1>8. CASE ~(L > 1 /\ b.ops[L].count = 0)
  <2>1. s.ops = b.ops
    BY <1>1, <1>8 DEF WithoutEmptyOperation
  <2>2. ASSUME NEW o \in 1 .. L, b.ops[o].count = 0 PROVE L = 1
    <3>1. L \in Nat
      BY <1>4
    <3>2. o \notin 1 .. L - 1
      <4>1. \A k \in 1 .. L - 1 : b.ops[k].count > 0
        BY <1>6 DEF Tiled
      <4> QED
        BY <2>2, <4>1
    <3>3. o = L
      BY <3>1, <3>2
    <3>4. b.ops[L].count = 0
      BY <2>2, <3>3
    <3>5. ~(L > 1)
      BY <1>8, <3>4
    <3> HIDE DEF L
    <3>6. L >= 1
      BY <2>2, <3>1
    <3> QED
      BY <3>1, <3>5, <3>6
  <2> HIDE DEF L
  <2> QED
    BY <1>1, <1>3, <1>4, <1>6, <2>1, <2>2 DEF Scheduled, L
<1> QED
  BY <1>7, <1>8

-----------------------------------------------------------------------------
(***************************************************************************)
(* Where a run goes on in a schedule                                         *)
(***************************************************************************)

LEMMA LeastOf ==
    ASSUME NEW S \in SUBSET Nat, S # {}
    PROVE  Min(S) \in S /\ \A m \in S : Min(S) <= m
<1>1. \E n \in S : \A m \in S : n <= m
  BY SmallestOf
<1> QED
  BY <1>1 DEF Min

LEMMA GreatestOf ==
    ASSUME NEW n \in Nat, NEW S \in SUBSET (1 .. n), S # {}
    PROVE  Max(S) \in S /\ \A m \in S : m <= Max(S)
<1> DEFINE T == {n - m : m \in S}
<1>1. T \in SUBSET Nat /\ T # {}
  <2>1. \A m \in 1 .. n : n - m \in Nat
    OBVIOUS
  <2>2. \A m \in S : n - m \in Nat
    BY <2>1
  <2> QED
    BY <2>2
<1>2. PICK k \in T : \A m \in T : k <= m
  BY <1>1, SmallestOf
<1>3. PICK g \in S : k = n - g
  BY <1>2
<1>4. \A m \in S : g >= m
  BY <1>2, <1>3
<1>5. \E x \in S : \A y \in S : x >= y
  BY <1>4
<1>6. Max(S) \in S /\ \A m \in S : Max(S) >= m
  BY <1>5 DEF Max
<1> QED
  BY <1>6

LEMMA GreaterOf ==
    ASSUME NEW a \in Nat, NEW b \in Nat
    PROVE  Max({a, b}) \in Nat /\ a <= Max({a, b}) /\ b <= Max({a, b})
<1>1. \E x \in {a, b} : \A y \in {a, b} : x >= y
  OBVIOUS
<1>2. Max({a, b}) \in {a, b} /\ \A y \in {a, b} : Max({a, b}) >= y
  BY <1>1 DEF Max
<1> QED
  BY <1>2

\* What flecs_pipeline_next_system leaves is a place of the schedule; from the
\* end of an operation it is the next operation's begin.
NextPlace(seq, from, r) ==
    /\ r.op \in 0 .. Len(seq) /\ r.i \in Nat
    /\ from.op \in 1 .. Len(seq) /\ from.i + 1 >= End(seq[from.op]) =>
           r.i = from.i + 1 /\ r.op = IF from.op < Len(seq) THEN from.op + 1 ELSE 0
    /\ from.op \in 1 .. Len(seq) /\ from.i + 1 < End(seq[from.op]) =>
           r.i = from.i + 1 /\ r.op = from.op

LEMMA NextSystemFacts ==
    ASSUME NEW s, s.ops \in Seq(OperationRecords),
           NEW from, from.op \in Nat, from.i \in Nat,
           NEW r, r = NextSystem(s, [op |-> from.op, i |-> from.i])
    PROVE  NextPlace(s.ops, from, r)
<1> DEFINE N == Len(s.ops)
<1>1. N \in Nat
  OBVIOUS
<1>2. PICK o \in Nat, i \in Nat : from.op = o /\ from.i = i
  OBVIOUS
<1>3. ASSUME o \in 1 .. N PROVE End(s.ops[o]) \in Nat
  <2>1. s.ops[o] \in OperationRecords
    BY <1>3
  <2> QED
    BY <2>1 DEF OperationRecords, End
<1> HIDE DEF N
<1>4. CASE o = 0
  <2>1. r = [op |-> o, i |-> i]
    BY <1>2, <1>4 DEF NextSystem
  <2> QED
    BY <1>1, <1>2, <1>4, <2>1 DEF NextPlace, N
<1>5. CASE o # 0 /\ o <= N /\ i + 1 < End(s.ops[o])
  <2>1. r = [[op |-> o, i |-> i] EXCEPT !.i = @ + 1]
    BY <1>2, <1>5 DEF NextSystem, End, N
  <2>2. r.op = o /\ r.i = i + 1
    BY <2>1
  <2>3. o \in 1 .. N /\ ~(i + 1 >= End(s.ops[o]))
    BY <1>1, <1>3, <1>5
  <2> QED
    BY <1>1, <1>2, <2>2, <2>3 DEF NextPlace, N
<1>6. CASE o # 0 /\ ~(o <= N /\ i + 1 < End(s.ops[o]))
  <2>1. r = [op |-> IF o < N THEN o + 1 ELSE 0, i |-> i + 1]
    BY <1>2, <1>6 DEF NextSystem, End, N
  <2>2. r.i = i + 1 /\ r.op = IF o < N THEN o + 1 ELSE 0
    BY <2>1
  <2>3. r.op \in 0 .. N
    BY <1>1, <2>2
  <2>4. o \in 1 .. N => ~(i + 1 < End(s.ops[o]))
    BY <1>6
  <2> QED
    BY <1>1, <1>2, <2>2, <2>3, <2>4 DEF NextPlace, N
<1> QED
  BY <1>4, <1>5, <1>6

\* A rebuilt schedule goes on after the last of the marked systems.
GoesOn(list, seq, marks, r) ==
    \E i \in 1 .. Len(list) :
        /\ list[i] \in marks
        /\ \A j \in i + 1 .. Len(list) : list[j] \notin marks
        /\ \/ r.op = 0 /\ r.i \in Nat /\ i = Len(list)
           \/ r.op \in 1 .. Len(seq) /\ r.i = i /\ i < End(seq[r.op])

LEMMA ResumedFacts ==
    ASSUME NEW D, NEW enabled, NEW active, NEW s, Scheduled(s.systems, s.ops, D, enabled, active),
           NEW marks, Range(s.systems) \cap marks # {}, NEW cur,
           NEW r, r = NextSystem(s, Resumed(s, marks, cur))
    PROVE  GoesOn(s.systems, s.ops, marks, r)
<1> DEFINE N == Len(s.systems)
           L == Len(s.ops)
           done == {i \in DOMAIN s.systems : s.systems[i] \in marks}
           last == Max(done)
           Holds(k) == s.ops[k].offset < last /\ last <= s.ops[k].offset + s.ops[k].count
           o == CHOOSE k \in DOMAIN s.ops : Holds(k)
           from == IF last < s.ops[o].offset + s.ops[o].count THEN [op |-> o, i |-> last - 1]
                   ELSE IF o < Len(s.ops) THEN [op |-> o + 1, i |-> last - 1]
                   ELSE [op |-> 0, i |-> 0]
<1>1. /\ s.systems \in Seq(Systems) /\ s.ops \in Seq(OperationRecords)
      /\ Tiled(s.systems, s.ops)
      /\ \A k \in 1 .. L : s.ops[k].count = 0 => L = 1
  BY DEF Scheduled
<1>2. N \in Nat /\ L \in Nat /\ DOMAIN s.systems = 1 .. N /\ DOMAIN s.ops = 1 .. L
  BY <1>1
<1>3. done # {} /\ done \in SUBSET (1 .. N)
  BY <1>2 DEF Range
<1>4. Resumed(s, marks, cur) = from
  BY <1>3 DEF Resumed
<1>5. last \in done /\ \A m \in done : m <= last
  <2> HIDE DEF done, N
  <2> QED
    BY <1>2, <1>3, GreatestOf
<1>6. last \in 1 .. N /\ s.systems[last] \in marks
  BY <1>2, <1>5
<1>7. \A j \in last + 1 .. N : s.systems[j] \notin marks
  <2>1. SUFFICES ASSUME NEW j \in last + 1 .. N, s.systems[j] \in marks PROVE FALSE
    OBVIOUS
  <2>2. j \in done /\ ~(j <= last)
    BY <1>2, <1>6, <2>1
  <2> QED
    BY <1>5, <2>2
<1>8. PICK k \in 1 .. L : last \in Places(s.ops[k])
  BY <1>1, <1>6 DEF Tiled
<1>9. ASSUME NEW m \in 1 .. L
      PROVE  /\ s.ops[m].offset \in Nat /\ s.ops[m].count \in Nat
             /\ End(s.ops[m]) <= N
  <2>1. s.ops[m] \in OperationRecords
    BY <1>1
  <2> QED
    BY <1>1, <2>1 DEF OperationRecords, Tiled
<1> HIDE DEF done, last
<1>10. Holds(k)
  <2>1. s.ops[k].offset \in Nat /\ s.ops[k].count \in Nat
    BY <1>9
  <2> QED
    BY <1>2, <1>6, <1>8, <2>1 DEF Places
<1>11. o \in 1 .. L /\ Holds(o)
  BY <1>2, <1>10
<1>12. from = IF last < End(s.ops[o]) THEN [op |-> o, i |-> last - 1]
              ELSE IF o < L THEN [op |-> o + 1, i |-> last - 1]
              ELSE [op |-> 0, i |-> 0]
  BY DEF End
<1>13. s.ops[o].offset < last /\ last <= End(s.ops[o])
  BY <1>11 DEF End
<1>14. r = NextSystem(s, from)
  BY <1>4
<1> HIDE DEF o, from, N
<1>15. PICK end \in Nat : End(s.ops[o]) = end
  BY <1>9, <1>11 DEF End
<1>16. last \in Nat /\ last >= 1 /\ last - 1 \in Nat /\ last - 1 + 1 = last
  BY <1>2, <1>6
<1>17. ASSUME NEW at \in 1 .. L, last < End(s.ops[at]), from = [op |-> at, i |-> last - 1]
       PROVE  r.op \in 1 .. L /\ r.i = last /\ last < End(s.ops[r.op])
  <2>1. from.op = at /\ from.i = last - 1 /\ from = [op |-> from.op, i |-> from.i]
    BY <1>17
  <2>2. NextPlace(s.ops, from, r)
    BY <1>1, <1>14, <1>16, <2>1, NextSystemFacts
  <2> QED
    BY <1>16, <1>17, <2>1, <2>2 DEF NextPlace
<1>18. CASE last < end
  <2>1. r.op \in 1 .. L /\ r.i = last /\ last < End(s.ops[r.op])
    BY <1>11, <1>12, <1>15, <1>17, <1>18
  <2> QED
    BY <1>6, <1>7, <2>1 DEF GoesOn, N
<1>19. CASE ~(last < end) /\ o < L
  <2>1. last = end /\ o + 1 \in 1 .. L /\ o \in 1 .. L - 1
    BY <1>2, <1>11, <1>13, <1>15, <1>16, <1>19
  <2>2. s.ops[o + 1].offset = End(s.ops[o])
    BY <1>1, <2>1 DEF Tiled
  <2>3. s.ops[o + 1].count # 0
    BY <1>1, <1>2, <1>11, <1>19, <2>1
  <2>4. last < End(s.ops[o + 1])
    <3>1. PICK count \in Nat : s.ops[o + 1].count = count
      BY <1>9, <2>1
    <3>2. End(s.ops[o + 1]) = end + count
      BY <1>15, <2>2, <3>1 DEF End
    <3> QED
      BY <1>15, <2>1, <2>3, <3>1, <3>2
  <2>5. from = [op |-> o + 1, i |-> last - 1]
    BY <1>12, <1>15, <1>19
  <2>6. r.op \in 1 .. L /\ r.i = last /\ last < End(s.ops[r.op])
    BY <1>17, <2>1, <2>4, <2>5
  <2> QED
    BY <1>6, <1>7, <2>6 DEF GoesOn, N
<1>20. CASE ~(last < end) /\ ~(o < L)
  <2>1. last = end /\ o = L
    BY <1>2, <1>11, <1>13, <1>15, <1>16, <1>20
  <2>2. s.ops # <<>>
    BY <1>2, <1>11, <2>1
  <2>3. last = N
    BY <1>1, <1>15, <2>1, <2>2 DEF Tiled, N
  <2>4. from = [op |-> 0, i |-> 0]
    BY <1>12, <1>15, <1>20
  <2>5. r = [op |-> 0, i |-> 0]
    BY <1>14, <2>4 DEF NextSystem
  <2>6. r.op = 0 /\ r.i \in Nat
    BY <2>5
  <2> QED
    BY <1>6, <1>7, <2>3, <2>6 DEF GoesOn, N
<1> QED
  BY <1>18, <1>19, <1>20

-----------------------------------------------------------------------------
(***************************************************************************)
(* The invariant                                                             *)
(***************************************************************************)

RunsData == [s \in Systems |-> SystemData[sys[s]]]
EnabledIn(stat) == {s \in Systems : stat[s] # "unmatched"}
ActiveIn(stat) == {s \in Systems : stat[s] = "active"}

\* The schedule is one that was built; it is that of what there is now, unless
\* something has changed.
ScheduleKept ==
    /\ \E stat \in [Systems -> Statuses] :
           Scheduled(systems, ops, RunsData, EnabledIn(stat), ActiveIn(stat))
    /\ ~changed => Scheduled(systems, ops, RunsData, EnabledIn(status), ActiveIn(status))

\* None of the systems from the place where the run is has run.
PlaceKept ==
    running /\ cur_op # 0 =>
        /\ ~changed
        /\ \A j \in cur_i + 1 .. Len(systems) : systems[j] \notin ran
        /\ located => \/ cur_i < End(ops[cur_op])
                      \/ cur_op = Len(ops) /\ cur_i = Len(systems)

MarksKept == running => ran \subseteq marked /\ (located => marked = ran)

\* The systems that are due have run, or are ahead.
DueKept ==
    running /\ located =>
        \A d \in due : \/ d \in ran
                       \/ cur_op # 0 /\ \E j \in cur_i + 1 .. Len(systems) : systems[j] = d

PipelineInv == TypeOK /\ ScheduleKept /\ PlaceKept /\ MarksKept /\ DueKept

LEMMA DataFacts ==
    ASSUME sys \in [Systems -> Kinds]
    PROVE  /\ RunsData \in [Systems -> SystemRecords]
           /\ \A s \in Systems : NeedsNoMerge(RunsData[s])
           /\ \A s \in Systems : RunsData[s] = SystemData[sys[s]]
<1>1. \A s \in Systems : SystemData[sys[s]] \in SystemRecords /\ NeedsNoMerge(SystemData[sys[s]])
  BY SystemDataAssumption
<1> QED
  BY <1>1 DEF RunsData

LEMMA BuiltScheduleFacts ==
    ASSUME sys \in [Systems -> Kinds], NEW stat, NEW s, s = BuiltSchedule(TRUE, stat)
    PROVE  Scheduled(s.systems, s.ops, RunsData, EnabledIn(stat), ActiveIn(stat))
<1>1. s = Build(RunsData, EnabledIn(stat), ActiveIn(stat))
  BY DEF BuiltSchedule, RunsData, EnabledIn, ActiveIn
<1>2. EnabledIn(stat) \in SUBSET Systems /\ ActiveIn(stat) \in SUBSET EnabledIn(stat)
  BY DEF EnabledIn, ActiveIn
<1>3. /\ RunsData \in [Systems -> SystemRecords]
      /\ \A x \in Systems : NeedsNoMerge(RunsData[x])
  BY DataFacts
<1> QED
  BY <1>1, <1>2, <1>3, BuildFacts

\* A schedule without systems
LEMMA NothingScheduled ==
    ASSUME NEW D, NEW enabled
    PROVE  Scheduled(<<>>, <<>>, D, enabled, {})
<1>1. Range(<<>>) = {}
  BY DEF Range
<1> QED
  BY <1>1 DEF Scheduled, Increasing, Tiled, Uniform, Reasons, Apart

LEMMA PipelineInit == Init => PipelineInv
<1> SUFFICES ASSUME Init PROVE PipelineInv
  OBVIOUS
<1>1. /\ sys \in [Systems -> Kinds] /\ status \in [Systems -> Statuses] /\ changed = TRUE
      /\ systems = <<>> /\ ops = <<>> /\ cur_op = 0 /\ cur_i = 0 /\ marked = {}
      /\ running = FALSE /\ ran = {} /\ due = {} /\ located = TRUE
  BY DEF Init
<1>2. TypeOK
  <2>1. systems \in Seq(Systems) /\ DOMAIN ops = {} /\ Len(ops) = 0
    BY <1>1
  <2>2. cur_op \in 0 .. Len(ops) /\ cur_i \in Nat
    BY <1>1, <2>1
  <2> QED
    BY <1>1, <2>1, <2>2 DEF TypeOK
<1>3. ScheduleKept
  <2> DEFINE stat == [s \in Systems |-> "unmatched"]
  <2>1. stat \in [Systems -> Statuses]
    BY DEF Statuses
  <2>2. ActiveIn(stat) = {}
    BY DEF ActiveIn
  <2>3. Scheduled(systems, ops, RunsData, EnabledIn(stat), {})
    BY <1>1, NothingScheduled
  <2> HIDE DEF stat
  <2> QED
    BY <1>1, <2>1, <2>2, <2>3 DEF ScheduleKept
<1> QED
  BY <1>1, <1>2, <1>3 DEF PipelineInv, PlaceKept, MarksKept, DueKept

\* What a schedule means for the variables' types
LEMMA ScheduledTyped ==
    ASSUME NEW list, NEW seq, NEW D, NEW enabled, NEW active, Scheduled(list, seq, D, enabled, active)
    PROVE  /\ list \in Seq(Systems)
           /\ \A k \in DOMAIN seq :
                  /\ seq[k].offset \in Nat /\ seq[k].count \in Nat
                  /\ seq[k].multi_threaded \in BOOLEAN /\ seq[k].immediate \in BOOLEAN
<1>1. list \in Seq(Systems) /\ seq \in Seq(OperationRecords)
  BY DEF Scheduled
<1>2. \A k \in DOMAIN seq : seq[k] \in OperationRecords
  BY <1>1
<1> QED
  BY <1>1, <1>2 DEF OperationRecords

LEMMA BeginRunKeeps == PipelineInv /\ BeginRun => PipelineInv'
<1> SUFFICES ASSUME PipelineInv, BeginRun PROVE PipelineInv'
  OBVIOUS
<1> DEFINE s == BuiltSchedule(changed, status)
<1>1. /\ running' = TRUE /\ systems' = s.systems /\ ops' = s.ops
      /\ changed' = (changed /\ s.ops = <<>>)
      /\ cur_op' = (IF s.ops = <<>> THEN 0 ELSE 1) /\ cur_i' = 0
      /\ ran' = {} /\ due' = Active /\ located' = (marked = {})
      /\ sys' = sys /\ status' = status /\ marked' = marked
  BY DEF BeginRun
<1>2. /\ sys \in [Systems -> Kinds] /\ status \in [Systems -> Statuses] /\ changed \in BOOLEAN
      /\ marked \subseteq Systems
  BY DEF PipelineInv, TypeOK
<1>3. Scheduled(s.systems, s.ops, RunsData, EnabledIn(status), ActiveIn(status))
  <2>1. CASE changed
    <3>1. s = BuiltSchedule(TRUE, status)
      BY <1>2, <2>1
    <3> HIDE DEF s
    <3> QED
      BY <1>2, <3>1, BuiltScheduleFacts
  <2>2. CASE ~changed
    <3>1. s.systems = systems /\ s.ops = ops
      BY <1>2, <2>2 DEF BuiltSchedule
    <3> QED
      BY <2>2, <3>1 DEF PipelineInv, ScheduleKept
  <2> QED
    BY <2>1, <2>2
<1> HIDE DEF s
<1>4. RunsData' = RunsData /\ EnabledIn(status)' = EnabledIn(status) /\ ActiveIn(status)' = ActiveIn(status)
  BY <1>1 DEF RunsData, EnabledIn, ActiveIn
<1>5. ScheduleKept'
  BY <1>1, <1>2, <1>3, <1>4 DEF ScheduleKept, EnabledIn, ActiveIn
<1>6. /\ s.systems \in Seq(Systems) /\ s.ops \in Seq(OperationRecords)
      /\ Range(s.systems) = ActiveIn(status) /\ Tiled(s.systems, s.ops)
      /\ \A o \in 1 .. Len(s.ops) : s.ops[o].count = 0 => Len(s.ops) = 1
  BY <1>3 DEF Scheduled
<1>7. TypeOK'
  <2>1. /\ s.systems \in Seq(Systems)
        /\ \A k \in DOMAIN s.ops :
               /\ s.ops[k].offset \in Nat /\ s.ops[k].count \in Nat
               /\ s.ops[k].multi_threaded \in BOOLEAN /\ s.ops[k].immediate \in BOOLEAN
    BY <1>3, ScheduledTyped
  <2>2. cur_op' \in 0 .. Len(s.ops)
    <3>1. s.ops # <<>> => Len(s.ops) >= 1 /\ Len(s.ops) \in Nat
      BY <1>6
    <3> QED
      BY <1>1, <1>6, <3>1
  <2>3. Active \subseteq Systems
    BY DEF Active
  <2>4. changed' \in BOOLEAN /\ located' \in BOOLEAN /\ running' \in BOOLEAN
    BY <1>1
  <2> QED
    BY <1>1, <1>2, <2>1, <2>2, <2>3, <2>4 DEF TypeOK
<1>8. PlaceKept'
  <2>1. SUFFICES ASSUME cur_op' # 0
                 PROVE  /\ ~changed'
                        /\ \A j \in cur_i' + 1 .. Len(systems') : systems'[j] \notin ran'
                        /\ \/ cur_i' < End(ops'[cur_op'])
                           \/ cur_op' = Len(ops') /\ cur_i' = Len(systems')
    BY DEF PlaceKept, End
  <2>2. s.ops # <<>> /\ cur_op' = 1 /\ ~changed'
    BY <1>1, <2>1
  <2>3. Len(s.ops) \in Nat /\ 1 \in 1 .. Len(s.ops)
    BY <1>6, <2>2
  <2>4. s.ops[1] \in OperationRecords
    BY <1>6, <2>3
  <2>5. PICK count \in Nat : s.ops[1].count = count
    BY <2>4 DEF OperationRecords
  <2>6. End(s.ops[1]) = count
    <3>1. s.ops[1].offset = 0
      BY <1>6, <2>2 DEF Tiled
    <3> QED
      BY <2>5, <3>1 DEF End
  <2>7. 0 < End(s.ops[1]) \/ (Len(s.ops) = 1 /\ Len(s.systems) = 0)
    <3>1. CASE count = 0
      <4>1. Len(s.ops) = 1
        BY <1>6, <2>3, <2>5, <3>1
      <4>2. End(s.ops[1]) = Len(s.systems)
        BY <1>6, <2>2, <4>1 DEF Tiled
      <4> QED
        BY <2>6, <3>1, <4>1, <4>2
    <3>2. CASE count # 0
      BY <2>6, <3>2
    <3> QED
      BY <3>1, <3>2
  <2> QED
    BY <1>1, <2>2, <2>7
<1>9. MarksKept'
  BY <1>1 DEF MarksKept
<1>10. DueKept'
  <2>1. SUFFICES ASSUME NEW d \in Active
                 PROVE  cur_op' # 0 /\ \E j \in cur_i' + 1 .. Len(systems') : systems'[j] = d
    BY <1>1 DEF DueKept
  <2>2. PICK j \in DOMAIN s.systems : s.systems[j] = d
    BY <1>6, <2>1 DEF Active, ActiveIn, Range
  <2>3. j \in 0 + 1 .. Len(s.systems)
    BY <1>6, <2>2
  <2>4. s.ops # <<>>
    <3>1. s.systems # <<>>
      BY <2>2
    <3> QED
      BY <1>6, <3>1 DEF Tiled
  <2> QED
    BY <1>1, <2>2, <2>3, <2>4
<1> QED
  BY <1>5, <1>7, <1>8, <1>9, <1>10 DEF PipelineInv

LEMMA EndRunKeeps == PipelineInv /\ EndRun => PipelineInv'
<1> SUFFICES ASSUME PipelineInv, EndRun PROVE PipelineInv'
  OBVIOUS
<1>1. /\ running' = FALSE /\ ran' = {} /\ due' = {} /\ located' = TRUE
      /\ sys' = sys /\ status' = status /\ changed' = changed /\ marked' = marked
      /\ systems' = systems /\ ops' = ops /\ cur_op' = cur_op /\ cur_i' = cur_i
  BY DEF EndRun, scheduleVars
<1>2. TypeOK' /\ ScheduleKept'
  BY <1>1 DEF PipelineInv, TypeOK, ScheduleKept, RunsData, EnabledIn, ActiveIn
<1> QED
  BY <1>1, <1>2 DEF PipelineInv, PlaceKept, MarksKept, DueKept

LEMMA EndFrameKeeps == PipelineInv /\ EndFrame => PipelineInv'
<1> SUFFICES ASSUME PipelineInv, EndFrame PROVE PipelineInv'
  OBVIOUS
<1>1. /\ ~running /\ running' = running /\ marked' = {}
      /\ ran' = ran /\ due' = due /\ located' = located
      /\ sys' = sys /\ status' = status /\ changed' = changed
      /\ systems' = systems /\ ops' = ops /\ cur_op' = cur_op /\ cur_i' = cur_i
  BY DEF EndFrame, scheduleVars, historyVars
<1>2. TypeOK' /\ ScheduleKept'
  BY <1>1 DEF PipelineInv, TypeOK, ScheduleKept, RunsData, EnabledIn, ActiveIn
<1> QED
  BY <1>1, <1>2 DEF PipelineInv, PlaceKept, MarksKept, DueKept

LEMMA ChangeSystemsKeeps == PipelineInv /\ ChangeSystems => PipelineInv'
<1> SUFFICES ASSUME PipelineInv, ChangeSystems PROVE PipelineInv'
  OBVIOUS
<1>1. /\ ~running /\ running' = running /\ marked' = marked
      /\ ran' = ran /\ due' = due /\ located' = located
      /\ sys' = sys /\ changed' = (changed \/ status' # status)
      /\ systems' = systems /\ ops' = ops /\ cur_op' = cur_op /\ cur_i' = cur_i
  BY DEF ChangeSystems, scheduleVars, historyVars
<1>2. status' \in [Systems -> Statuses]
  BY DEF ChangeSystems, Changes
<1>3. TypeOK'
  BY <1>1, <1>2 DEF PipelineInv, TypeOK
<1>4. RunsData' = RunsData
  BY <1>1 DEF RunsData
<1>5. ScheduleKept'
  <2>1. CASE changed'
    BY <1>1, <1>4, <2>1 DEF PipelineInv, ScheduleKept, EnabledIn, ActiveIn
  <2>2. CASE ~changed'
    <3>1. ~changed /\ status' = status
      BY <1>1, <2>2
    <3> QED
      BY <1>1, <1>4, <3>1 DEF PipelineInv, ScheduleKept, EnabledIn, ActiveIn
  <2> QED
    BY <2>1, <2>2
<1> QED
  BY <1>1, <1>3, <1>5 DEF PipelineInv, PlaceKept, MarksKept, DueKept

\* While the schedule stays, a run goes on to the next operation.
LEMMA StaysInSchedule ==
    ASSUME PipelineInv, NEW stat, NEW marks, NEW o \in 1 .. Len(ops), NEW i \in Nat,
           i + 1 >= End(ops[o]),
           UpdatePipeline(BuiltSchedule(FALSE, stat), FALSE, marks, [op |-> o, i |-> i])
    PROVE  /\ systems' = systems /\ ops' = ops /\ changed' = FALSE
           /\ cur_i' = i + 1 /\ cur_op' = IF o < Len(ops) THEN o + 1 ELSE 0
<1> DEFINE s == BuiltSchedule(FALSE, stat)
           from == [op |-> o, i |-> i]
           r == NextSystem(s, from)
<1>1. s.systems = systems /\ s.ops = ops
  BY DEF BuiltSchedule
<1>2. ops \in Seq(OperationRecords)
  BY DEF PipelineInv, ScheduleKept, Scheduled
<1>3. /\ systems' = s.systems /\ ops' = s.ops /\ changed' = FALSE
      /\ cur_op' = r.op /\ cur_i' = r.i
  BY DEF UpdatePipeline
<1>4. from.op = o /\ from.i = i /\ from = [op |-> from.op, i |-> from.i] /\ o \in Nat
  OBVIOUS
<1>5. r = NextSystem(s, from)
  OBVIOUS
<1> HIDE DEF s, from, r
<1>6. NextPlace(s.ops, from, r)
  BY <1>1, <1>2, <1>4, <1>5, NextSystemFacts
<1>7. r.i = i + 1 /\ r.op = IF o < Len(ops) THEN o + 1 ELSE 0
  BY <1>1, <1>4, <1>6 DEF NextPlace
<1> QED
  BY <1>1, <1>3, <1>7

\* A schedule that was built anew goes on after what is marked, if anything is.
RebuiltTo(s, marks) ==
    /\ systems' = s.systems /\ ops' = s.ops /\ changed' = (s.ops = <<>>)
    /\ cur_op' \in 0 .. Len(s.ops) /\ cur_i' \in Nat
    /\ Range(s.systems) \cap marks # {} =>
           GoesOn(s.systems, s.ops, marks, [op |-> cur_op', i |-> cur_i'])

LEMMA RebuiltFacts ==
    ASSUME NEW D, NEW enabled, NEW active, NEW s, Scheduled(s.systems, s.ops, D, enabled, active),
           NEW marks, NEW o \in Nat, NEW i \in Nat,
           UpdatePipeline(s, TRUE, marks, [op |-> o, i |-> i])
    PROVE  RebuiltTo(s, marks)
<1> DEFINE last == [op |-> o, i |-> i]
           lost == Range(s.systems) \cap marks = {}
<1>1. s.systems \in Seq(Systems) /\ s.ops \in Seq(OperationRecords)
  BY DEF Scheduled
<1>2. /\ systems' = s.systems /\ ops' = s.ops /\ changed' = (s.ops = <<>>)
      /\ \E from \in IF lost THEN Stale(s, last) ELSE {last} :
            LET cur == NextSystem(s, Resumed(s, marks, from))
            IN  cur_op' = cur.op /\ cur_i' = cur.i
  BY DEF UpdatePipeline
<1> HIDE DEF last
<1>3. PICK from \in IF lost THEN Stale(s, last) ELSE {last} :
            LET cur == NextSystem(s, Resumed(s, marks, from))
            IN  cur_op' = cur.op /\ cur_i' = cur.i
  BY <1>2
<1> DEFINE r == NextSystem(s, Resumed(s, marks, from))
<1>4. cur_op' = r.op /\ cur_i' = r.i
  BY <1>3
<1>5. CASE lost
  <2>1. {k \in DOMAIN s.systems : s.systems[k] \in marks} = {}
    BY <1>5 DEF Range
  <2>2. Resumed(s, marks, from) = from
    BY <2>1 DEF Resumed
  <2>3. from.op \in Nat /\ from.i \in Nat /\ from = [op |-> from.op, i |-> from.i]
    <3>1. from \in {last} \cup {[last EXCEPT !.op = k] : k \in 0 .. Len(s.ops)}
      BY <1>3, <1>5 DEF Stale
    <3>2. last.op \in Nat /\ last.i \in Nat /\ last = [op |-> last.op, i |-> last.i]
      BY DEF last
    <3>3. ASSUME NEW k \in 0 .. Len(s.ops), from = [last EXCEPT !.op = k]
          PROVE  from.op \in Nat /\ from.i \in Nat /\ from = [op |-> from.op, i |-> from.i]
      <4>1. from = [op |-> k, i |-> i] /\ k \in Nat
        BY <1>1, <3>3 DEF last
      <4> QED
        BY <4>1
    <3> QED
      BY <3>1, <3>2, <3>3
  <2>4. r = NextSystem(s, [op |-> from.op, i |-> from.i])
    BY <2>2, <2>3
  <2> HIDE DEF r
  <2>5. NextPlace(s.ops, from, r)
    BY <1>1, <2>3, <2>4, NextSystemFacts
  <2> QED
    BY <1>2, <1>4, <1>5, <2>5 DEF NextPlace, RebuiltTo
<1>6. CASE ~lost
  <2>1. r = NextSystem(s, Resumed(s, marks, from))
    OBVIOUS
  <2> HIDE DEF r
  <2>2. GoesOn(s.systems, s.ops, marks, r)
    BY <1>6, <2>1, ResumedFacts
  <2>3. GoesOn(s.systems, s.ops, marks, [op |-> cur_op', i |-> cur_i'])
    BY <1>4, <2>2 DEF GoesOn
  <2>4. r.op \in 0 .. Len(s.ops) /\ r.i \in Nat
    <3>1. Len(s.systems) \in Nat /\ Len(s.ops) \in Nat
      BY <1>1
    <3> QED
      BY <2>2, <3>1 DEF GoesOn
  <2> QED
    BY <1>2, <1>4, <2>3, <2>4 DEF RebuiltTo
<1> QED
  BY <1>5, <1>6

LEMMA SkipOperationKeeps == PipelineInv /\ SkipOperation => PipelineInv'
<1> SUFFICES ASSUME PipelineInv, SkipOperation PROVE PipelineInv'
  OBVIOUS
<1>1. /\ running /\ cur_op # 0 /\ cur_i = Len(systems)
      /\ UpdatePipeline(BuiltSchedule(changed, status), changed, marked, [op |-> cur_op, i |-> cur_i])
      /\ sys' = sys /\ status' = status /\ marked' = marked /\ running' = running
      /\ ran' = ran /\ due' = due /\ located' = located
  BY DEF SkipOperation, historyVars
<1>2. changed = FALSE
  <2>1. changed \in BOOLEAN
    BY DEF PipelineInv, TypeOK
  <2> QED
    BY <1>1, <2>1 DEF PipelineInv, PlaceKept
<1>3. cur_op \in 1 .. Len(ops) /\ cur_i \in Nat /\ Len(ops) \in Nat /\ Len(systems) \in Nat
  <2>1. ops \in Seq(OperationRecords) /\ systems \in Seq(Systems)
    BY DEF PipelineInv, ScheduleKept, Scheduled
  <2> QED
    BY <1>1, <2>1 DEF PipelineInv, TypeOK
<1>4. End(ops[cur_op]) <= Len(systems) /\ End(ops[cur_op]) \in Nat
  <2>1. Tiled(systems, ops) /\ ops \in Seq(OperationRecords)
    BY DEF PipelineInv, ScheduleKept, Scheduled
  <2>2. ops[cur_op] \in OperationRecords
    BY <1>3, <2>1
  <2> QED
    BY <1>3, <2>1, <2>2 DEF Tiled, OperationRecords, End
<1>5. cur_i + 1 >= End(ops[cur_op])
  BY <1>1, <1>3, <1>4
<1>6. /\ systems' = systems /\ ops' = ops /\ changed' = FALSE
      /\ cur_i' = cur_i + 1 /\ cur_op' = IF cur_op < Len(ops) THEN cur_op + 1 ELSE 0
  <2>1. UpdatePipeline(BuiltSchedule(FALSE, status), FALSE, marked, [op |-> cur_op, i |-> cur_i])
    BY <1>1, <1>2
  <2> QED
    BY <1>3, <1>5, <2>1, StaysInSchedule
<1>7. cur_op' \in 0 .. Len(ops) /\ cur_i' \in Nat
  BY <1>3, <1>6
<1>8. TypeOK'
  BY <1>1, <1>6, <1>7 DEF PipelineInv, TypeOK
<1>9. ScheduleKept'
  BY <1>1, <1>2, <1>6 DEF PipelineInv, ScheduleKept, RunsData, EnabledIn, ActiveIn
<1>10. located => cur_op = Len(ops)
  BY <1>1, <1>3, <1>4 DEF PipelineInv, PlaceKept
<1>11. cur_i' + 1 .. Len(systems) = {} /\ cur_i + 1 .. Len(systems) = {}
  BY <1>1, <1>3, <1>6
<1>12. located => cur_op' = 0
  BY <1>3, <1>6, <1>10
<1>13. PlaceKept'
  BY <1>1, <1>6, <1>11, <1>12 DEF PlaceKept
<1>14. MarksKept'
  BY <1>1 DEF PipelineInv, MarksKept
<1>15. DueKept'
  BY <1>1, <1>11 DEF PipelineInv, DueKept
<1> QED
  BY <1>8, <1>9, <1>13, <1>14, <1>15 DEF PipelineInv

\* The systems that an operation runs, and where it leaves the run
OperationRan ==
    /\ OperationEnd \in 0 .. Len(systems) /\ ReturnedIndex \in Nat
    /\ cur_i <= ReturnedIndex
    /\ OperationEnd <= ReturnedIndex + 1 /\ End(ops[cur_op]) <= ReturnedIndex + 1
    /\ Range(OperationSystems) = {systems[j] : j \in cur_i + 1 .. OperationEnd}
    /\ cur_i < OperationEnd => OperationSystems # <<>>
    /\ located => cur_i < OperationEnd /\ End(ops[cur_op]) = OperationEnd
                  /\ ReturnedIndex + 1 = OperationEnd

LEMMA SegmentFacts ==
    ASSUME NEW list \in Seq(Systems), NEW from \in Nat, NEW to \in 0 .. Len(list),
           NEW part, part = SubSeq(list, from + 1, to)
    PROVE  /\ Range(part) = {list[j] : j \in from + 1 .. to}
           /\ from < to => part # <<>>
<1>1. part = [k \in 1 .. to - from |-> list[k + from]]
  <2>1. to \in Nat /\ 1 + to - (from + 1) = to - from
    OBVIOUS
  <2>2. part = [k \in 1 .. 1 + to - (from + 1) |-> list[k + (from + 1) - 1]]
    OBVIOUS
  <2>3. \A k \in 1 .. to - from : k + (from + 1) - 1 = k + from
    OBVIOUS
  <2> QED
    BY <2>1, <2>2, <2>3
<1>2. DOMAIN part = 1 .. to - from /\ \A k \in 1 .. to - from : part[k] = list[k + from]
  BY <1>1
<1>3. \A k \in 1 .. to - from : k + from \in from + 1 .. to
  OBVIOUS
<1>4. \A j \in from + 1 .. to : j - from \in 1 .. to - from /\ j - from + from = j
  OBVIOUS
<1>5. Range(part) \subseteq {list[j] : j \in from + 1 .. to}
  BY <1>2, <1>3 DEF Range
<1>6. {list[j] : j \in from + 1 .. to} \subseteq Range(part)
  <2>1. \A j \in from + 1 .. to : list[j] = part[j - from] /\ j - from \in DOMAIN part
    BY <1>2, <1>4
  <2> QED
    BY <2>1 DEF Range
<1>7. from < to => part # <<>>
  <2>1. from < to => 1 \in DOMAIN part
    BY <1>2
  <2> QED
    BY <2>1
<1> QED
  BY <1>5, <1>6, <1>7

LEMMA OperationFacts ==
    ASSUME PipelineInv, running, cur_op # 0, cur_i # Len(systems)
    PROVE  OperationRan /\ cur_op \in 1 .. Len(ops) /\ cur_i \in Nat
<1> DEFINE N == Len(systems)
<1>1. systems \in Seq(Systems) /\ ops \in Seq(OperationRecords) /\ Tiled(systems, ops)
  BY DEF PipelineInv, ScheduleKept, Scheduled
<1>2. cur_op \in 1 .. Len(ops) /\ cur_i \in Nat /\ N \in Nat
  <2>1. Len(ops) \in Nat /\ cur_op \in 0 .. Len(ops) /\ cur_i \in Nat
    BY <1>1 DEF PipelineInv, TypeOK
  <2> QED
    BY <1>1, <2>1
<1>3. ops[cur_op] \in OperationRecords /\ End(ops[cur_op]) <= N
  BY <1>1, <1>2 DEF Tiled
<1>4. PICK end \in Nat : End(ops[cur_op]) = end
  BY <1>3 DEF OperationRecords, End
<1>5. OperationEnd = IF cur_i < end THEN end ELSE N
  BY <1>4 DEF OperationEnd, End
<1>6. ReturnedIndex = IF cur_i < end THEN OperationEnd - 1 ELSE Max({cur_i, OperationEnd})
  BY <1>4 DEF ReturnedIndex, End
<1>7. OperationEnd \in 0 .. N
  BY <1>2, <1>3, <1>4, <1>5
<1>8. /\ Range(OperationSystems) = {systems[j] : j \in cur_i + 1 .. OperationEnd}
      /\ cur_i < OperationEnd => OperationSystems # <<>>
  BY <1>1, <1>2, <1>7, SegmentFacts DEF OperationSystems
<1>9. located => cur_i < end
  BY <1>4 DEF PipelineInv, PlaceKept
<1> HIDE DEF N
<1>10. CASE cur_i < end
  <2>1. OperationEnd = end /\ ReturnedIndex = end - 1
    BY <1>5, <1>6, <1>10
  <2>2. ReturnedIndex \in Nat /\ cur_i <= ReturnedIndex /\ ReturnedIndex + 1 = end
    BY <1>2, <1>4, <1>10, <2>1
  <2> QED
    BY <1>2, <1>4, <1>7, <1>8, <1>10, <2>1, <2>2 DEF OperationRan, N
<1>11. CASE ~(cur_i < end)
  <2>1. OperationEnd = N /\ ReturnedIndex = Max({cur_i, N}) /\ ~located
    BY <1>5, <1>6, <1>9, <1>11
  <2>2. ReturnedIndex \in Nat /\ cur_i <= ReturnedIndex /\ N <= ReturnedIndex
    BY <1>2, <2>1, GreaterOf
  <2>3. N <= ReturnedIndex + 1 /\ end <= ReturnedIndex + 1
    BY <1>2, <1>3, <1>4, <2>2
  <2> QED
    BY <1>2, <1>4, <1>7, <1>8, <2>1, <2>2, <2>3 DEF OperationRan, N
<1> QED
  BY <1>10, <1>11

\* The operation's systems have not run before.
LEMMA NoneHasRun ==
    ASSUME PipelineInv, running, cur_op # 0, cur_i # Len(systems)
    PROVE  Range(OperationSystems) \cap ran = {}
<1>1. /\ Range(OperationSystems) = {systems[j] : j \in cur_i + 1 .. OperationEnd}
      /\ OperationEnd \in 0 .. Len(systems)
  BY OperationFacts DEF OperationRan
<1>2. \A j \in cur_i + 1 .. Len(systems) : systems[j] \notin ran
  BY DEF PipelineInv, PlaceKept
<1>3. cur_i \in Nat /\ Len(systems) \in Nat
  BY DEF PipelineInv, TypeOK
<1>4. \A j \in cur_i + 1 .. OperationEnd : j \in cur_i + 1 .. Len(systems)
  BY <1>1, <1>3
<1> QED
  BY <1>1, <1>2, <1>4

LEMMA RunOperationKeeps == PipelineInv /\ RunOperation => PipelineInv'
<1> SUFFICES ASSUME PipelineInv, RunOperation PROVE PipelineInv'
  OBVIOUS
<1> DEFINE E == OperationEnd
           last == ReturnedIndex
           N == Len(systems)
           new == Range(OperationSystems)
<1>1. /\ running /\ cur_op # 0 /\ cur_i # N
      /\ ran' = ran \cup new /\ marked' = marked \cup new
      /\ due' = (due \cap Active') \cup Ahead'
      /\ sys' = sys /\ running' = running
  BY DEF RunOperation
<1>2. PICK to \in IF OperationSystems = <<>> THEN {status} ELSE Changes :
        LET rebuild == changed \/ to # status
            s == BuiltSchedule(rebuild, to)
        IN  /\ status' = to
            /\ UpdatePipeline(s, rebuild, marked', [op |-> cur_op, i |-> Stored(ReturnedIndex)])
            /\ located' = (located /\ (rebuild => Locates(s)))
  BY DEF RunOperation
<1>3. /\ sys \in [Systems -> Kinds] /\ status \in [Systems -> Statuses] /\ changed = FALSE
      /\ systems \in Seq(Systems) /\ N \in Nat /\ ran \subseteq Systems /\ due \subseteq Systems
      /\ marked \subseteq Systems /\ located \in BOOLEAN
  <2>1. changed \in BOOLEAN
    BY DEF PipelineInv, TypeOK
  <2> QED
    BY <1>1, <2>1 DEF PipelineInv, TypeOK, PlaceKept
<1>4. status' = to /\ to \in [Systems -> Statuses]
  BY <1>2, <1>3 DEF Changes
<1>5. cur_op \in 1 .. Len(ops) /\ cur_i \in Nat /\ OperationRan
  BY <1>1, OperationFacts
<1>6. /\ E \in 0 .. N /\ last \in Nat /\ cur_i <= last /\ E <= last + 1 /\ End(ops[cur_op]) <= last + 1
      /\ new = {systems[j] : j \in cur_i + 1 .. E}
      /\ located => cur_i < E /\ End(ops[cur_op]) = E /\ last + 1 = E
  BY <1>5 DEF OperationRan
<1>7. \A i, j \in 1 .. N : i < j => systems[i] < systems[j]
  BY DEF PipelineInv, ScheduleKept, Scheduled, Increasing
<1>8. Scheduled(systems, ops, RunsData, EnabledIn(status), ActiveIn(status))
  BY <1>3 DEF PipelineInv, ScheduleKept
<1>9. Range(systems) = ActiveIn(status) /\ Tiled(systems, ops) /\ ops \in Seq(OperationRecords)
  BY <1>8 DEF Scheduled
<1>10. \A j \in cur_i + 1 .. N : systems[j] \notin ran
  BY <1>1 DEF PipelineInv, PlaceKept
<1>11. Systems \subseteq Nat /\ \A j \in 1 .. N : systems[j] \in Systems
  <2>1. Systems \subseteq Nat
    BY DEF Systems
  <2> QED
    BY <1>3, <2>1
<1>12. new \subseteq Systems
  <2>1. \A j \in cur_i + 1 .. E : j \in 1 .. N
    BY <1>3, <1>5, <1>6
  <2> QED
    BY <1>6, <1>11, <2>1
<1>13. Active' = ActiveIn(to) /\ Active = ActiveIn(status)
  BY <1>4 DEF Active, ActiveIn
<1>14. due' \subseteq Active' /\ due' \subseteq Systems
  BY <1>1, <1>3, <1>13 DEF Ahead, ActiveIn
<1>15. /\ ran' \subseteq Systems /\ marked' \subseteq Systems /\ ran' \subseteq marked'
       /\ located => marked' = ran'
  BY <1>1, <1>3, <1>12 DEF PipelineInv, MarksKept
<1>16. RunsData' = RunsData
  BY <1>1 DEF RunsData
<1>17. Ahead' = {x \in Active' : \A y \in ran' \cap Active' : y < x}
  BY DEF Ahead
<1>18. \A d \in due : located => d \in ran \/ \E j \in cur_i + 1 .. N : systems[j] = d
  BY <1>1 DEF PipelineInv, DueKept
<1> HIDE DEF E, last, N, new
\* The schedule stays: the run goes on behind the operation.
<1>19. CASE to = status
  <2>1. /\ systems' = systems /\ ops' = ops /\ changed' = FALSE
        /\ cur_i' = last + 1 /\ cur_op' = IF cur_op < Len(ops) THEN cur_op + 1 ELSE 0
    <3>1. UpdatePipeline(BuiltSchedule(FALSE, to), FALSE, marked', [op |-> cur_op, i |-> last])
      BY <1>2, <1>3, <1>19 DEF Stored, last
    <3> QED
      BY <1>5, <1>6, <3>1, StaysInSchedule
  <2>2. located' = located
    BY <1>2, <1>3, <1>19
  <2>3. Len(ops) \in Nat /\ cur_op' \in 0 .. Len(ops) /\ cur_i' \in Nat
    BY <1>5, <1>6, <1>9, <2>1
  <2>4. TypeOK'
    BY <1>1, <1>3, <1>4, <1>14, <1>15, <2>1, <2>2, <2>3 DEF PipelineInv, TypeOK
  <2>5. ScheduleKept'
    BY <1>4, <1>3, <1>8, <1>16, <1>19, <2>1 DEF ScheduleKept, EnabledIn, ActiveIn
  <2>6. PlaceKept'
    <3>1. ASSUME NEW j \in cur_i' + 1 .. N PROVE systems[j] \notin ran'
      <4>1. j \in cur_i + 1 .. N /\ j \in 1 .. N
        BY <1>3, <1>5, <1>6, <2>1, <3>1
      <4>2. ASSUME NEW k \in cur_i + 1 .. E PROVE systems[j] # systems[k]
        <5>1. k \in 1 .. N /\ k < j
          BY <1>3, <1>5, <1>6, <2>1, <3>1, <4>2
        <5>2. systems[k] < systems[j] /\ systems[k] \in Nat /\ systems[j] \in Nat
          BY <1>7, <1>11, <4>1, <5>1
        <5> QED
          BY <5>2
      <4>3. systems[j] \notin new
        BY <1>6, <4>2
      <4> QED
        BY <1>1, <1>10, <4>1, <4>3
    <3>2. ASSUME located, cur_op' # 0 PROVE cur_i' < End(ops[cur_op'])
      <4>1. cur_op < Len(ops) /\ cur_op' = cur_op + 1 /\ cur_op' \in 1 .. Len(ops)
        BY <2>1, <2>3, <3>2
      <4>2. cur_op \in 1 .. Len(ops) - 1
        BY <1>5, <2>3, <4>1
      <4>3. ops[cur_op'].offset = End(ops[cur_op])
        BY <1>9, <4>1, <4>2 DEF Tiled
      <4>4. ops[cur_op'].count # 0
        <5>1. Len(ops) # 1
          BY <1>5, <2>3, <4>1
        <5> QED
          BY <1>8, <4>1, <5>1 DEF Scheduled
      <4>5. ops[cur_op'] \in OperationRecords
        BY <1>9, <4>1
      <4>6. PICK count \in Nat : ops[cur_op'].count = count
        BY <4>5 DEF OperationRecords
      <4>7. End(ops[cur_op']) = E + count /\ E \in Nat /\ cur_i' = E
        BY <1>3, <1>6, <2>1, <3>2, <4>3, <4>6 DEF End
      <4> QED
        BY <4>4, <4>6, <4>7
    <3> QED
      BY <2>1, <2>2, <3>1, <3>2 DEF PlaceKept, N, End
  <2>7. MarksKept'
    BY <1>15, <2>2 DEF MarksKept
  <2>8. DueKept'
    <3>1. SUFFICES ASSUME located, NEW d \in due'
                   PROVE  d \in ran' \/ (cur_op' # 0 /\ \E j \in cur_i' + 1 .. N : systems[j] = d)
      BY <2>1, <2>2 DEF DueKept, N
    <3>2. cur_i' = E /\ cur_i < E /\ E \in Nat
      BY <1>3, <1>6, <2>1, <3>1
    <3>3. d \in ran' \/ \E j \in E + 1 .. N : systems[j] = d
      <4>1. CASE d \in due
        <5>1. CASE d \in ran
          BY <1>1, <5>1
        <5>2. CASE d \notin ran
          <6>1. PICK j \in cur_i + 1 .. N : systems[j] = d
            BY <1>18, <3>1, <4>1, <5>2
          <6>2. CASE j <= E
            <7>1. j \in cur_i + 1 .. E
              BY <1>3, <1>5, <3>2, <6>2
            <7> QED
              BY <1>1, <1>6, <6>1, <7>1
          <6>3. CASE ~(j <= E)
            <7>1. j \in E + 1 .. N
              BY <1>3, <1>5, <3>2, <6>3
            <7> QED
              BY <6>1, <7>1
          <6> QED
            BY <6>2, <6>3
        <5> QED
          BY <5>1, <5>2
      <4>2. CASE d \in Ahead'
        <5>1. d \in ActiveIn(status) /\ \A y \in ran' \cap ActiveIn(status) : y < d
          BY <1>13, <1>17, <1>19, <4>2
        <5>2. PICK j \in DOMAIN systems : systems[j] = d
          BY <1>9, <5>1 DEF Range
        <5>3. j \in 1 .. N /\ E \in 1 .. N /\ E \in cur_i + 1 .. E
          BY <1>3, <1>5, <1>6, <3>2, <5>2 DEF N
        <5>4. systems[E] \in ran' /\ systems[E] \in ActiveIn(status)
          BY <1>1, <1>3, <1>6, <1>9, <5>3 DEF Range, N
        <5>5. systems[E] < systems[j]
          BY <5>1, <5>2, <5>4
        <5>6. E < j
          <6>1. SUFFICES ASSUME ~(E < j) PROVE FALSE
            OBVIOUS
          <6>2. systems[E] \in Nat /\ systems[j] \in Nat
            BY <1>11, <5>3
          <6>3. j = E \/ j < E
            BY <1>3, <5>3, <6>1
          <6>4. j < E => systems[j] < systems[E]
            BY <1>7, <5>3
          <6> QED
            BY <5>5, <6>2, <6>3, <6>4
        <5>7. j \in E + 1 .. N
          BY <1>3, <5>3, <5>6
        <5> QED
          BY <5>2, <5>7
      <4> QED
        BY <1>1, <4>1, <4>2
    <3>4. cur_op' = 0 => E + 1 .. N = {}
      <4>1. ASSUME cur_op' = 0 PROVE E = N
        <5>1. cur_op = Len(ops) /\ ops # <<>>
          BY <1>5, <2>1, <2>3, <4>1
        <5>2. End(ops[cur_op]) = N
          BY <1>9, <5>1 DEF Tiled, N
        <5> QED
          BY <1>6, <3>1, <5>2
      <4> QED
        BY <1>3, <4>1
    <3> QED
      BY <3>2, <3>3, <3>4
  <2> QED
    BY <2>4, <2>5, <2>6, <2>7, <2>8 DEF PipelineInv
\* The schedule is built anew: the run goes on after the last system that has run.
<1>20. CASE to # status
  <2> DEFINE s == BuiltSchedule(TRUE, to)
             M == Len(s.systems)
  <2>1. Scheduled(s.systems, s.ops, RunsData, EnabledIn(to), ActiveIn(to))
    <3>1. s = BuiltSchedule(TRUE, to)
      OBVIOUS
    <3> HIDE DEF s
    <3> QED
      BY <1>3, <3>1, BuiltScheduleFacts
  <2>2. /\ UpdatePipeline(s, TRUE, marked', [op |-> cur_op, i |-> last])
        /\ located' = (located /\ Locates(s))
    BY <1>2, <1>20 DEF Stored, last
  <2> HIDE DEF s
  <2>3. RebuiltTo(s, marked')
    <3>1. cur_op \in Nat
      BY <1>5
    <3> QED
      BY <1>6, <2>1, <2>2, <3>1, RebuiltFacts
  <2>4. /\ systems' = s.systems /\ ops' = s.ops /\ changed' = (s.ops = <<>>)
        /\ cur_op' \in 0 .. Len(s.ops) /\ cur_i' \in Nat
        /\ Range(s.systems) \cap marked' # {} =>
               GoesOn(s.systems, s.ops, marked', [op |-> cur_op', i |-> cur_i'])
    BY <2>3 DEF RebuiltTo
  <2>5. /\ s.systems \in Seq(Systems) /\ s.ops \in Seq(OperationRecords)
        /\ Range(s.systems) = ActiveIn(to)
        /\ \A i, j \in 1 .. M : i < j => s.systems[i] < s.systems[j]
    BY <2>1 DEF Scheduled, Increasing
  <2>6. M \in Nat /\ DOMAIN s.systems = 1 .. M /\ \A j \in 1 .. M : s.systems[j] \in Nat
    <3>1. \A j \in 1 .. M : s.systems[j] \in Systems
      BY <2>5
    <3>2. M \in Nat /\ DOMAIN s.systems = 1 .. M
      BY <2>5
    <3> HIDE DEF M
    <3> QED
      BY <1>11, <3>1, <3>2
  <2>7. TypeOK'
    <3>1. /\ s.systems \in Seq(Systems)
          /\ \A k \in DOMAIN s.ops :
                 /\ s.ops[k].offset \in Nat /\ s.ops[k].count \in Nat
                 /\ s.ops[k].multi_threaded \in BOOLEAN /\ s.ops[k].immediate \in BOOLEAN
      BY <2>1, ScheduledTyped
    <3>2. changed' \in BOOLEAN /\ located' \in BOOLEAN /\ running' \in BOOLEAN
      BY <1>1, <2>2, <2>4 DEF Locates, PipelineInv, TypeOK
    <3> QED
      BY <1>1, <1>3, <1>4, <1>14, <1>15, <2>4, <3>1, <3>2 DEF TypeOK
  <2>8. ScheduleKept'
    BY <1>4, <1>16, <2>1, <2>4 DEF ScheduleKept, EnabledIn, ActiveIn
  <2>9. MarksKept'
    BY <1>15, <2>2 DEF MarksKept
  <2>10. cur_op' # 0 => ~changed'
    <3>1. SUFFICES ASSUME changed' PROVE cur_op' = 0
      OBVIOUS
    <3>2. s.ops = <<>>
      BY <2>4, <3>1
    <3>3. Len(s.ops) = 0
      BY <3>2
    <3>4. cur_op' \in 0 .. 0
      BY <2>4, <3>3
    <3> QED
      BY <3>4
  <2> HIDE DEF M
  <2>11. CASE Range(s.systems) \cap marked' = {}
    <3>1. ~located'
      BY <1>15, <2>2, <2>11 DEF Locates
    <3>2. ASSUME NEW j \in cur_i' + 1 .. M PROVE s.systems[j] \notin ran'
      <4>1. j \in DOMAIN s.systems
        <5>1. cur_i' \in Nat /\ M \in Nat
          BY <2>4, <2>6
        <5>2. \A i, m \in Nat : i + 1 .. m \subseteq 1 .. m
          OBVIOUS
        <5>3. j \in 1 .. M
          BY <3>2, <5>1, <5>2
        <5> QED
          BY <2>6, <5>3
      <4> QED
        BY <1>15, <2>11, <4>1 DEF Range
    <3>3. PlaceKept' /\ DueKept'
      BY <2>4, <2>10, <3>1, <3>2 DEF PlaceKept, DueKept, M
    <3> QED
      BY <2>7, <2>8, <2>9, <3>3 DEF PipelineInv
  <2>12. CASE Range(s.systems) \cap marked' # {}
    <3>1. PICK i \in 1 .. M :
            /\ s.systems[i] \in marked'
            /\ \A j \in i + 1 .. M : s.systems[j] \notin marked'
            /\ \/ cur_op' = 0 /\ i = M
               \/ cur_op' \in 1 .. Len(s.ops) /\ cur_i' = i /\ i < End(s.ops[cur_op'])
      BY <2>4, <2>12 DEF GoesOn, M
    <3>2. PlaceKept'
      <4>1. ASSUME cur_op' # 0
            PROVE  /\ \A j \in cur_i' + 1 .. M : s.systems[j] \notin ran'
                   /\ cur_i' < End(s.ops[cur_op'])
        BY <1>15, <3>1, <4>1
      <4> QED
        BY <2>4, <2>10, <4>1 DEF PlaceKept, M, End
    <3>3. DueKept'
      <4>1. SUFFICES ASSUME located', NEW d \in due'
                     PROVE  \/ d \in ran'
                            \/ cur_op' # 0 /\ \E j \in cur_i' + 1 .. M : s.systems[j] = d
        BY <2>4 DEF DueKept, M
      <4>2. located /\ ran \cap ActiveIn(to) \subseteq ActiveIn(status) /\ marked' = ran'
        BY <1>13, <1>15, <2>2, <4>1 DEF Locates
      <4>3. PICK k \in 1 .. M : s.systems[k] = d
        BY <1>13, <1>14, <2>5, <2>6, <4>1 DEF Range
      <4> DEFINE r == s.systems[i]
      <4>4. r \in ran' /\ r \in ActiveIn(to) /\ r \in Nat /\ d \in Nat
        BY <2>5, <2>6, <3>1, <4>2, <4>3 DEF Range
      <4>5. d \in ran' \/ r < d
        <5>1. CASE d \in Ahead'
          BY <1>13, <1>17, <4>4, <5>1
        <5>2. CASE d \notin Ahead'
          <6>1. SUFFICES ASSUME d \notin ran' PROVE r < d
            OBVIOUS
          <6>2. d \in due /\ d \notin ran
            BY <1>1, <4>1, <5>2, <6>1
          <6>3. PICK j \in cur_i + 1 .. N : systems[j] = d
            BY <1>18, <4>2, <6>2
          <6>4. E < j
            <7>1. ~(j \in cur_i + 1 .. E)
              BY <1>1, <1>6, <6>1, <6>3
            <7> QED
              BY <1>3, <1>5, <1>6, <7>1
          <6>5. \E m \in 1 .. N : m < j /\ systems[m] = r
            <7>1. CASE r \in new
              <8>1. PICK m \in cur_i + 1 .. E : systems[m] = r
                BY <1>6, <7>1
              <8> QED
                BY <1>3, <1>5, <1>6, <6>4, <8>1
            <7>2. CASE r \notin new
              <8>1. r \in ran /\ r \in ActiveIn(status)
                BY <1>1, <4>2, <4>4, <7>2
              <8>2. PICK m \in 1 .. N : systems[m] = r
                BY <1>3, <1>9, <8>1 DEF Range, N
              <8>3. ~(m \in cur_i + 1 .. N)
                BY <1>10, <8>1, <8>2
              <8> QED
                BY <1>3, <1>5, <8>2, <8>3
            <7> QED
              BY <7>1, <7>2
          <6>6. j \in 1 .. N
            BY <1>3, <1>5
          <6> QED
            BY <1>7, <6>3, <6>5, <6>6
        <5> QED
          BY <5>1, <5>2
      <4>6. CASE d \in ran'
        BY <4>6
      <4>7. CASE r < d
        <5>1. i < k
          <6>1. SUFFICES ASSUME ~(i < k) PROVE FALSE
            OBVIOUS
          <6>2. k = i \/ k < i
            BY <2>6, <3>1, <4>3, <6>1
          <6>3. k < i => d < r
            BY <2>5, <3>1, <4>3
          <6> QED
            BY <4>3, <4>4, <4>7, <6>2, <6>3
        <5>2. i # M /\ k \in i + 1 .. M
          BY <2>6, <3>1, <4>3, <5>1
        <5> QED
          BY <3>1, <4>3, <5>2
      <4> QED
        BY <4>5, <4>6, <4>7
    <3> QED
      BY <2>7, <2>8, <2>9, <3>2, <3>3 DEF PipelineInv
  <2> QED
    BY <2>11, <2>12
<1> QED
  BY <1>19, <1>20

LEMMA PipelineNext == PipelineInv /\ [Next]_vars => PipelineInv'
<1> SUFFICES ASSUME PipelineInv, [Next]_vars PROVE PipelineInv'
  OBVIOUS
<1>1. CASE BeginRun
  BY <1>1, BeginRunKeeps
<1>2. CASE RunOperation
  BY <1>2, RunOperationKeeps
<1>3. CASE SkipOperation
  BY <1>3, SkipOperationKeeps
<1>4. CASE EndRun
  BY <1>4, EndRunKeeps
<1>5. CASE EndFrame
  BY <1>5, EndFrameKeeps
<1>6. CASE ChangeSystems
  BY <1>6, ChangeSystemsKeeps
<1>7. CASE UNCHANGED vars
  BY <1>7 DEF vars, scheduleVars, historyVars, PipelineInv, TypeOK, ScheduleKept, PlaceKept,
              MarksKept, DueKept, RunsData, EnabledIn, ActiveIn
<1> QED
  BY <1>1, <1>2, <1>3, <1>4, <1>5, <1>6, <1>7 DEF Next

\* The invariant holds in every state: the schedule is one that was built, the
\* systems from where the run is have not run, those that are due have run or
\* are ahead.
THEOREM PipelineInvariant == Spec => []PipelineInv
<1>1. Init => PipelineInv
  BY PipelineInit
<1>2. PipelineInv /\ [Next]_vars => PipelineInv'
  BY PipelineNext
<1> QED
  BY <1>1, <1>2, PTL DEF Spec

-----------------------------------------------------------------------------
(***************************************************************************)
(* The properties                                                            *)
(***************************************************************************)

\* What the properties say of operations, by the places of their systems
LEMMA OperationPlaces ==
    ASSUME PipelineInv
    PROVE  /\ \A o \in DOMAIN ops : OperationOf(o) = {systems[i] : i \in Places(ops[o])}
           /\ \A o \in DOMAIN ops : OperationOf(o) \subseteq Systems
           /\ \A x, y \in Systems :
                 Conflict(x, y) <=> Depends(RunsData[y], RunsData[x])
<1>1. systems \in Seq(Systems) /\ ops \in Seq(OperationRecords) /\ Tiled(systems, ops)
  BY DEF PipelineInv, ScheduleKept, Scheduled
<1>2. \A o \in DOMAIN ops : OperationOf(o) = {systems[i] : i \in Places(ops[o])}
  BY DEF OperationOf, Places
<1>3. ASSUME NEW o \in DOMAIN ops PROVE OperationOf(o) \subseteq Systems
  <2>1. o \in 1 .. Len(ops) /\ ops[o] \in OperationRecords
    BY <1>1, <1>3
  <2>2. ops[o].offset \in Nat /\ ops[o].count \in Nat
    BY <2>1 DEF OperationRecords
  <2>3. End(ops[o]) <= Len(systems) /\ Len(systems) \in Nat
    BY <1>1, <2>1 DEF Tiled
  <2>4. \A from, count, n \in Nat : from + count <= n => from + 1 .. from + count \subseteq 1 .. n
    OBVIOUS
  <2>5. Places(ops[o]) \subseteq 1 .. Len(systems)
    BY <2>2, <2>3, <2>4 DEF Places, End
  <2> QED
    BY <1>1, <1>2, <1>3, <2>5
<1>4. ASSUME NEW x \in Systems, NEW y \in Systems
      PROVE  Conflict(x, y) <=> Depends(RunsData[y], RunsData[x])
  <2>1. sys[x] \in Kinds /\ sys[y] \in Kinds /\ sys \in [Systems -> Kinds]
    BY DEF PipelineInv, TypeOK
  <2>2. RunsData[x] = SystemData[sys[x]] /\ RunsData[y] = SystemData[sys[y]]
    BY <2>1, DataFacts
  <2> QED
    BY <2>1, <2>2 DEF Conflict, Conflicts
<1> QED
  BY <1>2, <1>3, <1>4

LEMMA SchedulesApart ==
    ASSUME WildcardsNested, PipelineInv
    PROVE  StagedIsMerged /\ InactiveMayAwake
<1>1. sys \in [Systems -> Kinds]
  BY DEF PipelineInv, TypeOK
<1>2. \A x, y \in Systems : Nested(RunsData[x], RunsData[y])
  <2>1. \A x \in Systems : RunsData[x] = SystemData[sys[x]] /\ sys[x] \in Kinds
    BY <1>1, DataFacts
  <2> QED
    BY <2>1 DEF WildcardsNested
<1>3. /\ \A o \in DOMAIN ops : OperationOf(o) = {systems[i] : i \in Places(ops[o])}
      /\ \A o \in DOMAIN ops : OperationOf(o) \subseteq Systems
      /\ \A x, y \in Systems : Conflict(x, y) <=> Depends(RunsData[y], RunsData[x])
  BY OperationPlaces
<1>4. systems \in Seq(Systems) /\ ops \in Seq(OperationRecords) /\ DOMAIN ops = 1 .. Len(ops)
  BY DEF PipelineInv, ScheduleKept, Scheduled
<1>5. StagedIsMerged
  <2>1. PICK stat \in [Systems -> Statuses] :
            Scheduled(systems, ops, RunsData, EnabledIn(stat), ActiveIn(stat))
    BY DEF PipelineInv, ScheduleKept
  <2>2. Apart(systems, ops, RunsData, EnabledIn(stat)) /\ Range(systems) = ActiveIn(stat)
    BY <1>2, <2>1 DEF Scheduled
  <2>3. SUFFICES ASSUME NEW o \in DOMAIN ops, NEW s \in OperationOf(o), NEW r \in OperationOf(o), s < r
                 PROVE  ~Conflict(s, r)
    BY DEF StagedIsMerged
  <2>4. s \in Systems /\ r \in Systems /\ r <= r
    BY <1>3, <2>3 DEF Systems
  <2>5. PICK i, j \in Places(ops[o]) : systems[i] = s /\ systems[j] = r
    BY <1>3, <2>3
  <2>6. r \in EnabledIn(stat)
    <3>1. j \in DOMAIN systems
      <4>1. ops[o] \in OperationRecords /\ o \in 1 .. Len(ops)
        BY <1>4
      <4>2. ops[o].offset \in Nat /\ ops[o].count \in Nat
        BY <4>1 DEF OperationRecords
      <4>3. End(ops[o]) <= Len(systems) /\ Len(systems) \in Nat
        BY <1>4, <2>1, <4>1 DEF Scheduled, Tiled
      <4>4. \A from, count, n \in Nat : from + count <= n => from + 1 .. from + count \subseteq 1 .. n
        OBVIOUS
      <4>5. j \in 1 .. Len(systems)
        BY <2>5, <4>2, <4>3, <4>4 DEF Places, End
      <4> QED
        BY <1>4, <4>5
    <3>2. r \in ActiveIn(stat)
      BY <2>2, <2>5, <3>1 DEF Range
    <3> QED
      BY <3>2 DEF ActiveIn, EnabledIn
  <2>7. ~Depends(RunsData[r], RunsData[s])
    BY <1>4, <2>2, <2>3, <2>4, <2>5, <2>6 DEF Apart
  <2> QED
    BY <1>3, <2>4, <2>7
<1>6. InactiveMayAwake
  <2>1. SUFFICES ASSUME ~changed, NEW o \in DOMAIN ops,
                        NEW s \in OperationOf(o), NEW r \in OperationOf(o), NEW x \in Inactive,
                        s < x, x < r
                 PROVE  ~Conflict(s, x)
    BY DEF InactiveMayAwake
  <2>2. Scheduled(systems, ops, RunsData, EnabledIn(status), ActiveIn(status))
    BY <2>1 DEF PipelineInv, ScheduleKept
  <2>3. Apart(systems, ops, RunsData, EnabledIn(status))
    BY <1>2, <2>2 DEF Scheduled
  <2>4. s \in Systems /\ r \in Systems /\ x \in Systems /\ x \in EnabledIn(status)
    BY <1>3, <2>1 DEF Inactive, EnabledIn
  <2>5. x <= r
    BY <2>1, <2>4 DEF Systems
  <2>6. PICK i, j \in Places(ops[o]) : systems[i] = s /\ systems[j] = r
    BY <1>3, <2>1
  <2>7. ~Depends(RunsData[x], RunsData[s])
    BY <1>4, <2>1, <2>3, <2>4, <2>5, <2>6 DEF Apart
  <2> QED
    BY <1>3, <2>4, <2>7
<1> QED
  BY <1>5, <1>6

LEMMA UniformOperations ==
    ASSUME PipelineInv
    PROVE  OperationsUniform
<1>1. PICK stat \in [Systems -> Statuses] :
          Scheduled(systems, ops, RunsData, EnabledIn(stat), ActiveIn(stat))
  BY DEF PipelineInv, ScheduleKept
<1>2. /\ systems \in Seq(Systems) /\ ops \in Seq(OperationRecords)
      /\ Tiled(systems, ops) /\ Uniform(systems, ops, RunsData)
      /\ \A o \in 1 .. Len(ops) : ops[o].count = 0 => Len(ops) = 1
  BY <1>1 DEF Scheduled
<1>3. DOMAIN ops = 1 .. Len(ops) /\ Len(ops) \in Nat
  BY <1>2
<1>4. \A s \in Systems : RunsData[s] = SystemData[sys[s]]
  BY DataFacts DEF PipelineInv, TypeOK
<1>5. /\ \A o \in DOMAIN ops : OperationOf(o) = {systems[i] : i \in Places(ops[o])}
      /\ \A o \in DOMAIN ops : OperationOf(o) \subseteq Systems
  BY OperationPlaces
<1>6. ASSUME NEW o \in DOMAIN ops, NEW s \in OperationOf(o)
      PROVE  /\ SystemData[sys[s]].multi_threaded = ops[o].multi_threaded
             /\ SystemData[sys[s]].immediate = ops[o].immediate
  <2>1. PICK i \in Places(ops[o]) : systems[i] = s
    BY <1>5, <1>6
  <2>2. /\ RunsData[systems[i]].multi_threaded = ops[o].multi_threaded
        /\ RunsData[systems[i]].immediate = ops[o].immediate
    BY <1>2, <1>3, <2>1 DEF Uniform
  <2>3. RunsData[systems[i]] = SystemData[sys[s]]
    BY <1>4, <1>5, <1>6, <2>1
  <2> QED
    BY <2>2, <2>3
<1>7. ASSUME NEW o \in DOMAIN ops
      PROVE  ops[o].offset = IF o = 1 THEN 0 ELSE ops[o - 1].offset + ops[o - 1].count
  <2>1. CASE o = 1
    <3>1. ops # <<>>
      BY <1>7
    <3> QED
      BY <1>2, <2>1, <3>1 DEF Tiled
  <2>2. CASE o # 1
    <3>1. o - 1 \in 1 .. Len(ops) - 1 /\ o - 1 + 1 = o
      BY <1>3, <1>7, <2>2
    <3> QED
      BY <1>2, <2>2, <3>1 DEF Tiled, End
  <2> QED
    BY <2>1, <2>2
<1>8. \A o \in DOMAIN ops : /\ ops[o].immediate => ops[o].count = 1
                            /\ ops[o].count = 0 => Len(ops) = 1
  BY <1>2, <1>3 DEF Uniform
<1>9. ops # <<>> => Len(systems) = Last(ops).offset + Last(ops).count
  BY <1>2 DEF Tiled, End, Last
<1> QED
  BY <1>6, <1>7, <1>8, <1>9 DEF OperationsUniform

LEMMA MergeReasons ==
    ASSUME PipelineInv
    PROVE  MergesHaveReasons
<1>1. SUFFICES ASSUME ~changed, NEW o \in 1 .. Len(ops) - 1
               PROVE  \/ ops[o].multi_threaded # ops[o + 1].multi_threaded
                      \/ ops[o].immediate \/ ops[o + 1].immediate
                      \/ LET before == OperationOf(o)
                             next == Min(OperationOf(o + 1))
                             border == {next} \cup {x \in Inactive : Min(before) < x /\ x < next}
                         IN  \E s \in before, x \in border : s < x /\ Conflict(s, x)
  BY DEF MergesHaveReasons
<1> DEFINE before == OperationOf(o)
           next == Min(OperationOf(o + 1))
           border == {next} \cup {x \in Inactive : Min(before) < x /\ x < next}
<1>2. Scheduled(systems, ops, RunsData, EnabledIn(status), ActiveIn(status))
  BY <1>1 DEF PipelineInv, ScheduleKept
<1>3. /\ systems \in Seq(Systems) /\ ops \in Seq(OperationRecords)
      /\ Increasing(systems) /\ Tiled(systems, ops)
      /\ \A k \in 1 .. Len(ops) : ops[k].count = 0 => Len(ops) = 1
      /\ Reasons(systems, ops, RunsData, EnabledIn(status), ActiveIn(status))
  BY <1>2 DEF Scheduled
<1>4. /\ Len(ops) \in Nat /\ Len(ops) # 1 /\ o \in DOMAIN ops /\ o + 1 \in DOMAIN ops
      /\ o + 1 \in 1 .. Len(ops)
  BY <1>3
<1>5. ops[o + 1] \in OperationRecords /\ ops[o] \in OperationRecords
  BY <1>3, <1>4
<1>6. ops[o + 1].offset \in Nat /\ ops[o + 1].count \in Nat /\ ops[o + 1].count > 0
  <2>1. ops[o + 1].offset \in Nat /\ ops[o + 1].count \in Nat
    BY <1>5 DEF OperationRecords
  <2>2. ops[o + 1].count # 0
    BY <1>3, <1>4
  <2> QED
    BY <2>1, <2>2
<1>7. Reason(systems, ops, RunsData, EnabledIn(status), ActiveIn(status), o)
  BY <1>1, <1>3, <1>6 DEF Reasons
<1>8. /\ before = {systems[i] : i \in Places(ops[o])}
      /\ OperationOf(o + 1) = {systems[i] : i \in Places(ops[o + 1])}
      /\ before \subseteq Systems /\ OperationOf(o + 1) \subseteq Systems
      /\ \A x, y \in Systems : Conflict(x, y) <=> Depends(RunsData[y], RunsData[x])
  BY <1>4, OperationPlaces
<1>9. Systems \subseteq Nat
  BY DEF Systems
<1> DEFINE first == ops[o + 1].offset + 1
<1>10. first \in Places(ops[o + 1]) /\ Places(ops[o + 1]) \subseteq 1 .. Len(systems)
  <2>1. first \in Places(ops[o + 1])
    BY <1>5, <1>6, PlacesFacts
  <2>2. End(ops[o + 1]) <= Len(systems) /\ Len(systems) \in Nat
    BY <1>3, <1>4 DEF Tiled
  <2>3. \A from, count, n \in Nat : from + count <= n => from + 1 .. from + count \subseteq 1 .. n
    OBVIOUS
  <2>4. Places(ops[o + 1]) \subseteq 1 .. Len(systems)
    BY <1>6, <2>2, <2>3 DEF Places, End
  <2> QED
    BY <2>1, <2>4
<1>11. \A i \in Places(ops[o + 1]) : first <= i
  BY <1>6 DEF Places
<1>12. next = systems[first]
  <2>1. ASSUME NEW s \in OperationOf(o + 1) PROVE systems[first] <= s
    <3>1. PICK i \in Places(ops[o + 1]) : systems[i] = s
      BY <1>8, <2>1
    <3>2. i \in 1 .. Len(systems) /\ first \in 1 .. Len(systems) /\ first <= i
      BY <1>10, <1>11
    <3>3. systems[i] \in Nat /\ systems[first] \in Nat
      <4>1. \A k \in 1 .. Len(systems) : systems[k] \in Systems
        BY <1>3
      <4> QED
        BY <1>9, <3>2, <4>1
    <3> HIDE DEF first
    <3>4. first = i \/ first < i
      BY <3>2
    <3> QED
      BY <1>3, <3>1, <3>2, <3>3, <3>4 DEF Increasing
  <2>2. systems[first] \in OperationOf(o + 1)
    BY <1>8, <1>10
  <2>3. OperationOf(o + 1) \in SUBSET Nat /\ OperationOf(o + 1) # {}
    BY <1>8, <1>9, <2>2
  <2>4. next \in OperationOf(o + 1) /\ \A m \in OperationOf(o + 1) : next <= m
    BY <2>3, LeastOf
  <2>5. next \in Nat /\ systems[first] \in Nat /\ next <= systems[first] /\ systems[first] <= next
    BY <2>1, <2>2, <2>3, <2>4
  <2> HIDE DEF next, first
  <2> QED
    BY <2>5
<1>13. ASSUME NEW i \in Places(ops[o]), NEW x \in EnabledIn(status), systems[i] < x,
              x = next \/ (x \notin ActiveIn(status) /\ x < next),
              Depends(RunsData[x], RunsData[systems[i]])
       PROVE  \E s \in before, y \in border : s < y /\ Conflict(s, y)
  <2>1. systems[i] \in before /\ systems[i] \in Systems /\ x \in Systems
    BY <1>8, <1>13 DEF EnabledIn
  <2>2. Conflict(systems[i], x)
    BY <1>8, <1>13, <2>1
  <2>3. x \in border
    <3>1. CASE x = next
      BY <3>1
    <3>2. CASE x \notin ActiveIn(status) /\ x < next
      <4>1. x \in Inactive
        <5>1. status[x] \in Statuses
          BY <2>1 DEF PipelineInv, TypeOK
        <5> QED
          BY <1>13, <2>1, <3>2, <5>1 DEF EnabledIn, ActiveIn, Inactive, Statuses
      <4>2. before \in SUBSET Nat /\ before # {}
        BY <1>8, <1>9, <2>1
      <4>3. Min(before) \in Nat /\ Min(before) <= systems[i]
        <5> HIDE DEF before
        <5>1. Min(before) \in before /\ \A m \in before : Min(before) <= m
          BY <4>2, LeastOf
        <5> QED
          BY <2>1, <4>2, <5>1
      <4>4. Min(before) < x
        <5>1. systems[i] \in Nat /\ x \in Nat
          BY <1>9, <2>1
        <5> HIDE DEF before
        <5> QED
          BY <1>13, <4>3, <5>1
      <4> QED
        BY <3>2, <4>1, <4>4
    <3> QED
      BY <1>13, <3>1, <3>2
  <2> QED
    BY <1>13, <2>1, <2>2, <2>3
<1>14. CASE \E i \in Places(ops[o]), x \in EnabledIn(status) :
               /\ systems[i] < x
               /\ x = systems[first] \/ (x \notin ActiveIn(status) /\ x < systems[first])
               /\ Depends(RunsData[x], RunsData[systems[i]])
  <2>1. \E s \in before, y \in border : s < y /\ Conflict(s, y)
    BY <1>12, <1>13, <1>14
  <2> QED
    BY <2>1
<1> HIDE DEF before, next, border
<1> QED
  BY <1>7, <1>14 DEF Reason, before, next, border

\* Systems that run in one operation access nothing that an earlier one of them
\* has staged, and neither would the inactive ones between them; every operation
\* takes up where the one before ends and is run as each of its systems asks for.
THEOREM ScheduleIsSound ==
    ASSUME WildcardsNested
    PROVE  Spec => []ScheduleSound
<1>1. PipelineInv => ScheduleSound
  BY SchedulesApart, UniformOperations DEF PipelineInv, ScheduleSound
<1> QED
  BY <1>1, PipelineInvariant, PTL

\* A merge is only where the mode changes, a system is immediate, or one at the
\* border accesses what was staged.
THEOREM MergesAlwaysHaveReasons == Spec => []MergesHaveReasons
<1>1. PipelineInv => MergesHaveReasons
  BY MergeReasons
<1> QED
  BY <1>1, PipelineInvariant, PTL

\* However a merge changes the schedule under a run, no system runs twice.
THEOREM SystemsRunOnce == Spec => []RunsOnce
<1>1. PipelineInv => RunsOnce
  <2>1. SUFFICES ASSUME PipelineInv, running, cur_op # 0
                 PROVE  Range(OperationSystems) \cap ran = {}
    BY DEF RunsOnce
  <2>2. CASE cur_i # Len(systems)
    BY <2>1, <2>2, NoneHasRun
  <2>3. CASE cur_i = Len(systems)
    <3>1. systems \in Seq(Systems) /\ Tiled(systems, ops) /\ ops \in Seq(OperationRecords)
      BY <2>1 DEF PipelineInv, ScheduleKept, Scheduled
    <3>2. cur_op \in 1 .. Len(ops) /\ Len(systems) \in Nat
      BY <2>1, <3>1 DEF PipelineInv, TypeOK
    <3>3. ops[cur_op] \in OperationRecords /\ End(ops[cur_op]) <= Len(systems)
      BY <3>1, <3>2 DEF Tiled
    <3>4. PICK end \in Nat : End(ops[cur_op]) = end
      BY <3>3 DEF OperationRecords, End
    <3>5. OperationEnd = Len(systems)
      BY <2>3, <3>2, <3>3, <3>4 DEF OperationEnd, End
    <3>6. Range(OperationSystems) = {systems[j] : j \in Len(systems) + 1 .. Len(systems)}
      <4>1. OperationSystems = SubSeq(systems, cur_i + 1, Len(systems))
        BY <3>5 DEF OperationSystems
      <4>2. cur_i = Len(systems) /\ cur_i \in Nat /\ Len(systems) \in 0 .. Len(systems)
        BY <2>3, <3>2
      <4> QED
        BY <3>1, <4>1, <4>2, SegmentFacts
    <3>7. Len(systems) + 1 .. Len(systems) = {}
      BY <3>2
    <3> QED
      BY <3>6, <3>7
  <2> QED
    BY <2>2, <2>3
<1> QED
  BY <1>1, PipelineInvariant, PTL

\* While the marks show where the run is, it ends with every due system run.
THEOREM RunsAreComplete == Spec => []DueSystemsRun
<1>1. PipelineInv => DueSystemsRun
  BY DEF PipelineInv, DueKept, DueSystemsRun
<1> QED
  BY <1>1, PipelineInvariant, PTL

\* What a step of a run has to do
StepProgress ==
    running /\ running' => \/ ran' # ran
                           \/ cur_op' > cur_op /\ UNCHANGED <<systems, ops>>
                           \/ cur_op' = 0

LEMMA StepsProgress == PipelineInv /\ [Next]_vars => [StepProgress]_vars
<1> SUFFICES ASSUME PipelineInv, Next, running, running'
             PROVE  \/ ran' # ran
                    \/ cur_op' > cur_op /\ UNCHANGED <<systems, ops>>
                    \/ cur_op' = 0
  BY DEF StepProgress
<1>1. RunOperation \/ SkipOperation
  BY DEF Next, BeginRun, EndRun, EndFrame, ChangeSystems
<1>2. changed \in BOOLEAN /\ cur_op \in 0 .. Len(ops) /\ Len(ops) \in Nat
  <2>1. ops \in Seq(OperationRecords)
    BY DEF PipelineInv, ScheduleKept, Scheduled
  <2> QED
    BY <2>1 DEF PipelineInv, TypeOK
<1>3. changed = FALSE /\ cur_op # 0
  BY <1>1, <1>2 DEF RunOperation, SkipOperation, PipelineInv, PlaceKept
<1>4. ASSUME systems' = systems, ops' = ops, cur_op' = IF cur_op < Len(ops) THEN cur_op + 1 ELSE 0
      PROVE  (cur_op' > cur_op /\ UNCHANGED <<systems, ops>>) \/ cur_op' = 0
  BY <1>2, <1>4
<1>5. CASE SkipOperation
  <2>1. /\ UpdatePipeline(BuiltSchedule(FALSE, status), FALSE, marked, [op |-> cur_op, i |-> cur_i])
        /\ cur_i = Len(systems)
    BY <1>3, <1>5 DEF SkipOperation
  <2>2. systems \in Seq(Systems) /\ Tiled(systems, ops) /\ ops \in Seq(OperationRecords)
    BY DEF PipelineInv, ScheduleKept, Scheduled
  <2>3. cur_op \in 1 .. Len(ops) /\ cur_i \in Nat
    BY <1>2, <1>3, <2>1, <2>2
  <2>4. ops[cur_op] \in OperationRecords /\ End(ops[cur_op]) <= cur_i
    BY <2>1, <2>2, <2>3 DEF Tiled
  <2>5. PICK end \in Nat : End(ops[cur_op]) = end
    BY <2>4 DEF OperationRecords, End
  <2>6. cur_i + 1 >= End(ops[cur_op])
    BY <2>3, <2>4, <2>5
  <2>7. systems' = systems /\ ops' = ops /\ cur_op' = IF cur_op < Len(ops) THEN cur_op + 1 ELSE 0
    BY <2>1, <2>3, <2>6, StaysInSchedule
  <2> QED
    BY <1>4, <2>7
<1>6. CASE RunOperation /\ OperationSystems # <<>>
  <2>1. cur_i # Len(systems) /\ ran' = ran \cup Range(OperationSystems)
    BY <1>6 DEF RunOperation
  <2>2. Range(OperationSystems) \cap ran = {}
    BY <1>3, <2>1, NoneHasRun
  <2>3. Range(OperationSystems) # {}
    <3>1. OperationSystems \in Seq(Systems)
      <4>1. systems \in Seq(Systems)
        BY DEF PipelineInv, TypeOK
      <4>2. OperationEnd \in 0 .. Len(systems) /\ cur_i \in Nat
        BY <1>3, <2>1, OperationFacts DEF OperationRan
      <4> QED
        BY <4>1, <4>2 DEF OperationSystems
    <3>2. 1 \in DOMAIN OperationSystems
      BY <1>6, <3>1
    <3> QED
      BY <3>2 DEF Range
  <2> QED
    BY <2>1, <2>2, <2>3
<1>7. CASE RunOperation /\ OperationSystems = <<>>
  <2>1. cur_i # Len(systems)
    BY <1>7 DEF RunOperation
  <2>2. UpdatePipeline(BuiltSchedule(FALSE, status), FALSE, marked', [op |-> cur_op, i |-> ReturnedIndex])
    BY <1>3, <1>7 DEF RunOperation, Stored
  <2>3. cur_op \in 1 .. Len(ops) /\ OperationRan
    BY <1>3, <2>1, OperationFacts
  <2>4. ReturnedIndex \in Nat /\ End(ops[cur_op]) <= ReturnedIndex + 1
    BY <2>3 DEF OperationRan
  <2>5. End(ops[cur_op]) \in Nat
    <3>1. ops[cur_op] \in OperationRecords
      BY <2>3 DEF PipelineInv, ScheduleKept, Scheduled
    <3> QED
      BY <3>1 DEF OperationRecords, End
  <2>6. ReturnedIndex + 1 >= End(ops[cur_op])
    BY <2>4, <2>5
  <2>7. systems' = systems /\ ops' = ops /\ cur_op' = IF cur_op < Len(ops) THEN cur_op + 1 ELSE 0
    BY <2>2, <2>3, <2>4, <2>6, StaysInSchedule
  <2> QED
    BY <1>4, <2>7
<1> QED
  BY <1>1, <1>5, <1>6, <1>7

\* Each step of a run runs a system that has not run, goes on to a later
\* operation of the same schedule, or is the last.
THEOREM RunsMakeProgress == Spec => RunsProgress
<1>1. PipelineInv /\ [Next]_vars => [StepProgress]_vars
  BY StepsProgress
<1>2. RunsProgress <=> [][StepProgress]_vars
  BY DEF RunsProgress, StepProgress
<1> QED
  BY <1>1, <1>2, PipelineInvariant, PTL DEF Spec
=============================================================================
